----------------------------- MODULE Sampler_proofs -----------------------------
(***************************************************************************)
(* For every process, whatever its memory holds and however it runs on,    *)
(* and every size of the array: the stack stays within its array, every    *)
(* frame of a sample under way is in the frame cache, and the stream       *)
(* defines what it refers to.                                              *)
(*                                                                         *)
(* A frame of the sample is in the cache because it is in its front part,  *)
(* which is as long as what has been resolved: each resolution moves one   *)
(* frame to the front and the others back by one place at most, and the    *)
(* cache has as many places as the array.                                  *)
(*                                                                         *)
(* A sample of a process that stands still shows its frames: unwinding is  *)
(* at some step of the walk along the back pointers, with the frames       *)
(* before it on the stack, and a stack that holds no frame twice is not    *)
(* in a cycle, unless it is one of shims, in which it stays.               *)
(***************************************************************************)
EXTENDS Sampler, SequenceTheorems, FiniteSetTheorems, WellFoundedInduction, TLAPS

Pair  == [origin : Addr, code : setting.code]
Entry == [key : setting.code, obj : setting.obj]

\* TypeOK, with the sequences as such.
Process ==
  /\ setting \in Settings
  /\ mem \in [Addr -> Frame]
  /\ top \in Addr \cup {NULL} /\ cur \in Addr \cup {NULL}

Stacks ==
  /\ stack \in Seq(Pair) /\ Len(stack) <= MAX_STACK_SIZE
  /\ base \in Seq(setting.obj) /\ Len(base) <= MAX_STACK_SIZE
  /\ cache \in Seq(Entry) /\ Len(cache) <= MAX_FRAME_CACHE_SIZE

Others ==
  /\ pc \in {"idle", "excluded", "cframe", "unwind", "resolve", "emit", "emitted"}
  /\ invalid \in BOOLEAN /\ again \in BOOLEAN
  /\ strings \subseteq String /\ stringDefs \subseteq String /\ frameDefs \subseteq Code
  /\ faults \in 0..MaxFaults

\* Where a sample is: there is room for the frame that is pushed next, and not more is
\* resolved than was pushed.
Place ==
  /\ pc \in {"idle", "excluded", "cframe", "unwind"} => base = <<>>
  /\ pc \in {"idle", "excluded", "cframe", "emitted"} => stack = <<>>
  /\ pc = "unwind" => cur \in Addr /\ Len(stack) < MAX_STACK_SIZE
  /\ pc = "resolve" => Len(base) <= Len(stack)
  /\ pc = "emit" => Len(base) = Len(stack)
  /\ pc # "emitted" => emitted = <<>>

\* A sample is marked once for its unwinding and once for its resolution, which ends
\* where it fails.
Marks ==
  /\ marks \in 0..2
  /\ pc \in {"idle", "excluded", "cframe", "unwind"} => marks = 0 /\ ~again
  /\ pc = "resolve" /\ ~again => marks = 0
  /\ pc = "resolve" /\ Len(base) < Len(stack) => marks <= 1

\* What has been resolved is in the front part of the cache.
Recent ==
  pc \in {"resolve", "emit"} =>
    \A i \in 1..Len(base) : \E j \in 1..Len(base) :
      j <= Len(cache) /\ cache[j] = [key |-> stack[i].code, obj |-> base[i]]

Inv == Process /\ Stacks /\ Others /\ Place /\ Marks /\ Recent

\* The sequences of TypeOK.
LEMMA Bounded ==
  ASSUME NEW S, NEW n \in Nat, NEW s
  PROVE  s \in BoundedSeq(S, n) <=> s \in Seq(S) /\ Len(s) <= n
<1>1. BoundedSeq(S, n) = UNION {[1..m -> S] : m \in 0..n}
  BY DEF BoundedSeq, SeqOf
<1>2. ASSUME s \in BoundedSeq(S, n) PROVE s \in Seq(S) /\ Len(s) <= n
  <2>1. PICK m \in 0..n : s \in [1..m -> S]
    BY <1>1, <1>2
  <2> QED
    BY <2>1
<1>3. ASSUME s \in Seq(S), Len(s) <= n PROVE s \in BoundedSeq(S, n)
  <2>1. Len(s) \in 0..n /\ s \in [1..Len(s) -> S]
    BY <1>3, LenProperties
  <2> QED
    BY <1>1, <2>1
<1> QED
  BY <1>2, <1>3

\* What is assumed of a setting gives the bounds their types.
LEMMA SettingTypes ==
  ASSUME setting \in Settings
  PROVE  /\ MAX_STACK_SIZE \in Nat \ {0, 1} /\ MAX_FRAME_CACHE_SIZE = MAX_STACK_SIZE
         /\ setting.code \subseteq Code /\ NoCode \in setting.code /\ iframes \in BOOLEAN
<1>1. /\ setting.size \in Nat \ {0, 1} /\ setting.code \subseteq Code /\ setting.code # {}
      /\ setting.iframes \in BOOLEAN
  BY SettingsAssumption
<1>2. NoCode \in setting.code
  BY <1>1 DEF NoCode
<1> QED
  BY <1>1, <1>2 DEF MAX_STACK_SIZE, MAX_FRAME_CACHE_SIZE, iframes

\* The invariant holds initially.
LEMMA InitInv == Init => Inv
<1> SUFFICES ASSUME Init PROVE Inv
  OBVIOUS
<1>1. setting \in Settings /\ MAX_STACK_SIZE \in Nat /\ MAX_FRAME_CACHE_SIZE = MAX_STACK_SIZE /\ NoCode \in setting.code
  BY SettingTypes DEF Init
<1>2. mem \in [Addr -> Frame]
  <2>1. [back |-> NULL, code |-> NoCode, shim |-> FALSE] \in Frame
    BY <1>1 DEF Frame
  <2>2. CASE racy
    BY <2>1, <2>2 DEF Init
  <2>3. CASE ~racy
    BY <2>3 DEF Init
  <2> QED
    BY <2>2, <2>3
<1>3. Process
  <2>1. top = NULL /\ cur = NULL
    BY DEF Init
  <2> QED
    BY <1>1, <1>2, <2>1 DEF Process
<1>4. Others
  <2>1. /\ pc = "idle" /\ invalid = FALSE /\ again = FALSE
        /\ strings = {} /\ stringDefs = {} /\ frameDefs = {} /\ faults = 0
    BY DEF Init
  <2>2. invalid \in BOOLEAN /\ again \in BOOLEAN
    BY <2>1
  <2>3. faults \in 0..MaxFaults
    BY <2>1, BoundAssumption
  <2> QED
    BY <2>1, <2>2, <2>3 DEF Others
<1>5. Stacks /\ Place /\ Marks /\ Recent
  BY <1>1 DEF Init, Stacks, Place, Marks, Recent
<1> QED
  BY <1>3, <1>4, <1>5 DEF Inv

--------------------------------------------------------------------------------
(* Unwinding. *)

\* Before anything is read.
LEMMA BeginOK ==
  ASSUME Inv, NEW t \in Addr \cup {NULL}, Exclude(t) \/ Excluded \/ Start(t)
  PROVE  Inv'
<1>1. MAX_STACK_SIZE \in Nat \ {0, 1} /\ MAX_FRAME_CACHE_SIZE = MAX_STACK_SIZE
  BY SettingTypes DEF Inv, Process
<1>2. UNCHANGED <<setting, mem, base, invalid, again, cache, strings, frameDefs, stringDefs,
                  emitted, marks, faults>>
  BY DEF Exclude, Excluded, Start
<1>3. stack = <<>> /\ stack' = <<>> /\ base = <<>>
  BY DEF Exclude, Excluded, Start, Inv, Place
<1>4. Process'
  BY <1>2 DEF Exclude, Excluded, Start, Inv, Process, Frame, NoCode, iframes
<1>5. Stacks' /\ Others'
  BY <1>1, <1>2, <1>3 DEF Exclude, Excluded, Start, Inv, Stacks, Others, Pair, Entry,
                          MAX_STACK_SIZE, MAX_FRAME_CACHE_SIZE
<1>6. Place' /\ Marks' /\ Recent'
  BY <1>1, <1>2, <1>3 DEF Exclude, Excluded, Start, Inv, Place, Marks, Recent, MAX_STACK_SIZE
<1> QED
  BY <1>4, <1>5, <1>6 DEF Inv

\* The first interpreter frame is looked for.
LEMMA CFrameOK ==
  ASSUME Inv, ReadCFrame \/ ReadCFrameFails
  PROVE  Inv'
<1>1. MAX_STACK_SIZE \in Nat \ {0, 1} /\ MAX_FRAME_CACHE_SIZE = MAX_STACK_SIZE
  BY SettingTypes DEF Inv, Process
<1>2. UNCHANGED <<setting, mem, top, stack, base, invalid, cache, strings, frameDefs, stringDefs, emitted>>
  BY DEF ReadCFrame, ReadCFrameFails
<1>3. pc = "cframe" /\ stack = <<>> /\ base = <<>> /\ marks = 0 /\ ~again
  BY DEF ReadCFrame, ReadCFrameFails, Inv, Place, Marks
<1>4. Process'
  BY <1>2 DEF ReadCFrame, ReadCFrameFails, Inv, Process, Frame, NoCode, iframes
<1>5. Stacks' /\ Others'
  <2>1. Stacks'
    BY <1>2 DEF Inv, Stacks, Pair, Entry, MAX_STACK_SIZE, MAX_FRAME_CACHE_SIZE
  <2>2. /\ pc' \in {"resolve", "unwind"} /\ again' \in BOOLEAN
        /\ faults' = faults \/ (faults < MaxFaults /\ faults' = faults + 1)
    BY <1>3 DEF ReadCFrame, ReadCFrameFails, CanFail, Inv, Others
  <2> QED
    BY <1>2, <2>1, <2>2, BoundAssumption DEF Inv, Others
<1>6. Place' /\ Marks' /\ Recent'
  BY <1>1, <1>2, <1>3, <1>4
  DEF ReadCFrame, ReadCFrameFails, Inv, Process, Place, Marks, Recent, MAX_STACK_SIZE
<1> QED
  BY <1>4, <1>5, <1>6 DEF Inv

\* Unwinding that ends marks the sample only if it is to be resolved once.
LEMMA UnwoundTypes ==
  ASSUME iframes \in BOOLEAN, marks = 0, NEW bad \in BOOLEAN, Unwound(bad)
  PROVE  /\ pc' = "resolve" /\ invalid' \in BOOLEAN
         /\ again' \in BOOLEAN /\ marks' \in {0, 1} /\ (~again' => marks' = 0)
<1>1. CASE iframes
  BY <1>1 DEF Unwound
<1>2. CASE ~iframes
  BY <1>2 DEF Unwound
<1> QED
  BY <1>1, <1>2

\* A frame is pushed: there is room, and if none is left after it unwinding ends.
LEMMA PushOK == ASSUME Inv, Push PROVE Inv'
<1>1. /\ MAX_STACK_SIZE \in Nat \ {0, 1} /\ MAX_FRAME_CACHE_SIZE = MAX_STACK_SIZE
      /\ setting \in Settings /\ iframes \in BOOLEAN
  BY SettingTypes DEF Inv, Process
<1>2. UNCHANGED <<setting, mem, top, base, cache, strings, frameDefs, stringDefs, emitted, faults>>
  BY DEF Push
<1>3. /\ pc = "unwind" /\ cur \in Addr /\ stack \in Seq(Pair) /\ Len(stack) < MAX_STACK_SIZE
      /\ base = <<>> /\ marks = 0 /\ ~again
  BY DEF Push, Inv, Place, Marks, Stacks
<1>4. PICK f \in Reads(cur) :
        LET pushed == IF f.shim THEN stack ELSE Append(stack, [origin |-> cur, code |-> f.code])
            checked == iframes \/ stack # <<>>
        IN  /\ stack' = pushed
            /\ cur' = f.back
            /\ IF checked /\ (Full(pushed) \/ HasCycle(pushed)) THEN Unwound(TRUE)
               ELSE IF f.back = NULL THEN Unwound(FALSE)
               ELSE UNCHANGED <<pc, invalid, marks, again>>
  BY DEF Push
<1>5. f \in Frame
  BY <1>3 DEF Reads, Inv, Process
<1>6. f.back \in Addr \cup {NULL} /\ [origin |-> cur, code |-> f.code] \in Pair
  BY <1>3, <1>5 DEF Frame, Pair
<1>7. /\ stack' \in Seq(Pair) /\ Len(stack') \in {Len(stack), Len(stack) + 1}
      /\ cur' \in Addr \cup {NULL}
  BY <1>3, <1>4, <1>6
<1>8. \/ pc' = "unwind" /\ cur' \in Addr /\ Len(stack') < MAX_STACK_SIZE /\ UNCHANGED <<invalid, marks, again>>
      \/ /\ pc' = "resolve" /\ invalid' \in BOOLEAN
         /\ again' \in BOOLEAN /\ marks' \in {0, 1} /\ (~again' => marks' = 0)
  <2>1. CASE Unwound(TRUE) \/ Unwound(FALSE)
    BY <2>1, <1>1, <1>3, UnwoundTypes
  <2>2. CASE ~(Unwound(TRUE) \/ Unwound(FALSE))
    <3>1. /\ UNCHANGED <<pc, invalid, marks, again>> /\ cur' = f.back /\ f.back # NULL
          /\ ~((iframes \/ stack # <<>>) /\ Full(stack'))
      BY <2>2, <1>4
    <3>2. CASE stack = <<>>
      <4>1. Len(stack) = 0 /\ Len(stack') \in {0, 1}
        BY <3>2, <1>7
      <4>2. Len(stack') < MAX_STACK_SIZE
        BY <4>1, <1>1
      <4>3. pc' = "unwind" /\ cur' \in Addr
        BY <3>1, <1>3, <1>6
      <4> QED
        BY <3>1, <4>2, <4>3
    <3>3. CASE ~Full(stack')
      BY <3>1, <3>3, <1>1, <1>3, <1>6, <1>7 DEF Full
    <3> QED
      BY <3>1, <3>2, <3>3
  <2> QED
    BY <2>1, <2>2
<1>9. Process'
  BY <1>2, <1>7 DEF Inv, Process, Frame, NoCode, iframes
<1>10. Stacks' /\ Others'
  BY <1>1, <1>2, <1>3, <1>7, <1>8
  DEF Inv, Stacks, Others, Pair, Entry, MAX_STACK_SIZE, MAX_FRAME_CACHE_SIZE
<1>11. Place' /\ Marks' /\ Recent'
  <2>1. Len(base') = 0 /\ base' = <<>> /\ Len(stack') \in Nat
    BY <1>2, <1>3, <1>7
  <2>2. emitted' = <<>>
    BY <1>2, <1>3 DEF Inv, Place
  <2> QED
    BY <1>1, <1>2, <1>3, <1>8, <2>1, <2>2 DEF Place, Marks, Recent, MAX_STACK_SIZE
<1> QED
  BY <1>9, <1>10, <1>11 DEF Inv

\* Unwinding ends where a frame cannot be read.
LEMMA PushFailsOK == ASSUME Inv, PushFails PROVE Inv'
<1>1. /\ MAX_STACK_SIZE \in Nat \ {0, 1} /\ MAX_FRAME_CACHE_SIZE = MAX_STACK_SIZE
      /\ setting \in Settings /\ iframes \in BOOLEAN
  BY SettingTypes DEF Inv, Process
<1>2. /\ UNCHANGED <<setting, mem, top, cur, stack, base, cache, strings, frameDefs, stringDefs, emitted>>
      /\ faults' \in {faults, faults + 1} /\ (faults' # faults => CanFail) /\ Unwound(TRUE)
  BY DEF PushFails
<1>3. pc = "unwind" /\ base = <<>> /\ marks = 0 /\ ~again
  BY DEF PushFails, Inv, Place, Marks
<1>4. /\ pc' = "resolve" /\ invalid' \in BOOLEAN
      /\ again' \in BOOLEAN /\ marks' \in {0, 1} /\ (~again' => marks' = 0)
  BY <1>1, <1>2, <1>3, UnwoundTypes
<1>5. Process'
  BY <1>2 DEF Inv, Process, Frame, NoCode, iframes
<1>6. Stacks' /\ Others'
  BY <1>1, <1>2, <1>4, BoundAssumption
  DEF Inv, Stacks, Others, Pair, Entry, MAX_STACK_SIZE, MAX_FRAME_CACHE_SIZE, CanFail
<1>7. Place' /\ Marks' /\ Recent'
  <2>1. Len(base') = 0 /\ base' = <<>> /\ Len(stack') \in Nat /\ emitted' = <<>>
    BY <1>2, <1>3 DEF Inv, Stacks, Place
  <2> QED
    BY <1>4, <2>1 DEF Place, Marks, Recent
<1> QED
  BY <1>5, <1>6, <1>7 DEF Inv

--------------------------------------------------------------------------------
(* Resolution. *)

\* One more frame is resolved: it goes to the front of the cache, and the frames
\* before it move back by one place at most.
LEMMA ResolvedOK ==
  ASSUME Inv, Resolving, NEW obj,
         NEW S, S \subseteq String, NEW D, D \subseteq Code,
         UNCHANGED <<setting, mem, top, pc, cur, stack, invalid, again, emitted, marks, faults>>,
         base' = Append(base, obj),
         cache' \in Seq(Entry), Len(cache') <= MAX_FRAME_CACHE_SIZE, Len(cache') >= 1,
         cache'[1] = [key |-> Wanted, obj |-> obj], obj \in setting.obj,
         \A j \in 1..Len(base) : j <= Len(cache) =>
           \E n \in 1..(Len(base) + 1) : n <= Len(cache') /\ cache'[n] = cache[j],
         strings' \subseteq String, stringDefs' \subseteq String, frameDefs' \subseteq Code
  PROVE  Inv'
<1>1. /\ MAX_STACK_SIZE \in Nat \ {0, 1} /\ MAX_FRAME_CACHE_SIZE = MAX_STACK_SIZE
      /\ stack \in Seq(Pair) /\ base \in Seq(setting.obj) /\ cache \in Seq(Entry)
      /\ Len(stack) <= MAX_STACK_SIZE
  BY SettingTypes DEF Inv, Process, Stacks
<1>2. /\ pc = "resolve" /\ Len(base) < Len(stack) /\ Len(base) \in Nat /\ Len(stack) \in Nat
      /\ base' \in Seq(setting.obj) /\ Len(base') = Len(base) + 1
      /\ base'[Len(base) + 1] = obj /\ \A i \in 1..Len(base) : base'[i] = base[i]
  BY <1>1 DEF Resolving
<1>3. Process'
  BY DEF Inv, Process, Frame, NoCode, iframes
<1>4. Stacks' /\ Others'
  BY <1>1, <1>2 DEF Inv, Stacks, Others, Pair, Entry, MAX_STACK_SIZE, MAX_FRAME_CACHE_SIZE
<1>5. Place' /\ Marks'
  BY <1>2 DEF Inv, Place, Marks
<1>6. Recent'
  <2> SUFFICES ASSUME NEW i \in 1..(Len(base) + 1)
               PROVE  \E n \in 1..(Len(base) + 1) :
                        n <= Len(cache') /\ cache'[n] = [key |-> stack[i].code, obj |-> base'[i]]
    BY <1>2 DEF Recent
  <2>1. CASE i = Len(base) + 1
    BY <2>1, <1>2 DEF Wanted
  <2>2. CASE i # Len(base) + 1
    <3>1. i \in 1..Len(base)
      BY <2>2, <1>2
    <3>2. PICK j \in 1..Len(base) :
            j <= Len(cache) /\ cache[j] = [key |-> stack[i].code, obj |-> base[i]]
      BY <1>2, <3>1 DEF Inv, Recent
    <3>3. PICK n \in 1..(Len(base) + 1) : n <= Len(cache') /\ cache'[n] = cache[j]
      BY <3>2
    <3> QED
      BY <1>2, <3>1, <3>2, <3>3
  <2> QED
    BY <2>1, <2>2
<1> QED
  BY <1>3, <1>4, <1>5, <1>6 DEF Inv

\* A sequence with a new first element.
LEMMA Fronted ==
  ASSUME NEW S, NEW x \in S, NEW r \in Seq(S)
  PROVE  LET t == <<x>> \o r IN
         /\ t \in Seq(S) /\ Len(t) = Len(r) + 1 /\ t[1] = x
         /\ \A i \in 2..(Len(r) + 1) : t[i] = r[i - 1]
OBVIOUS

\* A frame that is found goes to the front of the cache, and those before it back by one.
LEMMA HitCache ==
  ASSUME Inv, NEW p \in 1..Len(cache)
  PROVE  LET q == <<cache[p]>> \o RemoveAt(cache, p) IN
         /\ q \in Seq(Entry) /\ Len(q) = Len(cache) /\ Len(cache) \in Nat
         /\ \A i \in 1..Len(cache) :
              q[i] = IF i = 1 THEN cache[p] ELSE IF i <= p THEN cache[i - 1] ELSE cache[i]
<1> DEFINE a == SubSeq(cache, 1, p - 1)
           b == SubSeq(cache, p + 1, Len(cache))
           rest == a \o b
           e == cache[p]
           q == <<e>> \o rest
<1>1. cache \in Seq(Entry) /\ Len(cache) \in Nat /\ \A i \in 1..Len(cache) : cache[i] \in Entry
  BY DEF Inv, Stacks
<1>2. a \in Seq(Entry) /\ Len(a) = p - 1 /\ \A i \in 1..(p - 1) : a[i] = cache[i]
  BY <1>1, SubSeqProperties
<1>3. b \in Seq(Entry) /\ Len(b) = Len(cache) - p /\ \A i \in 1..(Len(cache) - p) : b[i] = cache[p + i]
  BY <1>1, SubSeqProperties
<1>4. e \in Entry
  BY <1>1
<1>5. q = <<cache[p]>> \o RemoveAt(cache, p)
  BY DEF RemoveAt
<1> HIDE DEF a, b, e
<1>6. /\ rest \in Seq(Entry) /\ Len(rest) = Len(a) + Len(b)
      /\ \A i \in 1..(Len(a) + Len(b)) : rest[i] = IF i <= Len(a) THEN a[i] ELSE b[i - Len(a)]
  BY <1>2, <1>3, ConcatProperties
<1> HIDE DEF rest
<1>7. Len(rest) = Len(cache) - 1 /\ rest \in Seq(Entry)
  BY <1>1, <1>2, <1>3, <1>6
<1>8. /\ q \in Seq(Entry) /\ Len(q) = Len(rest) + 1 /\ q[1] = e
      /\ \A i \in 2..(Len(rest) + 1) : q[i] = rest[i - 1]
  BY <1>4, <1>7, Fronted
<1> HIDE DEF q
<1>9. ASSUME NEW i \in 1..Len(cache), i # 1
      PROVE  q[i] = IF i <= p THEN cache[i - 1] ELSE cache[i]
  <2>1. i \in 2..(Len(rest) + 1) /\ q[i] = rest[i - 1] /\ i - 1 \in 1..(Len(a) + Len(b))
    BY <1>1, <1>6, <1>7, <1>8, <1>9
  <2>2. CASE i <= p
    <3>1. i - 1 \in 1..(p - 1) /\ i - 1 <= Len(a)
      BY <2>2, <1>2, <1>9
    <3> QED
      BY <2>1, <2>2, <3>1, <1>2, <1>6
  <2>3. CASE ~(i <= p)
    <3>1. (i - 1) - Len(a) \in 1..(Len(cache) - p) /\ p + ((i - 1) - Len(a)) = i /\ ~(i - 1 <= Len(a))
      BY <2>3, <1>1, <1>2
    <3> QED
      BY <2>1, <2>3, <3>1, <1>3, <1>6
  <2> QED
    BY <2>2, <2>3
<1>10. \A i \in 1..Len(cache) :
         q[i] = IF i = 1 THEN cache[p] ELSE IF i <= p THEN cache[i - 1] ELSE cache[i]
  BY <1>8, <1>9 DEF e
<1> QED
  BY <1>1, <1>5, <1>7, <1>8, <1>10

\* A frame that is stored goes to the front of the cache, and the others back by one;
\* the last one goes if the cache is full.
LEMMA MissCache ==
  ASSUME Inv, NEW k \in setting.code, NEW obj \in setting.obj, StoreFrame(k, obj)
  PROVE  /\ cache' \in Seq(Entry) /\ Len(cache') <= MAX_FRAME_CACHE_SIZE
         /\ Len(cache') >= 1 /\ cache'[1] = [key |-> k, obj |-> obj]
         /\ \A i \in 2..Len(cache') : i - 1 \in 1..Len(cache) /\ cache'[i] = cache[i - 1]
         /\ \A j \in 1..Len(cache) : j < MAX_FRAME_CACHE_SIZE => j + 1 \in 2..Len(cache')
<1> DEFINE e == [key |-> k, obj |-> obj]
           kept == IF Len(cache) = MAX_FRAME_CACHE_SIZE THEN Front(cache) ELSE cache
<1>1. /\ MAX_FRAME_CACHE_SIZE \in Nat \ {0} /\ cache \in Seq(Entry) /\ Len(cache) \in Nat
      /\ Len(cache) <= MAX_FRAME_CACHE_SIZE
  BY SettingTypes DEF Inv, Process, Stacks
<1>2. e \in Entry /\ cache' = <<e>> \o kept
  BY DEF StoreFrame, Entry
<1>3. /\ kept \in Seq(Entry) /\ Len(kept) <= MAX_FRAME_CACHE_SIZE - 1 /\ Len(kept) <= Len(cache)
      /\ \A j \in 1..Len(kept) : kept[j] = cache[j]
      /\ \A j \in 1..Len(cache) : j < MAX_FRAME_CACHE_SIZE => j \in 1..Len(kept)
  <2>1. CASE Len(cache) = MAX_FRAME_CACHE_SIZE
    BY <2>1, <1>1 DEF Front
  <2>2. CASE Len(cache) # MAX_FRAME_CACHE_SIZE
    BY <2>2, <1>1
  <2> QED
    BY <2>1, <2>2
<1> HIDE DEF e, kept
<1>4. /\ cache' \in Seq(Entry) /\ Len(cache') = Len(kept) + 1 /\ cache'[1] = e /\ Len(kept) \in Nat
      /\ \A i \in 2..(Len(kept) + 1) : cache'[i] = kept[i - 1]
  BY <1>2, <1>3, Fronted
<1>5. ASSUME NEW i \in 2..Len(cache') PROVE i - 1 \in 1..Len(cache) /\ cache'[i] = cache[i - 1]
  <2>1. i - 1 \in 1..Len(kept) /\ i - 1 \in 1..Len(cache)
    BY <1>1, <1>3, <1>4
  <2> QED
    BY <2>1, <1>3, <1>4
<1>6. ASSUME NEW j \in 1..Len(cache), j < MAX_FRAME_CACHE_SIZE PROVE j + 1 \in 2..Len(cache')
  <2>1. j \in 1..Len(kept)
    BY <1>3, <1>6
  <2> QED
    BY <2>1, <1>4
<1> QED
  BY <1>1, <1>3, <1>4, <1>5, <1>6 DEF e

\* The frame is found in the cache.
LEMMA HitOK == ASSUME Inv, ResolveHit PROVE Inv'
<1>1. /\ MAX_FRAME_CACHE_SIZE \in Nat /\ cache \in Seq(Entry) /\ Len(cache) \in Nat
      /\ Len(cache) <= MAX_FRAME_CACHE_SIZE /\ Len(base) \in Nat
  BY SettingTypes DEF Inv, Process, Stacks
<1>2. PICK p \in 1..Len(cache) :
        /\ cache[p].key = Wanted
        /\ cache' = <<cache[p]>> \o RemoveAt(cache, p)
        /\ base' = Append(base, cache[p].obj)
  BY DEF ResolveHit, Cached
<1>3. cache[p] = [key |-> Wanted, obj |-> cache[p].obj] /\ cache[p].obj \in setting.obj
  <2>1. cache[p] \in Entry
    BY <1>1
  <2> QED
    BY <1>2, <2>1 DEF Entry
<1>4. /\ cache' \in Seq(Entry) /\ Len(cache') = Len(cache)
      /\ \A i \in 1..Len(cache) :
           cache'[i] = IF i = 1 THEN cache[p] ELSE IF i <= p THEN cache[i - 1] ELSE cache[i]
  BY <1>2, HitCache
<1>5. ASSUME NEW j \in 1..Len(base), j <= Len(cache)
      PROVE  \E n \in 1..(Len(base) + 1) : n <= Len(cache') /\ cache'[n] = cache[j]
  <2>1. CASE j = p
    BY <2>1, <1>1, <1>4
  <2>2. CASE j < p
    <3>1. j + 1 \in 1..Len(cache) /\ j + 1 # 1 /\ j + 1 <= p /\ (j + 1) - 1 = j
      BY <2>2, <1>1
    <3>2. cache'[j + 1] = cache[j]
      BY <3>1, <1>4
    <3>3. j + 1 \in 1..(Len(base) + 1) /\ j + 1 <= Len(cache')
      BY <3>1, <1>1, <1>4
    <3> QED
      BY <3>2, <3>3
  <2>3. CASE j > p
    <3>1. j \in 1..Len(cache) /\ j # 1 /\ ~(j <= p)
      BY <2>3, <1>1, <1>5
    <3>2. cache'[j] = cache[j]
      BY <3>1, <1>4
    <3> QED
      BY <3>1, <3>2, <1>1, <1>4
  <2> QED
    BY <2>1, <2>2, <2>3, <1>1
<1>6. /\ UNCHANGED <<setting, mem, top, pc, cur, stack, invalid, again, emitted, marks, faults>>
      /\ UNCHANGED <<strings, frameDefs, stringDefs>> /\ Resolving
  BY DEF ResolveHit
<1>7. strings' \subseteq String /\ stringDefs' \subseteq String /\ frameDefs' \subseteq Code
  BY <1>6 DEF Inv, Others
<1>8. Len(cache') >= 1 /\ Len(cache') <= MAX_FRAME_CACHE_SIZE /\ cache'[1] = [key |-> Wanted, obj |-> cache[p].obj]
  BY <1>1, <1>3, <1>4
<1> QED
  BY <1>2, <1>3, <1>4, <1>5, <1>6, <1>7, <1>8, ResolvedOK

\* The strings of a frame are fetched.
LEMMA Fetched ==
  ASSUME Inv, NEW S, S \subseteq String, FetchStrings(S)
  PROVE  strings' \subseteq String /\ stringDefs' \subseteq String
BY DEF FetchStrings, Inv, Others

\* The frame that is resolved next.
LEMMA WantedTypes ==
  ASSUME Inv, Resolving
  PROVE  Wanted \in setting.code /\ Wanted \in Code /\ {FileOf[Wanted], ScopeOf[Wanted]} \subseteq String
<1>1. stack \in Seq(Pair) /\ Len(base) + 1 \in 1..Len(stack)
  BY DEF Inv, Stacks, Resolving
<1>2. stack[Len(base) + 1] \in Pair
  BY <1>1
<1>3. Wanted \in setting.code /\ Wanted \in Code
  BY <1>2, SettingTypes DEF Wanted, Pair, Inv, Process
<1> QED
  BY <1>3, StringAssumption

\* The frame is stored, and the rear of a full cache is evicted.
LEMMA MissOK == ASSUME Inv, ResolveMiss PROVE Inv'
<1>1. /\ MAX_STACK_SIZE \in Nat \ {0, 1} /\ MAX_FRAME_CACHE_SIZE = MAX_STACK_SIZE
      /\ cache \in Seq(Entry) /\ Len(cache) \in Nat
      /\ Len(cache) <= MAX_FRAME_CACHE_SIZE /\ Len(base) \in Nat
      /\ Len(stack) <= MAX_STACK_SIZE /\ Len(stack) \in Nat
  BY SettingTypes DEF Inv, Process, Stacks
<1>2. /\ UNCHANGED <<setting, mem, top, pc, cur, stack, invalid, again, emitted, marks, faults>>
      /\ frameDefs' = frameDefs \cup {Wanted} /\ Resolving
      /\ FetchStrings({FileOf[Wanted], ScopeOf[Wanted]})
  BY DEF ResolveMiss
<1>3. PICK obj \in setting.obj : StoreFrame(Wanted, obj) /\ base' = Append(base, obj)
  BY DEF ResolveMiss
<1>4. Wanted \in setting.code /\ Wanted \in Code /\ {FileOf[Wanted], ScopeOf[Wanted]} \subseteq String
  BY <1>2, WantedTypes
<1>5. /\ cache' \in Seq(Entry) /\ Len(cache') <= MAX_FRAME_CACHE_SIZE
      /\ Len(cache') >= 1 /\ cache'[1] = [key |-> Wanted, obj |-> obj]
      /\ \A i \in 2..Len(cache') : cache'[i] = cache[i - 1]
      /\ \A j \in 1..Len(cache) : j < MAX_FRAME_CACHE_SIZE => j + 1 \in 2..Len(cache')
  BY <1>3, <1>4, MissCache
<1>6. ASSUME NEW j \in 1..Len(base), j <= Len(cache)
      PROVE  \E n \in 1..(Len(base) + 1) : n <= Len(cache') /\ cache'[n] = cache[j]
  <2>1. j \in 1..Len(cache) /\ j < MAX_FRAME_CACHE_SIZE
    BY <1>1, <1>2, <1>6 DEF Resolving
  <2>2. j + 1 \in 2..Len(cache') /\ (j + 1) - 1 = j /\ j + 1 \in 1..(Len(base) + 1) /\ j + 1 <= Len(cache')
    BY <1>1, <1>5, <2>1
  <2>3. cache'[j + 1] = cache[j]
    BY <1>5, <2>2
  <2> QED
    BY <2>2, <2>3
<1>7. strings' \subseteq String /\ stringDefs' \subseteq String /\ frameDefs' \subseteq Code
  <2>1. strings' \subseteq String /\ stringDefs' \subseteq String
    BY <1>2, <1>4, Fetched
  <2> QED
    BY <1>2, <1>4, <2>1 DEF Inv, Others
<1> QED
  BY <1>2, <1>3, <1>5, <1>6, <1>7, ResolvedOK

\* Resolution fails: the stack is cut there.
LEMMA ResolveFailsOK == ASSUME Inv, ResolveFails PROVE Inv'
<1>1. /\ MAX_STACK_SIZE \in Nat /\ stack \in Seq(Pair) /\ Len(stack) <= MAX_STACK_SIZE
      /\ Len(base) \in Nat /\ Len(stack) \in Nat
  BY SettingTypes DEF Inv, Process, Stacks
<1>2. /\ UNCHANGED <<setting, mem, top, pc, cur, base, again, cache, frameDefs, emitted>>
      /\ pc = "resolve" /\ Len(base) < Len(stack) /\ faults' = faults + 1 /\ faults < MaxFaults
      /\ stack' = SubSeq(stack, 1, Len(base))
      /\ IF again THEN marks' = marks + 1 /\ UNCHANGED invalid
                  ELSE invalid' = TRUE /\ UNCHANGED marks
  BY DEF ResolveFails, Resolving, CanFail
<1>3. strings' \subseteq String /\ stringDefs' \subseteq String
  <2>1. Resolving
    BY DEF ResolveFails
  <2>2. {FileOf[Wanted], ScopeOf[Wanted]} \subseteq String
    BY <2>1, WantedTypes
  <2>3. PICK S \in {{}, {FileOf[Wanted]}, {FileOf[Wanted], ScopeOf[Wanted]}} : FetchStrings(S)
    BY DEF ResolveFails
  <2>4. S \subseteq String
    BY <2>2, <2>3
  <2> QED
    BY <2>3, <2>4, Fetched
<1>4. /\ stack' \in Seq(Pair) /\ Len(stack') = Len(base)
      /\ \A i \in 1..Len(base) : stack'[i] = stack[i]
  BY <1>1, <1>2
<1>5. Process'
  BY <1>2 DEF Inv, Process, Frame, NoCode, iframes
<1>6. Stacks' /\ Others'
  <2>1. Stacks'
    BY <1>1, <1>2, <1>4 DEF Inv, Stacks, Pair, Entry, MAX_STACK_SIZE, MAX_FRAME_CACHE_SIZE
  <2>2. invalid' \in BOOLEAN
    BY <1>2 DEF Inv, Others
  <2> QED
    BY <1>2, <1>3, <2>1, <2>2, BoundAssumption DEF Inv, Others
<1>7. Place' /\ Marks'
  BY <1>1, <1>2, <1>4 DEF Inv, Place, Marks
<1>8. Recent'
  BY <1>1, <1>2, <1>4 DEF Inv, Recent
<1> QED
  BY <1>5, <1>6, <1>7, <1>8 DEF Inv

\* All is resolved, once or twice.
LEMMA ResolveEndsOK == ASSUME Inv, ResolveEnds PROVE Inv'
<1>1. UNCHANGED <<setting, mem, top, cur, stack, invalid, cache, strings, frameDefs, stringDefs,
                  emitted, faults>>
  BY DEF ResolveEnds
<1>2. pc = "resolve" /\ Len(base) = Len(stack) /\ Len(stack) \in Nat /\ MAX_STACK_SIZE \in Nat
  BY SettingTypes DEF ResolveEnds, Inv, Stacks, Process
<1>3. Process'
  BY <1>1 DEF Inv, Process, Frame, NoCode, iframes
<1>4. CASE again
  <2>1. pc' = "emit" /\ UNCHANGED <<again, base, marks>>
    BY <1>4 DEF ResolveEnds
  <2>2. Stacks' /\ Others'
    BY <1>1, <2>1 DEF Inv, Stacks, Others, Pair, Entry, MAX_STACK_SIZE, MAX_FRAME_CACHE_SIZE
  <2>3. Place' /\ Marks' /\ Recent'
    BY <1>1, <1>2, <2>1 DEF Inv, Place, Marks, Recent
  <2> QED
    BY <1>3, <2>2, <2>3 DEF Inv
<1>5. CASE ~again
  <2>1. pc' = pc /\ again' = TRUE /\ base' = <<>> /\ marks' = IF invalid THEN marks + 1 ELSE marks
    BY <1>5 DEF ResolveEnds
  <2>2. marks = 0 /\ marks' \in {0, 1}
    BY <1>2, <1>5, <2>1 DEF Inv, Marks
  <2>3. Stacks' /\ Others'
    BY <1>1, <1>2, <2>1 DEF Inv, Stacks, Others, Pair, Entry, MAX_STACK_SIZE, MAX_FRAME_CACHE_SIZE
  <2>4. Place' /\ Marks' /\ Recent'
    BY <1>1, <1>2, <2>1, <2>2 DEF Inv, Place, Marks, Recent
  <2> QED
    BY <1>3, <2>3, <2>4 DEF Inv
<1> QED
  BY <1>4, <1>5

\* The sample is written, and over.
LEMMA EmitOK == ASSUME Inv, Emit \/ Emitted PROVE Inv'
<1>1. /\ UNCHANGED <<setting, mem, cache, strings, frameDefs, stringDefs>>
      /\ MAX_STACK_SIZE \in Nat /\ MAX_FRAME_CACHE_SIZE \in Nat
  BY SettingTypes DEF Emit, Emitted, Inv, Process
<1>2. Process'
  BY <1>1 DEF Emit, Emitted, Inv, Process, Frame, NoCode, iframes
<1>3. stack' = <<>> /\ (base' = base \/ base' = <<>>)
  BY DEF Emit, Emitted, Inv, Place
<1>4. Stacks'
  <2>1. stack' \in Seq(Pair') /\ Len(stack') = 0 /\ base' \in Seq(setting'.obj)
    <3>1. stack' \in Seq(Pair')
      BY <1>3
    <3>2. Len(stack') = 0
      BY <1>3
    <3>3. base' \in Seq(setting.obj)
      <4>1. base \in Seq(setting.obj)
        BY DEF Inv, Stacks
      <4>2. <<>> \in Seq(setting.obj)
        OBVIOUS
      <4> QED
        BY <1>3, <4>1, <4>2
    <3>4. setting'.obj = setting.obj
      BY <1>1
    <3> QED
      BY <3>1, <3>2, <3>3, <3>4
  <2>2. Len(base') <= MAX_STACK_SIZE
    BY <1>1, <1>3 DEF Inv, Stacks
  <2>3. Pair' = Pair /\ Entry' = Entry /\ MAX_STACK_SIZE' = MAX_STACK_SIZE /\ MAX_FRAME_CACHE_SIZE' = MAX_FRAME_CACHE_SIZE
    BY <1>1 DEF Pair, Entry, MAX_STACK_SIZE, MAX_FRAME_CACHE_SIZE
  <2> QED
    BY <1>1, <2>1, <2>2, <2>3 DEF Inv, Stacks
<1>5. Others'
  <2>1. CASE Emit
    BY <1>1, <2>1 DEF Emit, Inv, Others
  <2>2. CASE Emitted
    <3>1. pc' = "idle" /\ invalid' = FALSE /\ again' = FALSE /\ faults' = 0
      BY <2>2 DEF Emitted
    <3>2. invalid' \in BOOLEAN /\ again' \in BOOLEAN
      BY <3>1
    <3>3. faults' \in 0..MaxFaults
      BY <3>1, BoundAssumption
    <3> QED
      BY <1>1, <3>1, <3>2, <3>3 DEF Inv, Others
  <2> QED
    BY <2>1, <2>2
<1>6. Place' /\ Marks' /\ Recent'
  BY <1>1 DEF Emit, Emitted, Inv, Place, Marks, Recent
<1> QED
  BY <1>2, <1>4, <1>5, <1>6 DEF Inv

\* Every step keeps the invariant.
LEMMA NextInv == Inv /\ [Next]_vars => Inv'
<1> SUFFICES ASSUME Inv, [Next]_vars PROVE Inv'
  OBVIOUS
<1>1. CASE Next
  BY <1>1, BeginOK, CFrameOK, PushOK, PushFailsOK, HitOK, MissOK, ResolveFailsOK,
     ResolveEndsOK, EmitOK DEF Next
<1>2. CASE UNCHANGED vars
  BY <1>2 DEF vars, Inv, Process, Stacks, Others, Place, Marks, Recent, Pair, Entry,
              MAX_STACK_SIZE, MAX_FRAME_CACHE_SIZE, Frame, NoCode, iframes
<1> QED
  BY <1>1, <1>2

\* The invariant holds in every reachable state.
LEMMA Invariance == Spec => []Inv
BY InitInv, NextInv, PTL DEF Spec

\* The stack array is never overrun, nor are the other variables ever out of their
\* types, whatever the memory of the process holds.
THEOREM TypeCorrect == Spec => []TypeOK
<1>1. Inv => TypeOK
  <2> SUFFICES ASSUME Inv PROVE TypeOK
    OBVIOUS
  <2>1. MAX_STACK_SIZE \in Nat /\ MAX_FRAME_CACHE_SIZE \in Nat
    BY SettingTypes DEF Inv, Process
  <2>2. /\ stack \in BoundedSeq(Pair, MAX_STACK_SIZE)
        /\ base \in BoundedSeq(setting.obj, MAX_STACK_SIZE)
        /\ cache \in BoundedSeq(Entry, MAX_FRAME_CACHE_SIZE)
    BY <2>1, Bounded DEF Inv, Stacks
  <2>3. marks \in 0..3
    BY DEF Inv, Marks
  <2> QED
    BY <2>2, <2>3 DEF Inv, Process, Others, TypeOK, Pair, Entry
<1> QED
  BY <1>1, Invariance, PTL

\* No frame of the sample under way has been freed, for every size of the array.
THEOREM FramesCorrect == Spec => []FramesLive
<1>1. Inv => FramesLive
  <2> SUFFICES ASSUME Inv, pc \in {"resolve", "emit"}
               PROVE  /\ Len(base) <= Len(stack)
                      /\ \A i \in 1..Len(base) : [key |-> stack[i].code, obj |-> base[i]] \in ToSet(cache)
    BY DEF FramesLive
  <2>1. Len(base) <= Len(stack)
    BY DEF Inv, Place, Stacks
  <2>2. ASSUME NEW i \in 1..Len(base)
        PROVE  [key |-> stack[i].code, obj |-> base[i]] \in ToSet(cache)
    <3>1. PICK j \in 1..Len(base) :
            j <= Len(cache) /\ cache[j] = [key |-> stack[i].code, obj |-> base[i]]
      BY DEF Inv, Recent
    <3>2. j \in DOMAIN cache
      BY <3>1 DEF Inv, Stacks
    <3> QED
      BY <3>1, <3>2 DEF ToSet
  <2> QED
    BY <2>1, <2>2
<1> QED
  BY <1>1, Invariance, PTL

--------------------------------------------------------------------------------
(* The stream. *)

Defined ==
  /\ \A c \in frameDefs : {FileOf[c], ScopeOf[c]} \subseteq stringDefs
  /\ \A i \in 1..Len(cache) : cache[i].key \in frameDefs
  /\ strings \subseteq stringDefs
  /\ emitted \in Seq(frameDefs)

\* Strings that are fetched are defined, and definitions stay.
LEMMA FetchDefines ==
  ASSUME Defined, NEW S, FetchStrings(S)
  PROVE  S \subseteq stringDefs' /\ stringDefs \subseteq stringDefs' /\ strings' \subseteq stringDefs'
BY DEF FetchStrings, Defined

\* A frame is found in the cache, whose keys stay the same.
LEMMA HitDefines == ASSUME Inv, Defined, ResolveHit PROVE Defined'
<1>1. UNCHANGED <<strings, frameDefs, stringDefs, emitted>>
  BY DEF ResolveHit
<1>2. cache \in Seq(Entry) /\ Len(cache) \in Nat
  BY DEF Inv, Stacks
<1>3. PICK p \in 1..Len(cache) : cache' = <<cache[p]>> \o RemoveAt(cache, p)
  BY DEF ResolveHit, Cached
<1>4. /\ Len(cache') = Len(cache)
      /\ \A i \in 1..Len(cache) :
           cache'[i] = IF i = 1 THEN cache[p] ELSE IF i <= p THEN cache[i - 1] ELSE cache[i]
  BY <1>3, HitCache
<1>5. \A i \in 1..Len(cache') : \E j \in 1..Len(cache) : cache'[i] = cache[j]
  BY <1>2, <1>4
<1> QED
  BY <1>1, <1>5 DEF Defined

\* A frame is resolved and defined, after its strings.
LEMMA MissDefines == ASSUME Inv, Defined, ResolveMiss PROVE Defined'
<1>1. /\ frameDefs' = frameDefs \cup {Wanted} /\ emitted' = emitted
      /\ FetchStrings({FileOf[Wanted], ScopeOf[Wanted]}) /\ pc = "resolve" /\ Resolving
  BY DEF ResolveMiss, Resolving
<1>2. /\ {FileOf[Wanted], ScopeOf[Wanted]} \subseteq stringDefs' /\ stringDefs \subseteq stringDefs'
      /\ strings' \subseteq stringDefs'
  BY <1>1, FetchDefines
<1>3. \A c \in frameDefs' : {FileOf[c], ScopeOf[c]} \subseteq stringDefs'
  BY <1>1, <1>2 DEF Defined
<1>4. emitted' \in Seq(frameDefs')
  BY <1>1 DEF Inv, Place
<1>5. \A i \in 1..Len(cache') : cache'[i].key \in frameDefs'
  <2>1. cache \in Seq(Entry) /\ Len(cache) \in Nat /\ MAX_FRAME_CACHE_SIZE \in Nat \ {0}
    BY SettingTypes DEF Inv, Stacks, Process
  <2>2. PICK obj \in setting.obj : StoreFrame(Wanted, obj)
    BY DEF ResolveMiss
  <2>3. /\ Len(cache') \in Nat /\ cache'[1] = [key |-> Wanted, obj |-> obj]
        /\ \A i \in 2..Len(cache') : i - 1 \in 1..Len(cache) /\ cache'[i] = cache[i - 1]
    BY <1>1, <2>2, WantedTypes, MissCache
  <2>4. ASSUME NEW i \in 1..Len(cache') PROVE cache'[i].key \in frameDefs'
    <3>1. CASE i = 1
      BY <3>1, <2>3, <1>1
    <3>2. CASE i # 1
      <4>1. i \in 2..Len(cache')
        BY <3>2, <2>3
      <4> QED
        BY <4>1, <2>3, <1>1 DEF Defined
    <3> QED
      BY <3>1, <3>2
  <2> QED
    BY <2>4
<1> QED
  BY <1>2, <1>3, <1>4, <1>5 DEF Defined

\* A sample is written: the frames of the stack are in the cache, and so defined.
LEMMA EmitDefines == ASSUME Inv, Defined, Emit PROVE Defined'
<1>1. /\ pc = "emit" /\ UNCHANGED <<cache, strings, frameDefs, stringDefs>>
      /\ emitted' = [i \in 1..Len(stack) |-> KeyOf(base[Len(stack) - i + 1])]
  BY DEF Emit
<1>2. Len(stack) \in Nat /\ Len(base) = Len(stack) /\ cache \in Seq(Entry)
  BY <1>1 DEF Inv, Stacks, Place
<1>3. ASSUME NEW n \in 1..Len(base) PROVE KeyOf(base[n]) \in frameDefs
  <2>1. PICK j \in 1..Len(base) :
          j <= Len(cache) /\ cache[j] = [key |-> stack[n].code, obj |-> base[n]]
    BY <1>1 DEF Inv, Recent
  <2>2. j \in 1..Len(cache) /\ cache[j].obj = base[n] /\ cache[j] \in ToSet(cache)
    BY <1>2, <2>1 DEF ToSet
  <2> DEFINE x == CHOOSE y \in ToSet(cache) : y.obj = base[n]
  <2>3. x \in ToSet(cache)
    BY <2>2
  <2>4. PICK m \in 1..Len(cache) : x = cache[m]
    BY <1>2, <2>3 DEF ToSet
  <2>5. KeyOf(base[n]) = x.key
    BY <2>2 DEF KeyOf
  <2> QED
    BY <2>4, <2>5 DEF Defined
<1>4. ASSUME NEW i \in 1..Len(stack) PROVE KeyOf(base[Len(stack) - i + 1]) \in frameDefs
  BY <1>2, <1>3
<1>5. emitted' \in [1..Len(stack) -> frameDefs]
  BY <1>1, <1>4
<1>6. emitted' \in Seq(frameDefs)
  BY <1>2, <1>5
<1> QED
  BY <1>1, <1>6 DEF Defined

\* The stream defines what it refers to, whatever reads fail and whenever a sample
\* is cut short, for every size of the array.
THEOREM DefinitionsCorrect == Spec => []DefinedBeforeUse
<1>1. Init => Defined
  BY DEF Init, Defined
<1>2. Inv /\ Defined /\ [Next]_vars => Defined'
  <2> SUFFICES ASSUME Inv, Defined, [Next]_vars PROVE Defined'
    OBVIOUS
  <2>1. CASE ResolveFails
    <3>1. UNCHANGED <<cache, frameDefs, emitted>>
      BY <2>1 DEF ResolveFails
    <3>2. stringDefs \subseteq stringDefs' /\ strings' \subseteq stringDefs'
      BY <2>1, FetchDefines DEF ResolveFails
    <3> QED
      BY <3>1, <3>2 DEF Defined
  <2>2. CASE Emitted
    BY <2>2 DEF Emitted, Defined
  <2>3. CASE /\ UNCHANGED <<cache, strings, frameDefs, stringDefs, emitted>>
    BY <2>3 DEF Defined
  <2>4. ASSUME NEW t \in Addr \cup {NULL}, Exclude(t) \/ Start(t)
        PROVE  UNCHANGED <<cache, strings, frameDefs, stringDefs, emitted>>
    BY <2>4 DEF Exclude, Start
  <2>5. CASE \/ Excluded \/ ReadCFrame \/ ReadCFrameFails \/ Push \/ PushFails \/ ResolveEnds
             \/ UNCHANGED vars
    BY <2>3, <2>5 DEF Excluded, ReadCFrame, ReadCFrameFails, Push, PushFails, ResolveEnds, vars
  <2> QED
    BY <2>1, <2>2, <2>3, <2>4, <2>5, HitDefines, MissDefines, EmitDefines DEF Next
<1>3. Inv /\ Defined => DefinedBeforeUse
  <2> SUFFICES ASSUME Inv, Defined PROVE DefinedBeforeUse
    OBVIOUS
  <2>1. \A i \in 1..Len(emitted) : emitted[i] \in frameDefs
    BY DEF Defined
  <2>2. \A e \in ToSet(cache) : e.key \in frameDefs
    BY DEF ToSet, Inv, Stacks, Defined
  <2> QED
    BY <2>1, <2>2 DEF Defined, DefinedBeforeUse
<1> QED
  BY <1>1, <1>2, <1>3, Invariance, PTL DEF Spec

--------------------------------------------------------------------------------
(* The frames of a process that stands still. *)

\* A set of naturals that is not empty has a least element.
LEMMA Least == ASSUME NEW S \in SUBSET Nat, S # {} PROVE \E m \in S : \A n \in S : m <= n
<1> DEFINE R == {ss \in Nat \X Nat : ss[1] < ss[2]}
<1>1. IsWellFoundedOn(R, Nat)
  BY NatLessThanWellFounded DEF OpToRel
<1>2. \A n, m \in Nat : n < m => <<n, m>> \in R
  OBVIOUS
<1> HIDE DEF R
<1>3. \E m \in S : \A n \in S : ~(<<n, m>> \in R)
  BY <1>1, WFMin
<1>4. PICK m \in S : \A n \in S : ~(<<n, m>> \in R)
  BY <1>3
<1>5. \A n \in S : ~(n < m)
  BY <1>2, <1>4
<1> QED
  BY <1>5

\* The walk has a number of steps.
LEMMA StepsType == Cardinality(Addr) \in Nat /\ Steps \in Nat /\ Steps = 2 * Cardinality(Addr) + 1
BY AddressAssumption, FS_CardinalityType DEF Steps

\* Walk is what its definition says: there is such a function on every interval, or
\* there would be a shortest one without.
LEMMA WalkDefined ==
  Walk = [n \in 1..Steps |-> IF n = 1 THEN top
                             ELSE IF Walk[n - 1] = NULL THEN NULL ELSE mem[Walk[n - 1]].back]
<1> DEFINE Is(k, g) == g = [n \in 1..k |-> IF n = 1 THEN top
                                           ELSE IF g[n - 1] = NULL THEN NULL ELSE mem[g[n - 1]].back]
           Short == {k \in Nat : ~\E g : Is(k, g)}
<1> HIDE DEF Is
<1>1. Short = {}
  <2> SUFFICES ASSUME Short # {} PROVE FALSE
    OBVIOUS
  <2>1. PICK m \in Short : \A n \in Short : m <= n
    BY Least
  <2>2. m \in Nat /\ m # 0
    <3>1. Is(0, [n \in 1..0 |-> top])
      BY DEF Is
    <3> QED
      BY <2>1, <3>1
  <2>3. m - 1 \in Nat /\ m - 1 \notin Short
    <3> HIDE DEF Short
    <3> QED
      BY <2>1, <2>2
  <2>4. PICK g : Is(m - 1, g)
    BY <2>3
  <2> DEFINE h == [n \in 1..m |-> IF n < m THEN g[n] ELSE IF n = 1 THEN top
                                  ELSE IF g[n - 1] = NULL THEN NULL ELSE mem[g[n - 1]].back]
  <2> HIDE DEF Short
  <2>5. \A n \in 1..m : n # 1 => h[n - 1] = g[n - 1]
    BY <2>2
  <2>6. \A n \in 1..m : h[n] = IF n = 1 THEN top
                               ELSE IF g[n - 1] = NULL THEN NULL ELSE mem[g[n - 1]].back
    BY <2>2, <2>4 DEF Is
  <2>7. Is(m, h)
    <3>1. h = [n \in 1..m |-> h[n]]
      OBVIOUS
    <3> HIDE DEF h
    <3>2. \A n \in 1..m : h[n] = IF n = 1 THEN top
                               ELSE IF h[n - 1] = NULL THEN NULL ELSE mem[h[n - 1]].back
      BY <2>5, <2>6
    <3> QED
      BY <3>1, <3>2 DEF Is
  <2> QED
    BY <2>1, <2>7 DEF Short
<1>2. \E g : Is(Steps, g)
  BY <1>1, StepsType
<1> QED
  BY <1>2 DEF Walk, Is

\* The same for the frames it meets.
LEMMA MetDefined ==
  Met = [n \in 0..Steps |-> IF n = 0 THEN <<>>
                            ELSE IF Walk[n] # NULL /\ ~mem[Walk[n]].shim THEN Append(Met[n - 1], Walk[n])
                            ELSE Met[n - 1]]
<1> DEFINE Is(k, g) == g = [n \in 0..k |-> IF n = 0 THEN <<>>
                                           ELSE IF Walk[n] # NULL /\ ~mem[Walk[n]].shim
                                             THEN Append(g[n - 1], Walk[n])
                                           ELSE g[n - 1]]
           Short == {k \in Nat : ~\E g : Is(k, g)}
<1> HIDE DEF Is
<1>1. Short = {}
  <2> SUFFICES ASSUME Short # {} PROVE FALSE
    OBVIOUS
  <2>1. PICK m \in Short : \A n \in Short : m <= n
    BY Least
  <2>2. m \in Nat /\ m # 0
    <3>1. Is(0, [n \in 0..0 |-> <<>>])
      BY DEF Is
    <3> QED
      BY <2>1, <3>1
  <2>3. m - 1 \in Nat /\ m - 1 \notin Short
    <3> HIDE DEF Short
    <3> QED
      BY <2>1, <2>2
  <2>4. PICK g : Is(m - 1, g)
    BY <2>3
  <2> DEFINE More(n, s) == IF Walk[n] # NULL /\ ~mem[Walk[n]].shim THEN Append(s, Walk[n]) ELSE s
             h == [n \in 0..m |-> IF n < m THEN g[n] ELSE More(n, g[n - 1])]
  <2> HIDE DEF Short
  <2>5. \A n \in 0..m : n # 0 => h[n - 1] = g[n - 1]
    BY <2>2
  <2>6. \A n \in 0..m : h[n] = IF n = 0 THEN <<>> ELSE More(n, g[n - 1])
    <3>1. \A n \in 0..(m - 1) : g[n] = IF n = 0 THEN <<>> ELSE More(n, g[n - 1])
      BY <2>4 DEF Is
    <3> HIDE DEF More
    <3> QED
      BY <2>2, <3>1
  <2>7. Is(m, h)
    <3>1. h = [n \in 0..m |-> h[n]]
      OBVIOUS
    <3> HIDE DEF h
    <3>2. \A n \in 0..m : h[n] = IF n = 0 THEN <<>> ELSE More(n, h[n - 1])
      BY <2>5, <2>6
    <3> QED
      BY <3>1, <3>2 DEF Is
  <2> QED
    BY <2>1, <2>7 DEF Short
<1>2. \E g : Is(Steps, g)
  BY <1>1, StepsType
<1> QED
  BY <1>2 DEF Met, Is

\* The addresses that are met, one after the other.
LEMMA WalkAt ==
  ASSUME Process
  PROVE  /\ Walk[1] = top
         /\ \A n \in 1..Steps : Walk[n] \in Addr \cup {NULL}
         /\ \A n \in 1..(Steps - 1) :
              Walk[n + 1] = IF Walk[n] = NULL THEN NULL ELSE mem[Walk[n]].back
<1>1. 1 \in 1..Steps /\ Steps \in Nat
  BY StepsType
<1>2. \A n \in 1..Steps : Walk[n] = IF n = 1 THEN top
                                    ELSE IF Walk[n - 1] = NULL THEN NULL ELSE mem[Walk[n - 1]].back
  BY WalkDefined
<1> DEFINE Bad == {n \in 1..Steps : Walk[n] \notin Addr \cup {NULL}}
<1>3. Bad = {}
  <2> SUFFICES ASSUME Bad # {} PROVE FALSE
    OBVIOUS
  <2>1. Bad \in SUBSET Nat
    OBVIOUS
  <2>2. PICK m \in Bad : \A n \in Bad : m <= n
    BY <2>1, Least
  <2>3. m \in 1..Steps /\ Walk[m] \notin Addr \cup {NULL}
    BY <2>2
  <2>4. Walk[m - 1] \in Addr \cup {NULL} /\ m # 1
    <3>1. m # 1
      BY <2>3, <1>2 DEF Process
    <3>2. m - 1 \in 1..Steps /\ ~(m <= m - 1)
      BY <2>3, <3>1, <1>1
    <3> QED
      BY <3>1, <3>2, <2>2
  <2>5. Walk[m - 1] # NULL => mem[Walk[m - 1]] \in Frame
    BY <2>4 DEF Process
  <2>6. Walk[m] \in Addr \cup {NULL}
    BY <2>3, <2>4, <2>5, <1>2 DEF Frame
  <2> QED
    BY <2>2, <2>6
<1>4. ASSUME NEW n \in 1..(Steps - 1)
      PROVE  Walk[n + 1] = IF Walk[n] = NULL THEN NULL ELSE mem[Walk[n]].back
  <2>1. n + 1 \in 1..Steps /\ n + 1 # 1 /\ (n + 1) - 1 = n
    BY <1>1
  <2> QED
    BY <2>1, <1>2
<1> QED
  BY <1>1, <1>2, <1>3, <1>4

\* The frames among them, one after the other.
LEMMA MetAt ==
  ASSUME Process
  PROVE  /\ Met[0] = <<>>
         /\ \A n \in 0..Steps : Met[n] \in Seq(Addr)
         /\ \A n \in 1..Steps :
              Met[n] = IF Walk[n] # NULL /\ ~mem[Walk[n]].shim THEN Append(Met[n - 1], Walk[n])
                       ELSE Met[n - 1]
<1>1. Steps \in Nat
  BY StepsType
<1>2. \A n \in 0..Steps : Met[n] = IF n = 0 THEN <<>>
                                   ELSE IF Walk[n] # NULL /\ ~mem[Walk[n]].shim
                                     THEN Append(Met[n - 1], Walk[n])
                                   ELSE Met[n - 1]
  BY MetDefined
<1> DEFINE Bad == {n \in 0..Steps : Met[n] \notin Seq(Addr)}
<1>3. Bad = {}
  <2> SUFFICES ASSUME Bad # {} PROVE FALSE
    OBVIOUS
  <2>1. Bad \in SUBSET Nat
    OBVIOUS
  <2>2. PICK m \in Bad : \A n \in Bad : m <= n
    BY <2>1, Least
  <2>3. m \in 0..Steps /\ Met[m] \notin Seq(Addr)
    BY <2>2
  <2>4. m # 0
    <3>1. 0 \in 0..Steps
      BY <1>1
    <3>2. Met[0] = <<>>
      BY <3>1, <1>2, Zenon
    <3>3. <<>> \in Seq(Addr)
      OBVIOUS
    <3> QED
      BY <2>3, <3>2, <3>3
  <2>5. m - 1 \in 0..Steps /\ ~(m <= m - 1) /\ m \in 1..Steps
    BY <2>3, <2>4, <1>1
  <2>6. Met[m - 1] \in Seq(Addr) /\ Walk[m] \in Addr \cup {NULL}
    BY <2>2, <2>5, WalkAt
  <2>7. Met[m] = IF Walk[m] # NULL /\ ~mem[Walk[m]].shim THEN Append(Met[m - 1], Walk[m]) ELSE Met[m - 1]
    BY <2>3, <2>4, <1>2
  <2> QED
    BY <2>3, <2>6, <2>7
<1>4. 0 \in 0..Steps /\ \A n \in 1..Steps : n \in 0..Steps /\ n # 0
  BY <1>1
<1> QED
  BY <1>2, <1>3, <1>4

\* Nothing follows the end.
LEMMA NullStays ==
  ASSUME Process, NEW n \in 1..Steps, Walk[n] = NULL, NEW k \in n..Steps
  PROVE  Walk[k] = NULL
<1>1. Steps \in Nat
  BY StepsType
<1> DEFINE Bad == {m \in n..Steps : Walk[m] # NULL}
<1> SUFFICES ASSUME Bad # {} PROVE FALSE
  OBVIOUS
<1>2. Bad \in SUBSET Nat
  OBVIOUS
<1>3. PICK m \in Bad : \A i \in Bad : m <= i
  BY <1>2, Least
<1>4. m - 1 \in n..Steps /\ m - 1 \notin Bad /\ m - 1 \in 1..(Steps - 1) /\ (m - 1) + 1 = m
  BY <1>1, <1>3
<1>5. Walk[m - 1] = NULL
  BY <1>4
<1>6. Walk[m] = NULL
  BY <1>4, <1>5, WalkAt
<1> QED
  BY <1>3, <1>6

\* What is met twice recurs.
LEMMA Recurs ==
  ASSUME Process, NEW i \in 1..Steps, NEW p \in Nat, i + p <= Steps, Walk[i + p] = Walk[i],
         NEW k \in i..(Steps - p)
  PROVE  Walk[k + p] = Walk[k]
<1>1. Steps \in Nat
  BY StepsType
<1> DEFINE Bad == {m \in i..(Steps - p) : Walk[m + p] # Walk[m]}
<1> SUFFICES ASSUME Bad # {} PROVE FALSE
  OBVIOUS
<1>2. Bad \in SUBSET Nat
  OBVIOUS
<1>3. PICK m \in Bad : \A j \in Bad : m <= j
  BY <1>2, Least
<1>4. /\ m - 1 \in i..(Steps - p) /\ m - 1 \notin Bad
      /\ m - 1 \in 1..(Steps - 1) /\ (m - 1) + 1 = m
      /\ (m - 1) + p \in 1..(Steps - 1) /\ ((m - 1) + p) + 1 = m + p
  BY <1>1, <1>3
<1>5. Walk[(m - 1) + p] = Walk[m - 1]
  BY <1>4
<1>6. Walk[m] = IF Walk[m - 1] = NULL THEN NULL ELSE mem[Walk[m - 1]].back
  BY <1>4, WalkAt
<1>7. Walk[m + p] = IF Walk[(m - 1) + p] = NULL THEN NULL ELSE mem[Walk[(m - 1) + p]].back
  BY <1>4, WalkAt
<1> QED
  BY <1>3, <1>5, <1>6, <1>7

\* A chain in which an address recurs does not end.
LEMMA Endless ==
  ASSUME Process, NEW i \in 1..Steps, NEW p \in Nat \ {0}, i + p <= Steps,
         Walk[i + p] = Walk[i], Walk[i] # NULL
  PROVE  ~Finite
<1>1. Steps \in Nat /\ Steps \in 1..Steps
  BY StepsType
<1> DEFINE Ends == {m \in 1..Steps : Walk[m] = NULL}
<1> SUFFICES ASSUME Ends # {} PROVE FALSE
  BY <1>1 DEF Finite
<1>2. Ends \in SUBSET Nat
  OBVIOUS
<1>3. PICK m \in Ends : \A j \in Ends : m <= j
  BY <1>2, Least
<1>4. ~(m <= i + p)
  BY <1>3, NullStays
<1>5. m - p \in i..(Steps - p) /\ (m - p) + p = m /\ m - p \in 1..Steps /\ m - p < m
  BY <1>1, <1>3, <1>4
<1>6. Walk[m - p] = NULL
  BY <1>3, <1>5, Recurs
<1> QED
  BY <1>3, <1>5, <1>6

\* A chain that does not end has gone into its cycle when as many addresses have been
\* met as there are, and once more round it after that.
LEMMA Cycle ==
  ASSUME Process, Walk[Steps] # NULL
  PROVE  \E p \in 1..Cardinality(Addr) :
           /\ \A m \in (Cardinality(Addr) + 1)..Steps : Walk[m] = Walk[m - p]
           /\ mem[Walk[Steps]].back = Walk[Steps + 1 - p]
<1> DEFINE N == Cardinality(Addr)
           T == 1..(N + 1)
           w == [n \in T |-> Walk[n]]
<1>1. N \in Nat /\ Steps = 2 * N + 1 /\ Steps \in Nat
  BY StepsType
<1> HIDE DEF N
<1>2. \A n \in 1..Steps : Walk[n] \in Addr
  <2>1. \A n \in 1..Steps : Walk[n] # NULL
    BY <1>1, NullStays
  <2> QED
    BY <2>1, WalkAt
<1>3. w \in [T -> Addr]
  BY <1>1, <1>2
<1>4. IsFiniteSet(T) /\ Cardinality(T) = N + 1
  BY <1>1, FS_Interval
<1>5. IsFiniteSet(Addr) /\ Cardinality(Addr) < Cardinality(T)
  BY <1>1, <1>4, AddressAssumption DEF N
<1>6. \E x, y \in T : x # y /\ w[x] = w[y]
  <2> HIDE DEF w, T
  <2> QED
    BY <1>3, <1>4, <1>5, FS_PigeonHole
<1>7. \E x, y \in T : x < y /\ Walk[x] = Walk[y]
  BY <1>6, <1>1
<1>8. PICK x \in T, y \in T : x < y /\ Walk[x] = Walk[y]
  BY <1>7
<1> DEFINE p == y - x
<1>9. p \in 1..N /\ x \in 1..Steps /\ p \in Nat /\ x + p <= Steps /\ x + p = y
  BY <1>1, <1>8
<1>10. ASSUME NEW m \in (N + 1)..Steps PROVE Walk[m] = Walk[m - p]
  <2>1. m - p \in x..(Steps - p) /\ (m - p) + p = m
    BY <1>1, <1>8, <1>9
  <2> HIDE DEF p
  <2>2. Walk[(m - p) + p] = Walk[m - p]
    BY <1>8, <1>9, <2>1, Recurs
  <2> QED
    BY <2>1, <2>2
<1>11. mem[Walk[Steps]].back = Walk[Steps + 1 - p]
  <2>1. /\ Steps \in (N + 1)..Steps /\ Steps - p \in 1..(Steps - 1)
        /\ (Steps - p) + 1 = Steps + 1 - p
    BY <1>1, <1>9
  <2>2. Walk[Steps] = Walk[Steps - p] /\ Walk[Steps - p] # NULL
    BY <1>10, <2>1
  <2> QED
    BY <2>1, <2>2, WalkAt
<1> QED
  BY <1>9, <1>10, <1>11 DEF N

\* Of the frames found early none is lost.
LEMMA MetGrows ==
  ASSUME Process, NEW n \in 0..Steps, NEW k \in n..Steps
  PROVE  Len(Met[n]) <= Len(Met[k]) /\ \A i \in 1..Len(Met[n]) : Met[k][i] = Met[n][i]
<1>1. Steps \in Nat
  BY StepsType
<1> DEFINE Holds(m) == Len(Met[n]) <= Len(Met[m]) /\ \A i \in 1..Len(Met[n]) : Met[m][i] = Met[n][i]
           Bad == {m \in n..Steps : ~Holds(m)}
<1> SUFFICES ASSUME Bad # {} PROVE FALSE
  OBVIOUS
<1>2. PICK m \in Bad : \A j \in Bad : m <= j
  <2>1. Bad \in SUBSET Nat
    OBVIOUS
  <2> QED
    BY <2>1, Least
<1>3. m \in n..Steps /\ ~Holds(m)
  BY <1>2
<1>4. Met[n] \in Seq(Addr)
  BY MetAt
<1>5. m # n
  BY <1>3, <1>4
<1>6. m - 1 \in n..Steps /\ ~(m <= m - 1) /\ m \in 1..Steps /\ m - 1 \in 0..Steps
  BY <1>1, <1>3, <1>5
<1>7. Holds(m - 1)
  BY <1>2, <1>6
<1>8. /\ Met[m - 1] \in Seq(Addr)
      /\ Met[m] = Append(Met[m - 1], Walk[m]) \/ Met[m] = Met[m - 1]
  BY <1>6, MetAt
<1>9. /\ Len(Met[m - 1]) \in Nat /\ Len(Met[n]) \in Nat /\ Len(Met[m]) \in Nat
      /\ Len(Met[m - 1]) <= Len(Met[m])
      /\ \A i \in 1..Len(Met[m - 1]) : Met[m][i] = Met[m - 1][i]
  <2>1. CASE Met[m] = Met[m - 1]
    BY <2>1, <1>4, <1>8
  <2>2. CASE Met[m] # Met[m - 1]
    <3> DEFINE found == Met[m - 1]
               last == Walk[m]
    <3>1. last \in Addr /\ Met[m] = Append(found, last) /\ found \in Seq(Addr)
      BY <2>2, <1>6, MetAt, WalkAt
    <3> HIDE DEF found, last
    <3>2. Len(Met[m]) = Len(found) + 1 /\ \A i \in 1..Len(found) : Met[m][i] = found[i]
      BY <3>1
    <3> QED
      BY <3>1, <3>2, <1>4 DEF found
  <2> QED
    BY <2>1, <2>2
<1>10. Holds(m)
  <2> DEFINE a == Met[n]
             b == Met[m - 1]
             c == Met[m]
  <2>1. /\ Len(a) \in Nat /\ Len(b) \in Nat /\ Len(c) \in Nat /\ Len(b) <= Len(c)
        /\ \A i \in 1..Len(b) : c[i] = b[i]
    BY <1>9
  <2>2. Len(a) <= Len(b) /\ \A i \in 1..Len(a) : b[i] = a[i]
    BY <1>7
  <2> HIDE DEF a, b, c
  <2>3. Len(a) <= Len(c) /\ \A i \in 1..Len(a) : i \in 1..Len(b)
    BY <2>1, <2>2
  <2>4. Len(a) <= Len(c) /\ \A i \in 1..Len(a) : c[i] = a[i]
    BY <2>1, <2>2, <2>3
  <2> QED
    BY <2>4 DEF a, c
<1> QED
  BY <1>3, <1>10

\* A frame is found at a step of its own.
LEMMA MetFrom ==
  ASSUME Process, NEW n \in 0..Steps, NEW i \in 1..Len(Met[n])
  PROVE  \E m \in 1..n : Walk[m] = Met[n][i] /\ Len(Met[m]) = i
<1>1. Steps \in Nat
  BY StepsType
<1> DEFINE Late == {m \in 0..n : i <= Len(Met[m])}
<1>2. n \in Late /\ Late \in SUBSET Nat
  BY <1>1, MetAt
<1>3. PICK m \in Late : \A j \in Late : m <= j
  BY <1>2, Least
<1>4. m \in 0..n /\ i <= Len(Met[m])
  BY <1>3
<1>5. m # 0
  <2>1. Len(Met[0]) = 0
    BY MetAt
  <2> QED
    BY <1>4, <2>1
<1>6. m - 1 \in 0..n /\ ~(m <= m - 1) /\ m \in 1..n /\ m \in 1..Steps /\ m - 1 \in 0..Steps /\ n \in m..Steps
  BY <1>1, <1>4, <1>5
<1>7. ~(i <= Len(Met[m - 1]))
  BY <1>3, <1>6
<1>8. /\ Met[m - 1] \in Seq(Addr) /\ Walk[m] \in Addr \cup {NULL}
      /\ Met[m] = IF Walk[m] # NULL /\ ~mem[Walk[m]].shim THEN Append(Met[m - 1], Walk[m]) ELSE Met[m - 1]
  BY <1>6, MetAt, WalkAt
<1>9. Walk[m] \in Addr /\ Met[m] = Append(Met[m - 1], Walk[m])
  BY <1>4, <1>7, <1>8
<1>10. Len(Met[m]) = i /\ Met[m][i] = Walk[m]
  BY <1>4, <1>7, <1>8, <1>9
<1>11. Met[n][i] = Met[m][i]
  BY <1>4, <1>6, <1>10, MetGrows
<1> QED
  BY <1>6, <1>10, <1>11

\* A frame that is found twice is on a chain that does not end.
LEMMA TwiceEndless ==
  ASSUME Process, NEW n \in 0..Steps, NEW i \in 1..Len(Met[n]), NEW j \in 1..Len(Met[n]),
         i # j, Met[n][i] = Met[n][j]
  PROVE  ~Finite
<1>1. Steps \in Nat /\ Met[n] \in Seq(Addr)
  BY StepsType, MetAt
<1>2. PICK a \in 1..n : Walk[a] = Met[n][i] /\ Len(Met[a]) = i
  BY MetFrom
<1>3. PICK b \in 1..n : Walk[b] = Met[n][j] /\ Len(Met[b]) = j
  BY MetFrom
<1>4. Walk[a] = Walk[b] /\ Walk[a] # NULL /\ a # b
  BY <1>1, <1>2, <1>3, AddressAssumption
<1>5. CASE a < b
  <2>1. b - a \in Nat \ {0} /\ a + (b - a) = b /\ a + (b - a) <= Steps /\ a \in 1..Steps
    BY <1>1, <1>5
  <2> QED
    BY <1>4, <2>1, Endless
<1>6. CASE b < a
  <2>1. a - b \in Nat \ {0} /\ b + (a - b) = a /\ b + (a - b) <= Steps /\ b \in 1..Steps
    BY <1>1, <1>6
  <2> QED
    BY <1>4, <2>1, Endless
<1> QED
  BY <1>4, <1>5, <1>6

\* Where there is no further frame, no more are found.
LEMMA Quiet ==
  ASSUME Process, NEW n \in 0..Steps,
         \A m \in (n + 1)..Steps : Walk[m] = NULL \/ mem[Walk[m]].shim
  PROVE  Met[Steps] = Met[n]
<1>1. Steps \in Nat /\ Steps \in n..Steps
  BY StepsType
<1> DEFINE Bad == {m \in n..Steps : Met[m] # Met[n]}
<1> SUFFICES ASSUME Bad # {} PROVE FALSE
  BY <1>1
<1>2. PICK m \in Bad : \A j \in Bad : m <= j
  <2>1. Bad \in SUBSET Nat
    OBVIOUS
  <2> QED
    BY <2>1, Least
<1>3. m \in n..Steps /\ Met[m] # Met[n] /\ m # n
  BY <1>2
<1>4. m - 1 \in n..Steps /\ ~(m <= m - 1) /\ m \in 1..Steps /\ m \in (n + 1)..Steps
  BY <1>1, <1>3
<1>5. Met[m - 1] = Met[n]
  BY <1>2, <1>4
<1>6. Met[m] = Met[m - 1]
  BY <1>4, MetAt
<1> QED
  BY <1>3, <1>5, <1>6

\* The last frame of a chain that ends.
LEMMA LastFrame ==
  ASSUME Process, NEW n \in 1..Steps, Walk[n] # NULL, mem[Walk[n]].back = NULL
  PROVE  Finite /\ Met[Steps] = Met[n]
<1>1. Steps \in Nat
  BY StepsType
<1>2. n < Steps
  <2> SUFFICES ASSUME n = Steps PROVE FALSE
    BY <1>1
  <2>1. PICK p \in 1..Cardinality(Addr) : mem[Walk[Steps]].back = Walk[Steps + 1 - p]
    BY Cycle
  <2>2. Steps + 1 - p \in 1..Steps /\ Steps \in (Steps + 1 - p)..Steps
    BY StepsType
  <2>3. Walk[Steps] = NULL
    BY <2>1, <2>2, NullStays
  <2> QED
    BY <2>3
<1>3. n + 1 \in 1..Steps /\ n \in 1..(Steps - 1) /\ Steps \in (n + 1)..Steps /\ n \in 0..Steps
  BY <1>1, <1>2
<1>4. Walk[n + 1] = NULL
  BY <1>3, WalkAt
<1>5. \A m \in (n + 1)..Steps : Walk[m] = NULL
  BY <1>3, <1>4, NullStays
<1> QED
  BY <1>3, <1>5, Quiet DEF Finite

\* A chain that does not end where the stack holds no frame twice: the next address is
\* met within the steps, in a cycle of shims when they are over.
LEMMA Onward ==
  ASSUME Process, NEW n \in 1..Steps, Walk[n] # NULL, mem[Walk[n]].back # NULL,
         \A i, j \in 1..Len(Met[n]) : Met[n][i] = Met[n][j] => i = j
  PROVE  \E k \in 1..Steps : Walk[k] = mem[Walk[n]].back /\ Met[k - 1] = Met[n]
<1>1. Steps \in Nat
  BY StepsType
<1>2. CASE n < Steps
  <2>1. n + 1 \in 1..Steps /\ n \in 1..(Steps - 1) /\ (n + 1) - 1 = n
    BY <1>1, <1>2
  <2>2. Walk[n + 1] = mem[Walk[n]].back
    BY <2>1, WalkAt
  <2> QED
    BY <2>1, <2>2
<1>3. CASE n = Steps
  <2> DEFINE N == Cardinality(Addr)
  <2>1. N \in Nat /\ Steps = 2 * N + 1
    BY StepsType
  <2>2. PICK p \in 1..N :
          /\ \A m \in (N + 1)..Steps : Walk[m] = Walk[m - p]
          /\ mem[Walk[Steps]].back = Walk[Steps + 1 - p]
    BY <1>3, Cycle
  <2> HIDE DEF N
  <2> DEFINE k == Steps + 1 - p
  <2>3. k \in 1..Steps /\ k - 1 \in 0..Steps /\ (k - 1) + 1 = k /\ N + 1 <= k
    BY <2>1
  <2>4. ASSUME NEW m \in k..Steps PROVE Walk[m] = NULL \/ mem[Walk[m]].shim
    <3> SUFFICES ASSUME Walk[m] # NULL, ~mem[Walk[m]].shim PROVE FALSE
      OBVIOUS
    <3>1. /\ m \in (N + 1)..Steps /\ m - p \in 1..Steps /\ m \in 1..Steps /\ m - 1 \in 0..Steps
          /\ m - 1 \in (m - p)..Steps /\ Steps \in m..Steps /\ Steps \in (m - p)..Steps
          /\ m - p \in 0..Steps /\ m \in 0..Steps /\ (m - p) - 1 \in 0..Steps
      BY <2>1, <2>3
    <3>2. Walk[m - p] = Walk[m]
      BY <2>2, <3>1
    <3>3. /\ Met[m] = Append(Met[m - 1], Walk[m]) /\ Met[m - 1] \in Seq(Addr)
          /\ Met[m - p] = Append(Met[(m - p) - 1], Walk[m]) /\ Met[(m - p) - 1] \in Seq(Addr)
          /\ Walk[m] \in Addr
      <4>1. Walk[m] \in Addr /\ Met[m] = Append(Met[m - 1], Walk[m]) /\ Met[m - 1] \in Seq(Addr)
        BY <3>1, MetAt, WalkAt
      <4>2. PICK q \in 1..Steps : q = m - p
        BY <3>1
      <4>3. Met[q] = Append(Met[q - 1], Walk[q]) /\ Met[q - 1] \in Seq(Addr)
        BY <3>1, <3>2, <4>2, MetAt
      <4> QED
        BY <3>2, <4>1, <4>2, <4>3
    <3> DEFINE i == Len(Met[m - p])
               j == Len(Met[m])
    <3>4. /\ i \in 1..Len(Met[m - p]) /\ Met[m - p][i] = Walk[m]
          /\ j \in 1..Len(Met[m]) /\ Met[m][j] = Walk[m] /\ j = Len(Met[m - 1]) + 1
      BY <3>3
    <3>5. i <= Len(Met[m - 1])
      BY <3>1, MetGrows
    <3>6. Met[Steps][i] = Walk[m] /\ Met[Steps][j] = Walk[m] /\ j <= Len(Met[Steps]) /\ i <= Len(Met[Steps])
      BY <3>1, <3>4, MetGrows
    <3>7. i \in 1..Len(Met[n]) /\ j \in 1..Len(Met[n]) /\ i # j /\ Met[n][i] = Met[n][j]
      <4>1. Len(Met[Steps]) \in Nat /\ Len(Met[m - 1]) \in Nat
        <5>1. \A x \in 0..Steps : Met[x] \in Seq(Addr)
          BY MetAt, Zenon
        <5>2. Steps \in 0..Steps
          BY <1>1
        <5>3. Met[Steps] \in Seq(Addr)
          BY <5>1, <5>2
        <5>4. \A x \in Seq(Addr) : Len(x) \in Nat
          OBVIOUS
        <5> QED
          BY <3>3, <5>3, <5>4
      <4> DEFINE before == Len(Met[m - 1])
                 all    == Len(Met[Steps])
                 a      == Len(Met[m - p])
      <4>2. a \in Nat
        BY <3>4
      <4>3. /\ i = a /\ i \in 1..a /\ before \in Nat /\ all \in Nat
            /\ j = before + 1 /\ i <= before /\ j <= all /\ i <= all
        BY <4>1, <3>4, <3>5, <3>6
      <4> HIDE DEF i, j, a, before, all
      <4>4. i \in 1..all /\ j \in 1..all /\ i # j
        BY <4>2, <4>3
      <4>5. Met[Steps][i] = Met[Steps][j]
        BY <3>6
      <4> QED
        BY <1>3, <4>4, <4>5 DEF all
    <3> QED
      BY <3>7
  <2>5. \A m \in ((k - 1) + 1)..Steps : Walk[m] = NULL \/ mem[Walk[m]].shim
    BY <2>3, <2>4
  <2>6. Met[Steps] = Met[k - 1]
    BY <2>3, <2>5, Quiet
  <2> QED
    BY <1>3, <2>2, <2>3, <2>6
<1> QED
  BY <1>1, <1>2, <1>3

--------------------------------------------------------------------------------
(* What a sample of a process that stands still says of it. *)

\* The addresses in o, as they are pushed.
Pushed(o) == [i \in 1..Len(o) |-> [origin |-> o[i], code |-> mem[o[i]].code]]

\* Unwinding is at the n-th address, with the frames before it on the stack.
Reached(n) == cur = Walk[n] /\ stack = Pushed(Met[n - 1])

NoneTwice == \A i, j \in 1..Len(stack) : stack[i].origin = stack[j].origin => i = j

\* The stack is a first part of the frames; or all of them.
Shown ==
  /\ Len(stack) <= Len(Met[Steps])
  /\ \A i \in 1..Len(stack) : stack[i].code = mem[Met[Steps][i]].code
Whole == Finite /\ Len(stack) = Len(Met[Steps])

\* A stack that is cut is marked, or will be when the first resolution is over; one
\* that all was read of and that has room is not.
Honest ==
  /\ Shown
  /\ marks = 0 /\ (invalid => again) => Whole
  /\ faults = 0 /\ Finite /\ Len(Met[Steps]) < MAX_STACK_SIZE => marks = 0 /\ ~invalid

Truth ==
  /\ pc \in {"idle", "excluded", "cframe", "unwind"} => ~invalid
  /\ pc = "cframe" => cur = top /\ top # NULL
  /\ pc = "unwind" => \/ cur = top /\ stack = <<>>
                      \/ NoneTwice /\ \E n \in 1..Steps : Reached(n)
  /\ pc = "resolve" => Honest
  /\ pc = "emit" => \/ top = NULL /\ stack = <<>> /\ marks = 0
                    \/ Honest /\ again

\* No object is in the frame cache twice.
OneEntry == \A i, j \in 1..Len(cache) : cache[i].obj = cache[j].obj => i = j

\* A process that stands still has the same frames after a step of its sample.
LEMMA Still ==
  ASSUME UNCHANGED <<setting, mem, top>>
  PROVE  /\ Walk' = Walk /\ Met' = Met /\ Finite' = Finite /\ Reported' = Reported
         /\ racy' = racy /\ MAX_STACK_SIZE' = MAX_STACK_SIZE /\ iframes' = iframes
<1>1. Walk' = Walk
  BY DEF Walk, Steps
<1>2. Met' = Met
  BY <1>1 DEF Met, Steps
<1> QED
  BY <1>1, <1>2 DEF Finite, Reported, Steps, racy, MAX_STACK_SIZE, iframes

\* What is pushed, frame by frame.
LEMMA PushedMore ==
  ASSUME NEW o \in Seq(Addr), NEW a \in Addr
  PROVE  /\ Pushed(Append(o, a)) = Append(Pushed(o), [origin |-> a, code |-> mem[a].code])
         /\ Len(Pushed(o)) = Len(o)
         /\ \A i \in 1..Len(o) : Pushed(o)[i] = [origin |-> o[i], code |-> mem[o[i]].code]
<1> DEFINE b == Append(o, a)
           e == [origin |-> a, code |-> mem[a].code]
           s == Pushed(o)
<1>1. Len(o) \in Nat /\ Len(b) = Len(o) + 1 /\ b[Len(o) + 1] = a /\ \A i \in 1..Len(o) : b[i] = o[i]
  OBVIOUS
<1>2. Len(s) = Len(o) /\ s \in [1..Len(o) -> {s[i] : i \in 1..Len(o)} \cup {e}]
  BY <1>1 DEF Pushed
<1>3. \A i \in 1..Len(o) : s[i] = [origin |-> o[i], code |-> mem[o[i]].code]
  BY DEF Pushed
<1> HIDE DEF b
<1>4. Pushed(b) = [i \in 1..(Len(o) + 1) |-> [origin |-> b[i], code |-> mem[b[i]].code]]
  BY <1>1 DEF Pushed
<1> HIDE DEF s
<1>5. Append(s, e) = [i \in 1..(Len(s) + 1) |-> IF i <= Len(s) THEN s[i] ELSE e]
  BY <1>1, <1>2
<1>6. \A i \in 1..(Len(o) + 1) : [origin |-> b[i], code |-> mem[b[i]].code] = IF i <= Len(s) THEN s[i] ELSE e
  BY <1>1, <1>2, <1>3
<1>7. Pushed(b) = Append(s, e)
  BY <1>2, <1>4, <1>5, <1>6
<1> QED
  BY <1>2, <1>3, <1>7 DEF b, s

\* The address at which unwinding is.
LEMMA Whereabouts ==
  ASSUME Inv, Truth, pc = "unwind"
  PROVE  /\ NoneTwice /\ ~invalid /\ marks = 0 /\ ~again /\ cur \in Addr /\ mem[cur] \in Frame
         /\ \E n \in 1..Steps : Reached(n)
<1>1. Process /\ 1 \in 1..Steps /\ 1 - 1 = 0
  BY StepsType DEF Inv
<1>2. ~invalid /\ marks = 0 /\ ~again /\ cur \in Addr /\ mem[cur] \in Frame
  BY DEF Inv, Truth, Marks, Place, Process
<1>3. CASE cur = top /\ stack = <<>>
  <2>1. Pushed(<<>>) = <<>>
    BY DEF Pushed
  <2>2. Met[0] = <<>> /\ Walk[1] = top
    BY <1>1, WalkAt, MetAt
  <2>3. Reached(1)
    BY <1>1, <1>3, <2>1, <2>2 DEF Reached
  <2>4. NoneTwice
    BY <1>3 DEF NoneTwice
  <2> QED
    BY <1>1, <1>2, <2>3, <2>4
<1> QED
  BY <1>2, <1>3 DEF Truth

\* The frames before the n-th address are the first ones.
LEMMA ShownAt ==
  ASSUME Process, NEW n \in 0..Steps
  PROVE  /\ Len(Pushed(Met[n])) = Len(Met[n]) /\ Len(Met[n]) \in Nat
         /\ Len(Met[n]) <= Len(Met[Steps]) /\ Len(Met[Steps]) \in Nat
         /\ \A i \in 1..Len(Met[n]) : /\ Pushed(Met[n])[i].code = mem[Met[Steps][i]].code
                                      /\ Pushed(Met[n])[i].origin = Met[n][i]
<1>1. Steps \in n..Steps /\ Steps \in 0..Steps
  BY StepsType
<1>2. Met[n] \in Seq(Addr) /\ Met[Steps] \in Seq(Addr)
  BY <1>1, MetAt
<1>3. Len(Met[n]) <= Len(Met[Steps]) /\ \A i \in 1..Len(Met[n]) : Met[Steps][i] = Met[n][i]
  BY <1>1, MetGrows
<1> QED
  BY <1>2, <1>3 DEF Pushed

\* Before anything is read, and when the sample is over.
LEMMA BeginTruth ==
  ASSUME Inv, Truth, NEW t \in Addr \cup {NULL},
         Exclude(t) \/ Excluded \/ Start(t) \/ ReadCFrameFails \/ (ReadCFrame /\ ~racy) \/ Emit \/ Emitted
  PROVE  Truth'
<1>1. CASE Exclude(t) \/ Excluded \/ Start(t)
  <2>1. ~invalid /\ invalid' = invalid /\ marks = 0 /\ marks' = 0 /\ stack = <<>> /\ stack' = <<>>
    BY <1>1 DEF Exclude, Excluded, Start, Inv, Marks, Place, Truth
  <2>2. \/ pc' \in {"idle", "excluded"}
        \/ pc' = "cframe" /\ cur' = top' /\ top' # NULL
        \/ pc' = "unwind" /\ cur' = top'
        \/ pc' = "emit" /\ top' = NULL
    BY <1>1 DEF Exclude, Excluded, Start
  <2> QED
    BY <2>1, <2>2 DEF Truth
<1>2. CASE ReadCFrame /\ ~racy
  <2>1. /\ pc = "cframe" /\ top # NULL /\ cur' = top /\ pc' = "unwind" /\ stack = <<>>
        /\ UNCHANGED <<top, stack, invalid>> /\ ~invalid
    BY <1>2 DEF ReadCFrame, Truth, Inv, Place
  <2> QED
    BY <2>1 DEF Truth
<1>3. CASE ReadCFrameFails
  <2>1. /\ pc' = "resolve" /\ stack' = <<>> /\ marks' = 1 /\ faults' = faults + 1 /\ faults \in Nat
        /\ UNCHANGED <<setting, mem, top>>
    BY <1>3, BoundAssumption DEF ReadCFrameFails, Inv, Place, Marks, Others
  <2>2. Met' = Met /\ Steps' = Steps /\ Len(Met[Steps]) \in Nat
    <3>1. Steps \in 0..Steps
      BY StepsType
    <3> QED
      BY <2>1, <3>1, Still, ShownAt DEF Inv, Steps
  <2>3. Honest'
    BY <2>1, <2>2 DEF Honest, Shown
  <2> QED
    BY <2>1, <2>3 DEF Truth
<1>4. CASE Emit \/ Emitted
  BY <1>4 DEF Emit, Emitted, Truth
<1> QED
  BY <1>1, <1>2, <1>3, <1>4

\* Unwinding ends, with a first part of the frames.
LEMMA EndedHonest ==
  ASSUME Inv, Truth, pc = "unwind", UNCHANGED <<setting, mem, top>>,
         NEW bad \in BOOLEAN, Unwound(bad),
         NEW n \in 0..Steps, stack' = Pushed(Met[n]), faults' \in {faults, faults + 1},
         ~bad => Finite /\ Met[Steps] = Met[n],
         bad => \/ faults' = faults + 1
                \/ ~Finite
                \/ Len(stack') >= MAX_STACK_SIZE
  PROVE  Truth'
<1>1. /\ ~invalid /\ marks = 0 /\ ~again /\ faults \in Nat /\ iframes \in BOOLEAN
      /\ MAX_STACK_SIZE \in Nat /\ Process
  BY Whereabouts, SettingTypes, BoundAssumption DEF Inv, Process, Others
<1>2. /\ Walk' = Walk /\ Met' = Met /\ Finite' = Finite /\ mem' = mem
      /\ MAX_STACK_SIZE' = MAX_STACK_SIZE /\ Steps' = Steps
  BY Still DEF Steps
<1>3. /\ Len(stack') = Len(Met[n]) /\ Len(Met[n]) \in Nat
      /\ Len(Met[n]) <= Len(Met[Steps]) /\ Len(Met[Steps]) \in Nat
      /\ \A i \in 1..Len(Met[n]) : stack'[i].code = mem[Met[Steps][i]].code
  BY <1>1, ShownAt
<1>4. Shown'
  BY <1>2, <1>3 DEF Shown
<1>5. marks' = 0 /\ (invalid' => again') => Whole'
  <2>1. CASE bad
    <3>1. invalid' = bad /\ again' = ~iframes
      BY DEF Unwound
    <3>2. CASE iframes
      BY <2>1, <3>1, <3>2, Zenon
    <3>3. CASE ~iframes
      <4>1. marks' = marks + 1
        BY <2>1, <3>3, Zenon DEF Unwound
      <4> QED
        BY <4>1, <1>1
    <3> QED
      BY <3>2, <3>3
  <2>2. CASE ~bad
    BY <2>2, <1>2, <1>3 DEF Whole
  <2> QED
    BY <2>1, <2>2
<1>6. faults' = 0 /\ Finite /\ Len(Met[Steps]) < MAX_STACK_SIZE => marks' = 0 /\ ~invalid'
  <2>1. CASE bad
    BY <2>1, <1>1, <1>3
  <2>2. CASE ~bad
    BY <2>2, <1>1 DEF Unwound
  <2> QED
    BY <2>1, <2>2
<1>7. Honest'
  BY <1>2, <1>4, <1>5, <1>6 DEF Honest
<1> QED
  BY <1>7 DEF Truth, Unwound

\* A frame is pushed.
LEMMA PushTruth == ASSUME Inv, Truth, ~racy, Push PROVE Truth'
<1> DEFINE f == mem[cur]
<1>1. /\ pc = "unwind" /\ UNCHANGED <<setting, mem, top, faults>> /\ f.back # cur /\ cur' = f.back
      /\ stack' = IF f.shim THEN stack ELSE Append(stack, [origin |-> cur, code |-> f.code])
      /\ IF (iframes \/ stack # <<>>) /\ (Full(stack') \/ HasCycle(stack')) THEN Unwound(TRUE)
         ELSE IF f.back = NULL THEN Unwound(FALSE)
         ELSE UNCHANGED <<pc, invalid, marks, again>>
  BY DEF Push, Reads, OwnPredecessor
<1>2. /\ Process /\ NoneTwice /\ ~invalid /\ cur \in Addr /\ f \in Frame
      /\ MAX_STACK_SIZE \in Nat /\ stack \in Seq(Pair) /\ cur # NULL
  BY <1>1, Whereabouts, SettingTypes, AddressAssumption DEF Inv, Process, Stacks
<1>3. PICK n \in 1..Steps : Reached(n)
  BY <1>1, Whereabouts
<1>4. n \in 0..Steps /\ n - 1 \in 0..Steps
  BY StepsType
<1>5. cur = Walk[n] /\ stack = Pushed(Met[n - 1]) /\ Met[n - 1] \in Seq(Addr)
  BY <1>2, <1>3, <1>4, MetAt DEF Reached
<1>6. stack' = Pushed(Met[n])
  <2>1. CASE f.shim
    <3>1. Met[n] = Met[n - 1]
      BY <2>1, <1>2, <1>5, MetAt
    <3> QED
      BY <2>1, <3>1, <1>1, <1>5
  <2>2. CASE ~f.shim
    <3>1. Met[n] = Append(Met[n - 1], cur)
      BY <2>2, <1>2, <1>5, MetAt
    <3> QED
      BY <2>2, <3>1, <1>1, <1>2, <1>5, PushedMore
  <2> QED
    BY <2>1, <2>2
<1>7. Len(stack') = Len(Met[n]) /\ Len(Met[n]) \in Nat /\ \A i \in 1..Len(Met[n]) : stack'[i].origin = Met[n][i]
  BY <1>2, <1>4, <1>6, ShownAt
<1>8. CASE (iframes \/ stack # <<>>) /\ (Full(stack') \/ HasCycle(stack'))
  <2>1. ~Finite \/ Len(stack') >= MAX_STACK_SIZE
    <3> SUFFICES ASSUME HasCycle(stack') PROVE ~Finite
      BY <1>8, <1>2, <1>7 DEF Full
    <3>1. PICK i \in 1..(Len(stack') - 1) : stack'[i].origin = stack'[Len(stack')].origin
      BY DEF HasCycle
    <3>2. i \in 1..Len(Met[n]) /\ Len(Met[n]) \in 1..Len(Met[n]) /\ i # Len(Met[n])
      BY <1>7
    <3>3. Met[n][i] = Met[n][Len(Met[n])]
      BY <3>1, <3>2, <1>7
    <3> QED
      BY <3>2, <3>3, <1>2, <1>4, TwiceEndless
  <2> QED
    BY <2>1, <1>1, <1>4, <1>6, <1>8, EndedHonest
<1>9. CASE ~((iframes \/ stack # <<>>) /\ (Full(stack') \/ HasCycle(stack'))) /\ f.back = NULL
  <2>1. Finite /\ Met[Steps] = Met[n]
    BY <1>2, <1>5, <1>9, LastFrame
  <2> QED
    BY <2>1, <1>1, <1>4, <1>6, <1>9, EndedHonest
<1>10. CASE ~((iframes \/ stack # <<>>) /\ (Full(stack') \/ HasCycle(stack'))) /\ f.back # NULL
  <2>1. pc' = "unwind" /\ ~invalid'
    BY <1>1, <1>2, <1>10
  <2>2. NoneTwice'
    <3> DEFINE e == [origin |-> cur, code |-> f.code]
    <3>1. stack' = stack \/ (stack' = Append(stack, e) /\ (stack # <<>> => ~HasCycle(stack')))
      BY <1>1, <1>10
    <3> SUFFICES ASSUME stack' = Append(stack, e), stack # <<>> => ~HasCycle(stack') PROVE NoneTwice'
      BY <3>1, <1>2 DEF NoneTwice
    <3>2. e \in Pair
      BY <1>2 DEF Pair, Frame
    <3> HIDE DEF e
    <3>3. /\ Len(stack') = Len(stack) + 1 /\ Len(stack) \in Nat
          /\ \A i \in 1..Len(stack) : stack'[i] = stack[i]
      BY <3>2, <1>2
    <3>4. \A i \in 1..Len(stack) : stack'[i].origin # stack'[Len(stack')].origin
      <4>1. CASE stack = <<>>
        BY <4>1
      <4>2. CASE stack # <<>>
        BY <4>2, <3>3 DEF HasCycle
      <4> QED
        BY <4>1, <4>2
    <3>5. ASSUME NEW i \in 1..Len(stack'), NEW j \in 1..Len(stack'), stack'[i].origin = stack'[j].origin
          PROVE  i = j
      <4>1. CASE i \in 1..Len(stack) /\ j \in 1..Len(stack)
        BY <4>1, <3>3, <3>5, <1>2 DEF NoneTwice
      <4>2. CASE i \notin 1..Len(stack) \/ j \notin 1..Len(stack)
        <5>1. i = Len(stack') \/ j = Len(stack')
          BY <4>2, <3>3
        <5> QED
          BY <5>1, <3>3, <3>4, <3>5
      <4> QED
        BY <4>1, <4>2
    <3> QED
      BY <3>5 DEF NoneTwice
  <2>3. \A i, j \in 1..Len(Met[n]) : Met[n][i] = Met[n][j] => i = j
    BY <2>2, <1>7 DEF NoneTwice
  <2>4. PICK k \in 1..Steps : Walk[k] = f.back /\ Met[k - 1] = Met[n]
    BY <2>3, <1>2, <1>5, <1>10, Onward
  <2>5. Walk' = Walk /\ Met' = Met /\ Steps' = Steps /\ mem' = mem
    BY <1>1, Still DEF Steps
  <2>6. Reached(k)'
    BY <2>4, <2>5, <1>1, <1>6 DEF Reached, Pushed
  <2> QED
    BY <2>1, <2>2, <2>5, <2>6 DEF Truth
<1> QED
  BY <1>8, <1>9, <1>10

\* A frame cannot be read, or is its own predecessor.
LEMMA PushFailsTruth == ASSUME Inv, Truth, ~racy, PushFails PROVE Truth'
<1>1. /\ pc = "unwind" /\ UNCHANGED <<setting, mem, top, cur, stack>> /\ Unwound(TRUE)
      /\ (faults' = faults /\ mem[cur].back = cur) \/ faults' = faults + 1
  BY DEF PushFails, Reads, OwnPredecessor
<1>2. Process /\ cur \in Addr /\ cur # NULL
  BY <1>1, Whereabouts, AddressAssumption DEF Inv
<1>3. PICK n \in 1..Steps : Reached(n)
  BY <1>1, Whereabouts
<1>4. n - 1 \in 0..Steps /\ cur = Walk[n] /\ stack' = Pushed(Met[n - 1]) /\ Steps \in Nat
  BY <1>1, <1>3, StepsType DEF Reached
<1>5. ASSUME mem[cur].back = cur PROVE ~Finite
  <2>1. CASE n = Steps
    BY <2>1, <1>2, <1>4 DEF Finite
  <2>2. CASE n # Steps
    <3>1. n \in 1..(Steps - 1) /\ n + 1 <= Steps /\ 1 \in Nat \ {0}
      BY <2>2, <1>4
    <3>2. Walk[n + 1] = Walk[n] /\ Walk[n] # NULL
      BY <3>1, <1>2, <1>4, <1>5, WalkAt
    <3> QED
      BY <3>1, <3>2, <1>2, Endless
  <2> QED
    BY <2>1, <2>2
<1> QED
  BY <1>1, <1>4, <1>5, EndedHonest

\* What does not touch the sample leaves it as honest as it was.
LEMMA TruthKept ==
  ASSUME Truth, UNCHANGED <<setting, mem, top, pc, cur, stack, invalid, again, marks, faults>>
  PROVE  Truth'
<1>1. /\ Walk' = Walk /\ Met' = Met /\ Steps' = Steps /\ Finite' = Finite
      /\ MAX_STACK_SIZE' = MAX_STACK_SIZE
  BY Still DEF Steps
<1>2. Honest' <=> Honest
  BY <1>1 DEF Honest, Shown, Whole
<1>3. NoneTwice' <=> NoneTwice
  BY DEF NoneTwice
<1>4. \A n \in 1..Steps : Reached(n)' <=> Reached(n)
  BY <1>1 DEF Reached, Pushed
<1> QED
  BY <1>1, <1>2, <1>3, <1>4 DEF Truth

\* Resolution cuts the stack where it fails, and then marks it.
LEMMA ResolveTruth ==
  ASSUME Inv, Truth, ResolveHit \/ ResolveMiss \/ ResolveFails \/ ResolveEnds
  PROVE  Truth'
<1>1. CASE ResolveHit \/ ResolveMiss
  BY <1>1, TruthKept DEF ResolveHit, ResolveMiss
<1>2. ASSUME UNCHANGED <<setting, mem, top>>
      PROVE  /\ Met' = Met /\ Steps' = Steps /\ Finite' = Finite /\ mem' = mem
             /\ MAX_STACK_SIZE' = MAX_STACK_SIZE
  BY <1>2, Still DEF Steps
<1>3. CASE ResolveFails
  <2>1. /\ UNCHANGED <<setting, mem, top, pc, again>> /\ pc = "resolve" /\ faults' = faults + 1
        /\ stack' = SubSeq(stack, 1, Len(base)) /\ Len(base) < Len(stack)
        /\ IF again THEN marks' = marks + 1 /\ UNCHANGED invalid
                    ELSE invalid' = TRUE /\ UNCHANGED marks
    BY <1>3 DEF ResolveFails, Resolving
  <2>2. /\ stack \in Seq(Pair) /\ Len(stack) \in Nat /\ Len(base) \in Nat /\ faults \in Nat
        /\ marks \in Nat /\ Len(Met[Steps]) \in Nat /\ Honest
    <3>1. Steps \in 0..Steps
      BY StepsType
    <3> QED
      BY <2>1, <3>1, ShownAt, BoundAssumption DEF Inv, Stacks, Others, Marks, Truth
  <2>3. Len(stack') = Len(base) /\ \A i \in 1..Len(base) : stack'[i] = stack[i]
    BY <2>1, <2>2
  <2>4. Shown'
    <3>1. Len(stack') <= Len(Met[Steps])
      BY <2>1, <2>2, <2>3 DEF Honest, Shown
    <3>2. \A i \in 1..Len(stack') : stack'[i].code = mem[Met[Steps][i]].code
      BY <2>1, <2>2, <2>3 DEF Honest, Shown
    <3> QED
      BY <1>2, <2>1, <3>1, <3>2 DEF Shown
  <2>5. ~(marks' = 0 /\ (invalid' => again'))
    <3>1. CASE again
      <4>1. marks' = marks + 1
        BY <2>1, <3>1
      <4> QED
        BY <4>1, <2>2
    <3>2. CASE ~again
      BY <2>1, <3>2
    <3> QED
      BY <3>1, <3>2
  <2>6. faults' # 0
    BY <2>1, <2>2
  <2>7. Honest'
    BY <2>4, <2>5, <2>6 DEF Honest
  <2> QED
    BY <2>1, <2>7 DEF Truth
<1>4. CASE ResolveEnds
  <2>1. /\ UNCHANGED <<setting, mem, top, cur, stack, invalid, faults>> /\ pc = "resolve" /\ Honest
        /\ IF again THEN pc' = "emit" /\ UNCHANGED <<again, marks>>
           ELSE again' = TRUE /\ marks' = (IF invalid THEN marks + 1 ELSE marks) /\ pc' = pc
    BY <1>4 DEF ResolveEnds, Truth
  <2>2. Shown' /\ (Whole' <=> Whole)
    BY <1>2, <2>1 DEF Honest, Shown, Whole
  <2>3. CASE again
    <3>1. pc' = "emit" /\ again' /\ marks' = marks
      BY <2>1, <2>3
    <3>2. Honest'
      BY <1>2, <2>1, <2>2, <2>3, <3>1 DEF Honest
    <3> QED
      BY <3>1, <3>2 DEF Truth
  <2>4. CASE ~again
    <3>1. marks = 0 /\ pc' = "resolve"
      BY <2>1, <2>4 DEF Inv, Marks
    <3>2. /\ invalid => marks' = marks + 1
          /\ ~invalid => marks' = marks
          /\ again' = TRUE /\ invalid' = invalid
      BY <2>1, <2>4
    <3>3. Honest'
      <4>1. CASE invalid
        <5>1. marks' = 1
          BY <4>1, <3>1, <3>2
        <5> QED
          BY <4>1, <5>1, <1>2, <2>1, <2>2, <3>1 DEF Honest
      <4>2. CASE ~invalid
        <5>1. marks' = 0
          BY <4>2, <3>1, <3>2
        <5> QED
          BY <4>2, <5>1, <1>2, <2>1, <2>2, <3>1, <3>2 DEF Honest
      <4> QED
        BY <4>1, <4>2
    <3> QED
      BY <3>1, <3>3 DEF Truth
  <2> QED
    BY <2>3, <2>4
<1> QED
  BY <1>1, <1>3, <1>4

\* The frame cache keeps its entries apart: a new object is not one of those in use.
LEMMA OneEntryStep == ASSUME Inv, OneEntry, [Next]_vars PROVE OneEntry'
<1>1. CASE ResolveHit
  <2>1. PICK p \in 1..Len(cache) : cache' = <<cache[p]>> \o RemoveAt(cache, p)
    BY <1>1 DEF ResolveHit, Cached
  <2>2. /\ Len(cache') = Len(cache) /\ Len(cache) \in Nat
        /\ \A i \in 1..Len(cache) :
             cache'[i] = IF i = 1 THEN cache[p] ELSE IF i <= p THEN cache[i - 1] ELSE cache[i]
    BY <2>1, HitCache
  <2> DEFINE from(i) == IF i = 1 THEN p ELSE IF i <= p THEN i - 1 ELSE i
  <2>3. \A i \in 1..Len(cache) : from(i) \in 1..Len(cache) /\ cache'[i] = cache[from(i)]
    BY <2>2
  <2>4. \A i, j \in 1..Len(cache) : from(i) = from(j) => i = j
    BY <2>2
  <2> HIDE DEF from
  <2>5. ASSUME NEW i \in 1..Len(cache), NEW j \in 1..Len(cache), cache'[i].obj = cache'[j].obj
        PROVE  i = j
    <3>1. /\ from(i) \in 1..Len(cache) /\ cache'[i] = cache[from(i)]
          /\ from(j) \in 1..Len(cache) /\ cache'[j] = cache[from(j)]
      BY <2>3
    <3>2. from(i) = from(j)
      BY <2>5, <3>1 DEF OneEntry
    <3> QED
      BY <2>4, <3>2
  <2> QED
    BY <2>2, <2>5 DEF OneEntry
<1>2. CASE ResolveMiss
  <2>1. Wanted \in setting.code
    BY <1>2, WantedTypes DEF ResolveMiss
  <2>2. PICK obj \in setting.obj \ {cache[i].obj : i \in 1..Len(cache)} : StoreFrame(Wanted, obj)
    BY <1>2 DEF ResolveMiss
  <2>3. /\ Len(cache') \in Nat /\ cache'[1] = [key |-> Wanted, obj |-> obj]
        /\ \A i \in 2..Len(cache') : i - 1 \in 1..Len(cache) /\ cache'[i] = cache[i - 1]
    BY <2>1, <2>2, MissCache
  <2>4. \A i \in 2..Len(cache') : cache'[i].obj # obj
    BY <2>2, <2>3
  <2>5. ASSUME NEW i \in 2..Len(cache'), NEW j \in 2..Len(cache'), cache'[i].obj = cache'[j].obj
        PROVE  i = j
    <3>1. /\ i - 1 \in 1..Len(cache) /\ cache'[i] = cache[i - 1]
          /\ j - 1 \in 1..Len(cache) /\ cache'[j] = cache[j - 1]
      BY <2>3
    <3>2. i - 1 = j - 1
      BY <2>5, <3>1 DEF OneEntry
    <3> QED
      BY <3>2
  <2>6. \A i \in 1..Len(cache') : i = 1 \/ i \in 2..Len(cache')
    BY <2>3
  <2>7. cache'[1].obj = obj
    BY <2>3
  <2> QED
    BY <2>4, <2>5, <2>6, <2>7 DEF OneEntry
<1>3. CASE UNCHANGED cache
  BY <1>3 DEF OneEntry
<1>4. ASSUME NEW t \in Addr \cup {NULL}, Exclude(t) \/ Start(t) PROVE UNCHANGED cache
  BY <1>4 DEF Exclude, Start
<1>5. CASE \/ Excluded \/ ReadCFrame \/ ReadCFrameFails \/ Push \/ PushFails \/ ResolveFails
           \/ ResolveEnds \/ Emit \/ Emitted \/ UNCHANGED vars
  BY <1>3, <1>5 DEF Excluded, ReadCFrame, ReadCFrameFails, Push, PushFails, ResolveFails,
                    ResolveEnds, Emit, Emitted, vars
<1> QED
  BY <1>1, <1>2, <1>3, <1>4, <1>5 DEF Next

\* What is referred to is the stack: its frames are in the cache, each under its own key.
LEMMA EmitTold == ASSUME Inv, OneEntry, Truth, ~racy, Emit PROVE MarkedWhenCut'
<1>1. /\ pc = "emit" /\ UNCHANGED <<setting, mem, top, marks, faults>>
      /\ emitted' = [i \in 1..Len(stack) |-> KeyOf(base[Len(stack) - i + 1])]
  BY DEF Emit
<1>2. /\ Len(stack) \in Nat /\ Len(base) = Len(stack) /\ cache \in Seq(Entry) /\ Process
      /\ stack \in Seq(Pair)
  BY <1>1 DEF Inv, Stacks, Place
<1>3. ASSUME NEW n \in 1..Len(stack) PROVE KeyOf(base[n]) = stack[n].code
  <2>1. PICK j \in 1..Len(base) :
          j <= Len(cache) /\ cache[j] = [key |-> stack[n].code, obj |-> base[n]]
    BY <1>1, <1>2 DEF Inv, Recent
  <2>2. j \in 1..Len(cache) /\ cache[j].obj = base[n] /\ cache[j] \in ToSet(cache)
    BY <1>2, <2>1 DEF ToSet
  <2> DEFINE x == CHOOSE y \in ToSet(cache) : y.obj = base[n]
  <2>3. x \in ToSet(cache) /\ x.obj = base[n]
    BY <2>2
  <2>4. KeyOf(base[n]) = x.key
    BY <2>2 DEF KeyOf
  <2> HIDE DEF x
  <2>5. PICK m \in 1..Len(cache) : x = cache[m]
    BY <1>2, <2>3 DEF ToSet
  <2>6. m = j
    BY <2>2, <2>3, <2>5 DEF OneEntry
  <2> QED
    BY <2>1, <2>4, <2>5, <2>6
<1> DEFINE r == Reverse(emitted')
<1>4. r = [i \in 1..Len(stack) |-> stack[i].code]
  <2>1. Len(emitted') = Len(stack)
    BY <1>1, <1>2
  <2>2. ASSUME NEW i \in 1..Len(stack) PROVE emitted'[Len(stack) - i + 1] = stack[i].code
    <3>1. Len(stack) - i + 1 \in 1..Len(stack) /\ Len(stack) - (Len(stack) - i + 1) + 1 = i
      BY <1>2
    <3> QED
      BY <3>1, <1>1, <1>3
  <2>3. r = [i \in 1..Len(stack) |-> emitted'[Len(stack) - i + 1]]
    BY <2>1 DEF Reverse
  <2> QED
    BY <2>2, <2>3
<1> HIDE DEF r
<1>5. Shown /\ (marks = 0 => Whole) /\ (faults = 0 /\ Finite /\ Len(Met[Steps]) < MAX_STACK_SIZE => marks = 0)
  <2>1. CASE top = NULL /\ stack = <<>> /\ marks = 0
    <3>1. 1 \in 1..Steps /\ Steps \in 1..Steps /\ 0 \in 0..Steps /\ 0 + 1 = 1
      BY StepsType
    <3>2. \A m \in 1..Steps : Walk[m] = NULL
      BY <2>1, <1>2, <3>1, WalkAt, NullStays
    <3>3. Finite /\ Met[Steps] = Met[0] /\ Met[0] = <<>>
      BY <1>2, <3>1, <3>2, Quiet, MetAt DEF Finite
    <3> QED
      BY <2>1, <3>3 DEF Shown, Whole
  <2>2. CASE Honest /\ again
    BY <2>2 DEF Honest
  <2> QED
    BY <2>1, <2>2, <1>1 DEF Truth
<1>6. /\ Reported = [i \in 1..Len(Met[Steps]) |-> mem[Met[Steps][i]].code]
      /\ Len(Met[Steps]) \in Nat
  <2>1. Steps \in 0..Steps
    BY StepsType
  <2> QED
    BY <2>1, <1>2, ShownAt DEF Reported
<1>7. /\ Len(r) = Len(stack) /\ Len(Reported) = Len(Met[Steps])
      /\ Len(stack) <= Len(Reported) /\ \A i \in 1..Len(stack) : r[i] = Reported[i]
  BY <1>2, <1>4, <1>5, <1>6 DEF Shown
<1>8. IsPrefix(r, Reported)
  <2>1. SubSeq(r, 1, Len(r)) = [i \in 1..Len(stack) |-> r[i]]
    BY <1>2, <1>7
  <2>2. SubSeq(Reported, 1, Len(r)) = [i \in 1..Len(stack) |-> Reported[i]]
    BY <1>2, <1>7
  <2> QED
    BY <1>7, <2>1, <2>2 DEF IsPrefix
<1>9. marks = 0 => Finite /\ r = Reported
  BY <1>2, <1>4, <1>5, <1>6, <1>7 DEF Whole
<1>10. /\ Reported' = Reported /\ Finite' = Finite /\ MAX_STACK_SIZE' = MAX_STACK_SIZE
  BY <1>1, Still
<1> QED
  BY <1>1, <1>5, <1>7, <1>8, <1>9, <1>10 DEF MarkedWhenCut, r

\* A sample of a process that stands still shows its topmost frames in order, and all
\* of them unless it is marked, which it is not without a reason; for every memory of
\* the process, every size of the array and whatever reads fail.
THEOREM MarkedCorrect == Spec => []MarkedWhenCut
<1> DEFINE Sound == OneEntry /\ (~racy => Truth) /\ MarkedWhenCut
<1>1. Init => Sound
  BY DEF Init, OneEntry, Truth, MarkedWhenCut
<1>2. Inv /\ Sound /\ [Next]_vars => Sound'
  <2> SUFFICES ASSUME Inv, Sound, [Next]_vars PROVE Sound'
    OBVIOUS
  <2>1. OneEntry'
    BY OneEntryStep
  <2>2. CASE racy
    <3>1. UNCHANGED setting
      BY DEF Next, vars, Exclude, Start, Excluded, ReadCFrame, ReadCFrameFails, Push, PushFails,
             ResolveHit, ResolveMiss, ResolveFails, ResolveEnds, Emit, Emitted
    <3>2. racy'
      BY <2>2, <3>1 DEF racy
    <3> QED
      BY <2>1, <3>2 DEF MarkedWhenCut
  <2>3. CASE ~racy
    <3>1. Truth
      BY <2>3
    <3>2. CASE UNCHANGED vars
      <4>1. Reported' = Reported /\ Finite' = Finite /\ MAX_STACK_SIZE' = MAX_STACK_SIZE /\ racy' = racy
        BY <3>2, Still DEF vars
      <4>2. Truth'
        BY <3>1, <3>2, TruthKept DEF vars
      <4>3. UNCHANGED <<pc, emitted, marks, faults>>
        BY <3>2 DEF vars
      <4>4. MarkedWhenCut'
        BY <4>1, <4>3 DEF MarkedWhenCut
      <4> QED
        BY <2>1, <4>2, <4>4
    <3>3. CASE Emit
      BY <2>1, <2>3, <3>1, <3>3, EmitTold, BeginTruth
    <3>4. CASE Next /\ ~Emit
      <4>1. Truth'
        BY <2>3, <3>1, <3>4, BeginTruth, PushTruth, PushFailsTruth, ResolveTruth DEF Next
      <4>2. pc' # "emitted"
        BY <3>4 DEF Next, Exclude, Start, Excluded, ReadCFrame, ReadCFrameFails, Push, PushFails,
                    Unwound, ResolveHit, ResolveMiss, ResolveFails, ResolveEnds, Emitted, Resolving
      <4> QED
        BY <2>1, <4>1, <4>2 DEF MarkedWhenCut
    <3> QED
      BY <3>2, <3>3, <3>4
  <2> QED
    BY <2>2, <2>3
<1> QED
  BY <1>1, <1>2, Invariance, PTL DEF Spec

=================================================================================

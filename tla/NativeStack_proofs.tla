--------------------------- MODULE NativeStack_proofs ---------------------------
(***************************************************************************)
(* For every size of the arrays, every Python version of the model and     *)
(* every stack: no frame of the sample under way is freed, although the    *)
(* native and the Python stack share one cache (StackCorrect); and what is *)
(* shown is what the thread was doing (ToldCorrect).                       *)
(*                                                                         *)
(* The frames used for a sample are those used last, so that the one that  *)
(* is evicted, the one used longest ago, is none of them as long as the    *)
(* cache has room for them all; which it has, being as large as the two    *)
(* stacks together.                                                        *)
(*                                                                         *)
(* The stacks are walked from the innermost call outwards and shown from   *)
(* the root inwards: after n native frames, the frames of the n outermost  *)
(* calls have been shown, and what the others push is left.                *)
(***************************************************************************)
EXTENDS NativeStack, SequenceTheorems, FiniteSetTheorems, WellFoundedInduction, TLAPS

Key  == Counter \cup Frame
Call == [key : Counter, run : Seq(Frame), shim : BOOLEAN]

\* A frame on a stack, and a frame that is shown.
Pointed == [key : Key \cup {CFRAME_MAGIC}, live : BOOLEAN, left : BOOLEAN]
Seen    == [key : Key \cup {CFRAME_MAGIC} \cup KernelFrame, live : BOOLEAN, left : BOOLEAN]

\* The frames a stack refers to: markers are none.
Keys(stack) == {stack[i].key : i \in 1..Len(stack)} \ {CFRAME_MAGIC}

\* The keys of a cache are different.
Cache(keys) ==
  /\ keys \in Seq(Key) /\ Len(keys) <= MAX_FRAME_CACHE_SIZE
  /\ \A i, j \in 1..Len(keys) : keys[i] = keys[j] => i = j

\* The keys of K are those used last.
Recent(keys, K) ==
  /\ \A k \in K : \E i \in 1..Len(keys) : keys[i] = k
  /\ \A i, j \in 1..Len(keys) : i < j /\ keys[j] \in K => keys[i] \in K

AllLive(stack) == \A i \in 1..Len(stack) : stack[i].live /\ ~stack[i].left
AllLeft(stack) == \A i \in 1..Len(stack) : stack[i].left
Sound(stack)   == \A i \in 1..Len(stack) : stack[i].live \/ stack[i].left

Types ==
  /\ setting \in Settings
  /\ real \in Seq(Call) /\ kernel \in Seq(KernelFrame)
  /\ pc \in {"idle", "native", "python", "interleave", "shown"}
  /\ native \in Seq(Pointed) /\ py \in Seq(Pointed) /\ out \in Seq(Seen)

PyFits ==
  \/ Len(py) <= MAX_STACK_SIZE
  \/ version = 311 /\ pc = "interleave" /\ Len(py) = MAX_STACK_SIZE + 1 /\ py[Len(py)].key = CFRAME_MAGIC

IInv ==
  /\ Types
  /\ Cache(cache) /\ Len(native) <= MAX_STACK_SIZE /\ PyFits
  /\ AllLive(native) /\ Sound(py) /\ Sound(out)
  /\ pc \in {"idle", "native", "shown"} => native = <<>>
  /\ pc \in {"native", "python"} => AllLeft(py)
  /\ pc = "python" => Recent(cache, Keys(native))

\* A set of naturals that is not empty has a least element.
LEMMA Least == ASSUME NEW S \in SUBSET Nat, S # {} PROVE \E m \in S : \A n \in S : m <= n
<1> DEFINE R == {ss \in Nat \X Nat : ss[1] < ss[2]}
<1>1. IsWellFoundedOn(R, Nat)
  BY NatLessThanWellFounded DEF OpToRel
<1>2. \A n, m \in Nat : n < m => <<n, m>> \in R
  OBVIOUS
<1> HIDE DEF R
<1>3. \E m \in S : \A n \in S : ~(<<n, m>> \in R)
  BY <1>1, WFMin
<1>4. PICK m \in S : \A n \in S : ~(<<n, m>> \in R)
  BY <1>3
<1>5. \A n \in S : ~(n < m)
  BY <1>2, <1>4
<1> QED
  BY <1>5

\* The sizes that occur.
LEMMA Sizes ==
  ASSUME Types
  PROVE  /\ MAX_STACK_SIZE \in Nat /\ MAX_STACK_SIZE >= 2 /\ MAX_FRAME_CACHE_SIZE = 2 * MAX_STACK_SIZE
         /\ version \in {310, 311, 312}
<1>1. setting \in Settings
  BY DEF Types
<1>2. setting.size \in Nat \ {0, 1} /\ setting.version \in {310, 311, 312}
  BY <1>1, SettingsAssumption
<1> QED
  BY <1>2 DEF MAX_STACK_SIZE, MAX_FRAME_CACHE_SIZE, version

-------------------------------------------------------------------------------
(* The cache. *)

\* Something is put before a sequence.
LEMMA Fronted ==
  ASSUME NEW S, NEW x \in S, NEW r \in Seq(S)
  PROVE  LET t == <<x>> \o r IN
         /\ t \in Seq(S) /\ Len(t) = Len(r) + 1 /\ t[1] = x
         /\ \A i \in 2..(Len(r) + 1) : t[i] = r[i - 1]
OBVIOUS

\* An element is taken out of a sequence.
LEMMA TakenOut ==
  ASSUME NEW S, NEW s \in Seq(S), NEW p \in 1..Len(s)
  PROVE  /\ RemoveAt(s, p) \in Seq(S) /\ Len(RemoveAt(s, p)) = Len(s) - 1
         /\ \A i \in 1..(Len(s) - 1) : RemoveAt(s, p)[i] = IF i < p THEN s[i] ELSE s[i + 1]
<1> DEFINE a == SubSeq(s, 1, p - 1)
           b == SubSeq(s, p + 1, Len(s))
<1>1. Len(s) \in Nat
  OBVIOUS
<1>2. a \in Seq(S) /\ Len(a) = p - 1 /\ \A i \in 1..(p - 1) : a[i] = s[i]
  BY <1>1, SubSeqProperties
<1>3. b \in Seq(S) /\ Len(b) = Len(s) - p /\ \A i \in 1..(Len(s) - p) : b[i] = s[p + i]
  BY <1>1, SubSeqProperties
<1> DEFINE t == a \o b
<1>4. RemoveAt(s, p) = t
  BY DEF RemoveAt
<1> HIDE DEF a, b
<1>5. /\ t \in Seq(S) /\ Len(t) = Len(a) + Len(b)
      /\ \A i \in 1..(Len(a) + Len(b)) : t[i] = IF i <= Len(a) THEN a[i] ELSE b[i - Len(a)]
  BY <1>2, <1>3, ConcatProperties
<1> HIDE DEF t
<1>6. Len(t) = Len(s) - 1
  BY <1>1, <1>2, <1>3, <1>5
<1>7. ASSUME NEW i \in 1..(Len(s) - 1) PROVE t[i] = IF i < p THEN s[i] ELSE s[i + 1]
  <2>1. i \in 1..(Len(a) + Len(b))
    BY <1>1, <1>2, <1>3
  <2>2. CASE i < p
    <3>1. i <= Len(a) /\ i \in 1..(p - 1)
      BY <2>2, <1>2
    <3> QED
      BY <2>1, <2>2, <3>1, <1>2, <1>5
  <2>3. CASE ~(i < p)
    <3>1. i - Len(a) \in 1..(Len(s) - p) /\ p + (i - Len(a)) = i + 1 /\ ~(i <= Len(a))
      BY <2>3, <1>1, <1>2
    <3> QED
      BY <2>1, <2>3, <3>1, <1>3, <1>5
  <2> QED
    BY <2>2, <2>3
<1> QED
  BY <1>4, <1>5, <1>6, <1>7

\* Keys that are different, none of which is k, and those of K are first.
Rest(keys, k, K) ==
  /\ keys \in Seq(Key)
  /\ \A i, j \in 1..Len(keys) : keys[i] = keys[j] => i = j
  /\ \A i \in 1..Len(keys) : keys[i] # k
  /\ \A i, j \in 1..Len(keys) : i < j /\ keys[j] \in K => keys[i] \in K

\* A key is taken out of the cache.
LEMMA WithoutOK ==
  ASSUME NEW keys, Cache(keys), NEW k, NEW K, Recent(keys, K)
  PROVE  LET new == Without(keys, k)
         IN  /\ Rest(new, k, K)
             /\ \A x \in K : x # k => \E i \in 1..Len(new) : new[i] = x
             /\ (\A i \in 1..Len(keys) : keys[i] # k) => new = keys
             /\ (\E i \in 1..Len(keys) : keys[i] = k) => Len(new) = Len(keys) - 1
<1>1. keys \in Seq(Key) /\ Len(keys) \in Nat /\ DOMAIN keys = 1..Len(keys)
  BY DEF Cache
<1> DEFINE at == {i \in DOMAIN keys : keys[i] = k}
           new == Without(keys, k)
<1>2. CASE at = {}
  <2>1. new = keys
    BY <1>2 DEF Without
  <2>2. \A i \in 1..Len(keys) : keys[i] # k
    BY <1>1, <1>2
  <2> QED
    BY <1>1, <2>1, <2>2 DEF Cache, Recent, Rest
<1>3. CASE at # {}
  <2> DEFINE p == CHOOSE i \in at : TRUE
  <2>1. p \in 1..Len(keys) /\ keys[p] = k
    BY <1>1, <1>3
  <2>2. new = RemoveAt(keys, p)
    BY <1>3 DEF Without
  <2> HIDE DEF p, new
  <2>3. /\ new \in Seq(Key) /\ Len(new) = Len(keys) - 1
        /\ \A i \in 1..(Len(keys) - 1) : new[i] = IF i < p THEN keys[i] ELSE keys[i + 1]
    BY <1>1, <2>1, <2>2, TakenOut
  <2> DEFINE from(i) == IF i < p THEN i ELSE i + 1
  <2>4. \A i \in 1..Len(new) : from(i) \in 1..Len(keys) /\ from(i) # p /\ new[i] = keys[from(i)]
    BY <1>1, <2>1, <2>3
  <2>5. \A i, j \in 1..Len(new) : (from(i) = from(j) => i = j) /\ (i < j => from(i) < from(j))
    BY <2>1
  <2>6. \A j \in 1..Len(keys) : j # p => \E i \in 1..Len(new) : from(i) = j
    <3> SUFFICES ASSUME NEW j \in 1..Len(keys), j # p PROVE \E i \in 1..Len(new) : from(i) = j
      OBVIOUS
    <3>1. CASE j < p
      <4>1. j \in 1..Len(new) /\ from(j) = j
        BY <3>1, <1>1, <2>1, <2>3
      <4> QED
        BY <4>1
    <3>2. CASE ~(j < p)
      <4>1. j - 1 \in 1..Len(new) /\ from(j - 1) = j
        BY <3>2, <1>1, <2>1, <2>3
      <4> QED
        BY <4>1
    <3> QED
      BY <3>1, <3>2
  <2> HIDE DEF from
  <2>7. Rest(new, k, K)
    <3>1. \A i, j \in 1..Len(new) : new[i] = new[j] => i = j
      BY <2>4, <2>5 DEF Cache
    <3>2. \A i \in 1..Len(new) : new[i] # k
      BY <2>1, <2>4 DEF Cache
    <3>3. \A i, j \in 1..Len(new) : i < j /\ new[j] \in K => new[i] \in K
      BY <2>4, <2>5 DEF Recent
    <3> QED
      BY <2>3, <3>1, <3>2, <3>3 DEF Rest
  <2>8. ASSUME NEW x \in K, x # k PROVE \E i \in 1..Len(new) : new[i] = x
    <3>1. PICK j \in 1..Len(keys) : keys[j] = x
      BY DEF Recent
    <3>2. PICK i \in 1..Len(new) : from(i) = j
      BY <2>1, <2>6, <2>8, <3>1
    <3> QED
      BY <2>4, <3>1, <3>2
  <2> QED
    BY <1>1, <2>1, <2>3, <2>7, <2>8 DEF new
<1> QED
  BY <1>2, <1>3

\* A key that is used is the one used last; the others are as recent as before, but for
\* the one that is evicted.
LEMMA Used ==
  ASSUME Types, NEW kept, NEW k \in Key, NEW K, Rest(kept, k, K), Len(kept) < MAX_FRAME_CACHE_SIZE,
         \A x \in K : x # k => \E i \in 1..Len(kept) : kept[i] = x
  PROVE  Cache(<<k>> \o kept) /\ Recent(<<k>> \o kept, K \cup {k})
<1> DEFINE new == <<k>> \o kept
<1>1. kept \in Seq(Key) /\ Len(kept) \in Nat
  BY DEF Rest
<1>2. /\ new \in Seq(Key) /\ Len(new) = Len(kept) + 1 /\ new[1] = k
      /\ \A i \in 2..(Len(kept) + 1) : new[i] = kept[i - 1]
  BY <1>1, Fronted
<1> HIDE DEF new
<1>3. \A i \in 1..Len(new) : i = 1 \/ (i \in 2..(Len(kept) + 1) /\ i - 1 \in 1..Len(kept))
  BY <1>1, <1>2
<1>4. \A i, j \in 1..Len(new) : new[i] = new[j] => i = j
  BY <1>2, <1>3 DEF Rest
<1>5. Len(new) <= MAX_FRAME_CACHE_SIZE
  <2> DEFINE l == Len(kept)
             m == MAX_FRAME_CACHE_SIZE
  <2>1. l \in Nat /\ m \in Nat /\ l < m /\ Len(new) = l + 1
    BY <1>1, <1>2, Sizes
  <2> QED
    BY <2>1
<1>6. ASSUME NEW x \in K \cup {k} PROVE \E i \in 1..Len(new) : new[i] = x
  <2>1. CASE x = k
    <3>1. 1 \in 1..Len(new)
      BY <1>1, <1>2
    <3> QED
      BY <2>1, <3>1, <1>2
  <2>2. CASE x # k
    <3>1. PICK i \in 1..Len(kept) : kept[i] = x
      BY <2>2
    <3>2. i + 1 \in 1..Len(new) /\ i + 1 \in 2..(Len(kept) + 1) /\ (i + 1) - 1 = i
      BY <1>1, <1>2
    <3> QED
      BY <3>1, <3>2, <1>2
  <2> QED
    BY <2>1, <2>2
<1>7. ASSUME NEW i \in 1..Len(new), NEW j \in 1..Len(new), i < j, new[j] \in K \cup {k}
      PROVE  new[i] \in K \cup {k}
  <2>1. CASE i = 1
    BY <2>1, <1>2
  <2>2. CASE i # 1
    <3>1. j # 1 /\ i - 1 < j - 1
      BY <1>7, <2>2
    <3>2. new[i] = kept[i - 1] /\ new[j] = kept[j - 1] /\ i - 1 \in 1..Len(kept) /\ j - 1 \in 1..Len(kept)
      BY <1>2, <1>3, <2>2, <3>1
    <3>3. kept[j - 1] \in K
      BY <1>7, <3>2 DEF Rest
    <3> QED
      BY <3>1, <3>2, <3>3 DEF Rest
  <2> QED
    BY <2>1, <2>2
<1> QED
  BY <1>2, <1>4, <1>5, <1>6, <1>7 DEF Cache, Recent, new

\* A key is looked for or stored.  While there is room for all those of K and the key
\* itself, what is evicted is none of them.
LEMMA TouchOK ==
  ASSUME Types, NEW m, Cache(m.cache), NEW k \in Key, NEW K, IsFiniteSet(K), Recent(m.cache, K),
         Cardinality(K \cup {k}) <= MAX_FRAME_CACHE_SIZE
  PROVE  LET n == Touch(m, k)
         IN  /\ Cache(n.cache) /\ Recent(n.cache, K \cup {k})
             /\ \E E \in SUBSET Key :
                  /\ E \cap (K \cup {k}) = {}
                  /\ n = [cache |-> n.cache, native |-> Kill(m.native, E), py |-> Kill(m.py, E)]
<1> DEFINE kept    == Without(m.cache, k)
           full    == Len(kept) = MAX_FRAME_CACHE_SIZE
           evicted == IF full THEN {Last(kept)} ELSE {}
           left    == IF evicted = {} THEN kept ELSE Front(kept)
           n == [cache |-> <<k>> \o left, native |-> Kill(m.native, evicted), py |-> Kill(m.py, evicted)]
           M == MAX_FRAME_CACHE_SIZE
<1>1. Touch(m, k) = n
  BY DEF Touch
<1>2. /\ Rest(kept, k, K) /\ \A x \in K : x # k => \E i \in 1..Len(kept) : kept[i] = x
      /\ (\A i \in 1..Len(m.cache) : m.cache[i] # k) => kept = m.cache
      /\ (\E i \in 1..Len(m.cache) : m.cache[i] = k) => Len(kept) = Len(m.cache) - 1
  <2> DEFINE keys == m.cache
  <2>1. Cache(keys) /\ Recent(keys, K)
    OBVIOUS
  <2>2. kept = Without(keys, k)
    OBVIOUS
  <2> HIDE DEF kept, keys
  <2>3. /\ Rest(kept, k, K)
        /\ \A x \in K : x # k => \E i \in 1..Len(kept) : kept[i] = x
        /\ (\A i \in 1..Len(keys) : keys[i] # k) => kept = keys
        /\ (\E i \in 1..Len(keys) : keys[i] = k) => Len(kept) = Len(keys) - 1
    BY <2>1, <2>2, WithoutOK
  <2> QED
    BY <2>3 DEF keys
<1>3. M \in Nat /\ M >= 4 /\ Len(m.cache) \in Nat /\ Len(m.cache) <= M
  BY Sizes DEF Cache
<1> HIDE DEF kept, M
<1>4. kept \in Seq(Key) /\ Len(kept) \in Nat
  BY <1>2 DEF Rest
<1>5. Len(kept) <= M
  BY <1>2, <1>3
<1>6. CASE ~(Len(kept) = M)
  <2>1. evicted = {} /\ left = kept
    BY <1>6 DEF M
  <2>2. Len(kept) < M
    BY <1>3, <1>4, <1>5, <1>6
  <2>3. Cache(<<k>> \o kept) /\ Recent(<<k>> \o kept, K \cup {k})
    BY <1>2, <2>2, Used DEF M
  <2>4. n.cache = <<k>> \o kept
    BY <2>1
  <2>5. {} \cap (K \cup {k}) = {} /\ {} \in SUBSET Key
    OBVIOUS
  <2>6. n = [cache |-> n.cache, native |-> Kill(m.native, {}), py |-> Kill(m.py, {})]
    BY <2>1
  <2> HIDE DEF n
  <2> QED
    BY <1>1, <2>3, <2>4, <2>5, <2>6
<1>7. CASE Len(kept) = M
  <2> DEFINE e == kept[M]
             front == SubSeq(kept, 1, M - 1)
  <2>1. evicted = {e} /\ left = front
    BY <1>7 DEF M, Last, Front
  <2>2. e \in Key /\ M \in 1..Len(kept) /\ \A i \in 1..M : i \in 1..Len(kept)
    BY <1>3, <1>4, <1>7
  <2>3. kept = m.cache /\ \A i \in 1..Len(m.cache) : m.cache[i] # k
    BY <1>2, <1>3, <1>7
  <2>4. k \notin K
    BY <2>3 DEF Recent
  <2>5. e # k
    BY <1>2, <2>2 DEF Rest
  <2>6. e \notin K
    <3> SUFFICES ASSUME e \in K PROVE FALSE
      OBVIOUS
    <3>1. \A i \in 1..M : kept[i] \in K
      BY <1>2, <1>3, <2>2 DEF Rest
    <3> DEFINE f == [i \in 1..M |-> kept[i]]
    <3>2. f \in Injection(1..M, K)
      BY <1>2, <2>2, <3>1 DEF Injection, IsInjective, Rest
    <3> HIDE DEF f
    <3>3. Cardinality(1..M) <= Cardinality(K)
      BY <3>2, FS_Injection
    <3>4. Cardinality(1..M) = M
      BY <1>3, FS_Interval
    <3>5. Cardinality(K \cup {k}) = Cardinality(K) + 1 /\ Cardinality(K) \in Nat
      BY <2>4, FS_AddElement, FS_CardinalityType
    <3>6. Cardinality(K \cup {k}) <= M
      BY DEF M
    <3> QED
      BY <1>3, <3>3, <3>4, <3>5, <3>6
  <2>7. front \in Seq(Key) /\ Len(front) = M - 1 /\ \A i \in 1..(M - 1) : front[i] = kept[i]
    BY <1>3, <1>4, <1>7, SubSeqProperties
  <2> HIDE DEF front, e
  <2>8. \A i \in 1..(M - 1) : i \in 1..Len(kept) /\ i # M
    BY <1>3, <1>7
  <2>9. Rest(front, k, K)
    BY <1>2, <2>7, <2>8 DEF Rest
  <2>10. ASSUME NEW x \in K, x # k PROVE \E i \in 1..Len(front) : front[i] = x
    <3>1. PICK i \in 1..Len(kept) : kept[i] = x
      BY <1>2, <2>10
    <3>2. i # M
      BY <2>6, <3>1 DEF e
    <3>3. i \in 1..(M - 1)
      BY <1>3, <1>7, <3>2
    <3> QED
      BY <2>7, <3>1, <3>3
  <2>11. Len(front) < M
    BY <1>3, <2>7
  <2>12. Cache(<<k>> \o front) /\ Recent(<<k>> \o front, K \cup {k})
    BY <2>9, <2>10, <2>11, Used DEF M
  <2>13. n.cache = <<k>> \o front
    BY <2>1
  <2>14. n = [cache |-> n.cache, native |-> Kill(m.native, {e}), py |-> Kill(m.py, {e})]
    BY <2>1
  <2>15. {e} \cap (K \cup {k}) = {} /\ {e} \in SUBSET Key
    BY <2>2, <2>5, <2>6
  <2> HIDE DEF n
  <2> QED
    BY <1>1, <2>12, <2>13, <2>14, <2>15
<1> QED
  BY <1>6, <1>7

\* What is evicted takes the life of the frames that point to it, and no more.
LEMMA KillOK ==
  ASSUME NEW stack \in Seq(Pointed), NEW E
  PROVE  LET new == Kill(stack, E)
         IN  /\ new \in Seq(Pointed) /\ Len(new) = Len(stack)
             /\ \A i \in 1..Len(stack) :
                  /\ new[i].key = stack[i].key /\ new[i].left = stack[i].left
                  /\ new[i].live <=> stack[i].live /\ stack[i].key \notin E
<1> DEFINE T == Pointed
           new == Kill(stack, E)
<1>1. Len(stack) \in Nat /\ DOMAIN stack = 1..Len(stack) /\ \A i \in 1..Len(stack) : stack[i] \in T
  <2>1. stack \in Seq(T)
    OBVIOUS
  <2> HIDE DEF T
  <2> QED
    BY <2>1
<1>2. new = [i \in 1..Len(stack) |-> [stack[i] EXCEPT !.live = @ /\ stack[i].key \notin E]]
  BY <1>1 DEF Kill
<1>3. ASSUME NEW i \in 1..Len(stack)
      PROVE  LET x == [stack[i] EXCEPT !.live = @ /\ stack[i].key \notin E]
             IN  /\ x \in T /\ x.key = stack[i].key /\ x.left = stack[i].left
                 /\ x.live <=> stack[i].live /\ stack[i].key \notin E
  <2>1. stack[i] \in T
    BY <1>1
  <2> QED
    BY <2>1 DEF Pointed
<1>4. new \in [1..Len(stack) -> T] /\ \A i \in 1..Len(stack) : new[i] = [stack[i] EXCEPT !.live = @ /\ stack[i].key \notin E]
  BY <1>2, <1>3
<1> HIDE DEF new, T
<1>5. new \in Seq(T) /\ Len(new) = Len(stack)
  BY <1>1, <1>4
<1> QED
  BY <1>3, <1>4, <1>5 DEF T, new

-------------------------------------------------------------------------------
(* The native stack. *)

\* A stack refers to no more frames than it has elements.
LEMMA KeysFinite ==
  ASSUME NEW stack, Len(stack) \in Nat
  PROVE  IsFiniteSet(Keys(stack)) /\ Cardinality(Keys(stack)) \in Nat /\ Cardinality(Keys(stack)) <= Len(stack)
<1> DEFINE K == {stack[i].key : i \in 1..Len(stack)}
           f == [i \in 1..Len(stack) |-> stack[i].key]
<1>1. f \in Surjection(1..Len(stack), K)
  BY DEF Surjection
<1>2. IsFiniteSet(1..Len(stack)) /\ Cardinality(1..Len(stack)) = Len(stack)
  <2>1. 0 \in Int /\ 1 \in Int /\ Len(stack) \in Int
    OBVIOUS
  <2>2. /\ IsFiniteSet(1..Len(stack))
        /\ Cardinality(1..Len(stack)) = IF 1 > Len(stack) THEN 0 ELSE Len(stack) - 1 + 1
    BY <2>1, FS_Interval
  <2> DEFINE l == Len(stack)
             c == Cardinality(1..Len(stack))
  <2>3. l \in Nat /\ c = IF 1 > l THEN 0 ELSE l - 1 + 1
    BY <2>2
  <2> HIDE DEF l, c
  <2>4. c = l
    BY <2>3
  <2> QED
    BY <2>2, <2>4 DEF c, l
<1> HIDE DEF f, K
<1>3. IsFiniteSet(K) /\ Cardinality(K) <= Len(stack)
  BY <1>1, <1>2, FS_Surjection
<1>4. Keys(stack) \in SUBSET K
  BY DEF Keys, K
<1>5. IsFiniteSet(Keys(stack)) /\ Cardinality(Keys(stack)) <= Cardinality(K)
  BY <1>3, <1>4, FS_Subset
<1>6. Cardinality(Keys(stack)) \in Nat /\ Cardinality(K) \in Nat
  BY <1>3, <1>5, FS_CardinalityType
<1> QED
  BY <1>3, <1>5, <1>6

\* What libunwind steps through.
LEMMA CountersOK ==
  ASSUME Types
  PROVE  /\ Len(real) \in Nat
         /\ \A n \in 1..Len(real) : /\ Len(real) - n + 1 \in 1..Len(real)
                                    /\ Counters[n] = real[Len(real) - n + 1].key /\ Counters[n] \in Counter
<1>1. real \in Seq(Call) /\ Len(real) \in Nat /\ DOMAIN real = 1..Len(real)
  BY DEF Types
<1>2. ASSUME NEW n \in 1..Len(real)
      PROVE  /\ Len(real) - n + 1 \in 1..Len(real)
             /\ Counters[n] = real[Len(real) - n + 1].key /\ Counters[n] \in Counter
  <2>1. Len(real) - n + 1 \in 1..Len(real)
    BY <1>1
  <2>2. Counters[n] = Reverse(real)[n].key
    BY <1>1 DEF Counters
  <2>3. Reverse(real)[n] = real[Len(real) - n + 1]
    BY DEF Reverse
  <2>4. real[Len(real) - n + 1] \in Call
    BY <1>1, <2>1
  <2> QED
    BY <2>1, <2>2, <2>3, <2>4 DEF Call
<1> QED
  BY <1>1, <1>2

\* The frames are pushed one after the other.
LEMMA UnwoundIs ==
  ASSUME Types
  PROVE  /\ Unwound[0] = [Memory EXCEPT !.native = <<>>]
         /\ \A n \in 1..Len(real) : Unwound[n] = NativePush(Unwound[n - 1], Counters[n])
<1> DEFINE none == [Memory EXCEPT !.native = <<>>]
           Is(k, g) == g = [n \in 0..k |-> IF n = 0 THEN none ELSE NativePush(g[n - 1], Counters[n])]
           Short == {k \in Nat : ~\E g : Is(k, g)}
<1> HIDE DEF Is, none
<1>1. Short = {}
  <2> SUFFICES ASSUME Short # {} PROVE FALSE
    OBVIOUS
  <2>1. PICK m \in Short : \A n \in Short : m <= n
    BY Least
  <2>2. m \in Nat /\ m # 0
    <3>1. Is(0, [n \in 0..0 |-> none])
      BY DEF Is
    <3> QED
      BY <2>1, <3>1
  <2>3. m - 1 \in Nat /\ m - 1 \notin Short
    <3> HIDE DEF Short
    <3> QED
      BY <2>1, <2>2
  <2>4. PICK g : Is(m - 1, g)
    BY <2>3
  <2> DEFINE h == [n \in 0..m |-> IF n < m THEN g[n] ELSE NativePush(g[n - 1], Counters[n])]
  <2> HIDE DEF Short
  <2>5. \A n \in 0..m : n # 0 => h[n - 1] = g[n - 1]
    BY <2>2
  <2>6. \A n \in 0..m : h[n] = IF n = 0 THEN none ELSE NativePush(g[n - 1], Counters[n])
    BY <2>2, <2>4 DEF Is
  <2>7. Is(m, h)
    <3>1. h = [n \in 0..m |-> h[n]]
      OBVIOUS
    <3> HIDE DEF h
    <3>2. \A n \in 0..m : h[n] = IF n = 0 THEN none ELSE NativePush(h[n - 1], Counters[n])
      BY <2>5, <2>6
    <3> QED
      BY <3>1, <3>2 DEF Is
  <2> QED
    BY <2>1, <2>7 DEF Short
<1>2. Len(real) \in Nat /\ \E g : Is(Len(real), g)
  BY <1>1, CountersOK
<1>3. Unwound = [n \in 0..Len(real) |-> IF n = 0 THEN none ELSE NativePush(Unwound[n - 1], Counters[n])]
  BY <1>2 DEF Unwound, Is, none
<1>4. \A n \in 0..Len(real) : Unwound[n] = IF n = 0 THEN none ELSE NativePush(Unwound[n - 1], Counters[n])
  BY <1>3
<1>5. 0 \in 0..Len(real) /\ \A n \in 1..Len(real) : n \in 0..Len(real) /\ n # 0
  BY <1>2
<1> QED
  BY <1>4, <1>5 DEF none

\* After n native frames: they are live, they are those used last, and what an earlier
\* sample has left on the other stack is there as before.
NativeDone(u, n) ==
  /\ u = [cache |-> u.cache, native |-> u.native, py |-> u.py]
  /\ Cache(u.cache) /\ Recent(u.cache, Keys(u.native))
  /\ u.native \in Seq(Pointed) /\ Len(u.native) = n /\ AllLive(u.native)
  /\ \A i \in 1..n : u.native[i].key = Counters[i]
  /\ u.py \in Seq(Pointed) /\ Len(u.py) = Len(py) /\ AllLeft(u.py)
  /\ \A i \in 1..Len(py) : u.py[i].key = py[i].key

LEMMA NativePushOK ==
  ASSUME Types, NEW n \in 1..Len(real), n <= MAX_STACK_SIZE, NEW u, NativeDone(u, n - 1)
  PROVE  NativeDone(NativePush(u, Counters[n]), n)
<1> DEFINE k == Counters[n]
           K == Keys(u.native)
           t == Touch(u, k)
<1>1. k \in Counter /\ k \in Key /\ k # CFRAME_MAGIC
  BY CountersOK, KeyAssumption DEF Key
<1>2. /\ Cache(u.cache) /\ Recent(u.cache, K) /\ u.native \in Seq(Pointed) /\ Len(u.native) = n - 1
      /\ n \in Nat /\ n - 1 \in Nat
  BY CountersOK DEF NativeDone
<1>3. IsFiniteSet(K) /\ Cardinality(K) \in Nat /\ Cardinality(K) <= n - 1
  BY <1>2, KeysFinite
<1>4. Cardinality(K \cup {k}) <= MAX_FRAME_CACHE_SIZE
  <2>1. Cardinality(K \cup {k}) \in {Cardinality(K), Cardinality(K) + 1}
    BY <1>3, FS_AddElement
  <2>2. MAX_STACK_SIZE \in Nat /\ MAX_FRAME_CACHE_SIZE = 2 * MAX_STACK_SIZE
    BY Sizes
  <2> QED
    BY <1>2, <1>3, <2>1, <2>2
<1> HIDE DEF k, K
<1>5. /\ Cache(t.cache) /\ Recent(t.cache, K \cup {k})
      /\ \E E \in SUBSET Key :
           /\ E \cap (K \cup {k}) = {}
           /\ t = [cache |-> t.cache, native |-> Kill(u.native, E), py |-> Kill(u.py, E)]
  BY <1>1, <1>2, <1>3, <1>4, TouchOK
<1>6. PICK E \in SUBSET Key :
        /\ E \cap (K \cup {k}) = {}
        /\ t = [cache |-> t.cache, native |-> Kill(u.native, E), py |-> Kill(u.py, E)]
  BY <1>5
<1> DEFINE alive == Kill(u.native, E)
           other == Kill(u.py, E)
           new   == Append(alive, Pointer(k))
<1>7. NativePush(u, k) = [cache |-> t.cache, native |-> new, py |-> other]
  <2>1. NativePush(u, k) = [t EXCEPT !.native = Append(@, Pointer(k))]
    BY DEF NativePush
  <2> DEFINE c == t.cache
             pointer == Pointer(k)
             rest == Append(alive, pointer)
  <2>2. t = [cache |-> c, native |-> alive, py |-> other]
    BY <1>6
  <2> HIDE DEF t, alive, other, c, pointer
  <2>3. t.native = alive
    BY <2>2
  <2>4. NativePush(u, k) = [t EXCEPT !.native = rest]
    BY <2>1, <2>3 DEF pointer
  <2> HIDE DEF rest
  <2>5. NativePush(u, k) = [cache |-> c, native |-> rest, py |-> other]
    BY <2>2, <2>4
  <2> QED
    BY <2>5 DEF rest, c, pointer
<1>8. /\ alive \in Seq(Pointed) /\ Len(alive) = n - 1
      /\ \A i \in 1..(n - 1) : /\ alive[i].key = u.native[i].key /\ alive[i].left = u.native[i].left
                               /\ alive[i].live <=> u.native[i].live /\ u.native[i].key \notin E
  BY <1>2, KillOK
<1>9. /\ other \in Seq(Pointed) /\ Len(other) = Len(u.py)
      /\ \A i \in 1..Len(u.py) : other[i].key = u.py[i].key /\ other[i].left = u.py[i].left
  <2>1. u.py \in Seq(Pointed)
    BY DEF NativeDone
  <2> QED
    BY <2>1, KillOK
<1>10. Pointer(k) \in Pointed /\ Pointer(k).key = k /\ Pointer(k).live /\ ~Pointer(k).left
  BY <1>1 DEF Pointer, Pointed
<1> HIDE DEF alive, other, t
<1>11. /\ new \in Seq(Pointed) /\ Len(new) = n /\ new[n] = Pointer(k)
       /\ \A i \in 1..(n - 1) : new[i] = alive[i]
  BY <1>2, <1>8, <1>10
<1> HIDE DEF new
<1>12. \A i \in 1..n : i = n \/ i \in 1..(n - 1)
  BY <1>2
<1>13. \A i \in 1..(n - 1) : u.native[i].key \notin E /\ u.native[i].live /\ ~u.native[i].left
  <2> SUFFICES ASSUME NEW i \in 1..(n - 1) PROVE u.native[i].key \notin E /\ u.native[i].live /\ ~u.native[i].left
    OBVIOUS
  <2>1. u.native[i].live /\ ~u.native[i].left
    BY <1>2 DEF NativeDone, AllLive
  <2>2. u.native[i].key \in K \/ u.native[i].key = CFRAME_MAGIC
    BY <1>2 DEF K, Keys
  <2>3. CFRAME_MAGIC \notin E
    BY KeyAssumption DEF Key
  <2> QED
    BY <1>6, <2>1, <2>2, <2>3
<1>14. AllLive(new)
  BY <1>8, <1>10, <1>11, <1>12, <1>13 DEF AllLive
<1>15. \A i \in 1..n : new[i].key = Counters[i]
  BY <1>8, <1>10, <1>11, <1>12 DEF NativeDone, k
<1>16. Keys(new) = K \cup {k}
  <2>1. \A i \in 1..(n - 1) : i \in 1..n /\ new[i].key = u.native[i].key
    BY <1>2, <1>8, <1>11
  <2>2. n \in 1..n /\ new[n].key = k
    BY <1>2, <1>10, <1>11
  <2>3. \A x : (\E i \in 1..n : new[i].key = x) <=> x = k \/ \E i \in 1..(n - 1) : u.native[i].key = x
    BY <1>12, <2>1, <2>2
  <2>4. Keys(new) = {new[i].key : i \in 1..n} \ {CFRAME_MAGIC}
    BY <1>11 DEF Keys
  <2>5. K = {u.native[i].key : i \in 1..(n - 1)} \ {CFRAME_MAGIC}
    BY <1>2 DEF K, Keys
  <2> QED
    BY <1>1, <2>3, <2>4, <2>5
<1>17. Len(other) = Len(py) /\ AllLeft(other) /\ \A i \in 1..Len(py) : other[i].key = py[i].key
  BY <1>9 DEF NativeDone, AllLeft
<1> DEFINE result == NativePush(u, k)
<1>18. result.cache = t.cache /\ result.native = new /\ result.py = other
  BY <1>7
<1>19. result = [cache |-> result.cache, native |-> result.native, py |-> result.py]
  BY <1>7, <1>18
<1> HIDE DEF result
<1>20. NativeDone(result, n)
  BY <1>5, <1>9, <1>11, <1>14, <1>15, <1>16, <1>17, <1>18, <1>19 DEF NativeDone
<1> QED
  BY <1>20 DEF result, k

LEMMA NativeOK ==
  ASSUME Types, Cache(cache), AllLeft(py), NEW n \in 0..Len(real), n <= MAX_STACK_SIZE
  PROVE  NativeDone(Unwound[n], n)
<1> DEFINE Wrong == {i \in Nat : i <= n /\ ~NativeDone(Unwound[i], i)}
<1>1. n \in Nat /\ Len(real) \in Nat /\ MAX_STACK_SIZE \in Nat
  BY CountersOK, Sizes
<1>2. NativeDone(Unwound[0], 0)
  <2>1. Unwound[0] = [cache |-> cache, native |-> <<>>, py |-> py]
    BY UnwoundIs DEF Memory
  <2>2. Keys(<<>>) = {}
    BY DEF Keys
  <2>3. Recent(cache, {})
    BY DEF Recent
  <2>4. <<>> \in Seq(Pointed) /\ Len(<<>>) = 0 /\ AllLive(<<>>) /\ py \in Seq(Pointed)
    BY DEF AllLive, Types
  <2> DEFINE u == Unwound[0]
  <2>5. u.cache = cache /\ u.native = <<>> /\ u.py = py /\ u = [cache |-> u.cache, native |-> u.native, py |-> u.py]
    BY <2>1
  <2> HIDE DEF u
  <2>6. Cache(u.cache) /\ Recent(u.cache, Keys(u.native))
    BY <2>2, <2>3, <2>5
  <2>7. u.native \in Seq(Pointed) /\ Len(u.native) = 0 /\ AllLive(u.native) /\ \A i \in 1..0 : u.native[i].key = Counters[i]
    BY <2>4, <2>5
  <2>8. /\ u.py \in Seq(Pointed) /\ Len(u.py) = Len(py) /\ AllLeft(u.py)
        /\ \A i \in 1..Len(py) : u.py[i].key = py[i].key
    BY <2>4, <2>5
  <2>9. NativeDone(u, 0)
    BY <2>5, <2>6, <2>7, <2>8 DEF NativeDone
  <2> QED
    BY <2>9 DEF u
<1>3. Wrong = {}
  <2> SUFFICES ASSUME Wrong # {} PROVE FALSE
    OBVIOUS
  <2>1. PICK i \in Wrong : \A j \in Wrong : i <= j
    BY Least
  <2>2. i \in 1..Len(real) /\ i <= MAX_STACK_SIZE
    BY <1>1, <1>2, <2>1
  <2>3. i - 1 \in Nat /\ i - 1 <= n /\ i - 1 \notin Wrong
    <3>1. i - 1 \in Nat /\ i - 1 <= n /\ ~(i <= i - 1)
      BY <1>1, <2>1, <2>2
    <3> QED
      BY <2>1, <3>1
  <2>4. NativeDone(Unwound[i - 1], i - 1)
    BY <2>3
  <2>5. NativeDone(Unwound[i], i)
    BY <2>2, <2>4, UnwoundIs, NativePushOK
  <2> QED
    BY <2>1, <2>5
<1> QED
  BY <1>1, <1>3

-------------------------------------------------------------------------------
(* The Python stack. *)

\* What is pushed: frames and markers that are live and of this sample.
Fresh == {p \in Pointed : p.live /\ ~p.left}

\* What one frame pushes: one element, or itself and a marker in 3.11.
Push == {s \in Seq(Fresh) : Len(s) = 1 \/ (version = 311 /\ Len(s) = 2 /\ s[2].key = CFRAME_MAGIC)}

\* Within the array, but for the marker of 3.11.
Fits(stack) ==
  \/ Len(stack) <= MAX_STACK_SIZE
  \/ version = 311 /\ Len(stack) = MAX_STACK_SIZE + 1 /\ stack[Len(stack)].key = CFRAME_MAGIC

\* Sequences are joined one after the other.
LEMMA JoinedIs ==
  ASSUME NEW seqs, Len(seqs) \in Nat
  PROVE  /\ Joined(seqs)[0] = <<>>
         /\ \A n \in 1..Len(seqs) : Joined(seqs)[n] = Joined(seqs)[n - 1] \o seqs[n]
<1> DEFINE Is(k, g) == g = [n \in 0..k |-> IF n = 0 THEN <<>> ELSE g[n - 1] \o seqs[n]]
           Short == {k \in Nat : ~\E g : Is(k, g)}
<1> HIDE DEF Is
<1>1. Short = {}
  <2> SUFFICES ASSUME Short # {} PROVE FALSE
    OBVIOUS
  <2>1. PICK m \in Short : \A n \in Short : m <= n
    BY Least
  <2>2. m \in Nat /\ m # 0
    <3>1. Is(0, [n \in 0..0 |-> <<>>])
      BY DEF Is
    <3> QED
      BY <2>1, <3>1
  <2>3. m - 1 \in Nat /\ m - 1 \notin Short
    <3> HIDE DEF Short
    <3> QED
      BY <2>1, <2>2
  <2>4. PICK g : Is(m - 1, g)
    BY <2>3
  <2> DEFINE h == [n \in 0..m |-> IF n < m THEN g[n] ELSE g[n - 1] \o seqs[n]]
  <2> HIDE DEF Short
  <2>5. \A n \in 0..m : n # 0 => h[n - 1] = g[n - 1]
    BY <2>2
  <2>6. \A n \in 0..m : h[n] = IF n = 0 THEN <<>> ELSE g[n - 1] \o seqs[n]
    BY <2>2, <2>4 DEF Is
  <2>7. Is(m, h)
    <3>1. h = [n \in 0..m |-> h[n]]
      OBVIOUS
    <3> HIDE DEF h
    <3>2. \A n \in 0..m : h[n] = IF n = 0 THEN <<>> ELSE h[n - 1] \o seqs[n]
      BY <2>5, <2>6
    <3> QED
      BY <3>1, <3>2 DEF Is
  <2> QED
    BY <2>1, <2>7 DEF Short
<1>2. \E g : Is(Len(seqs), g)
  BY <1>1
<1> DEFINE G == Joined(seqs)
<1>3. Is(Len(seqs), G)
  BY <1>2 DEF Joined, Is
<1> HIDE DEF G
<1>4. G = [n \in 0..Len(seqs) |-> IF n = 0 THEN <<>> ELSE G[n - 1] \o seqs[n]]
  BY <1>3 DEF Is
<1>5. \A n \in 0..Len(seqs) : G[n] = IF n = 0 THEN <<>> ELSE G[n - 1] \o seqs[n]
  BY <1>4
<1>6. 0 \in 0..Len(seqs) /\ \A n \in 1..Len(seqs) : n \in 0..Len(seqs) /\ n # 0
  OBVIOUS
<1>7. G[0] = <<>> /\ \A n \in 1..Len(seqs) : G[n] = G[n - 1] \o seqs[n]
  BY <1>5, <1>6
<1> QED
  BY <1>7 DEF G

\* What is joined has the elements of the sequences.
LEMMA JoinedType ==
  ASSUME NEW T, NEW seqs \in Seq(Seq(T)), NEW n \in 0..Len(seqs)
  PROVE  Joined(seqs)[n] \in Seq(T)
<1> DEFINE G == Joined(seqs)
           Wrong == {i \in Nat : i <= n /\ G[i] \notin Seq(T)}
<1>1. Len(seqs) \in Nat /\ n \in Nat /\ \A i \in 1..Len(seqs) : seqs[i] \in Seq(T)
  OBVIOUS
<1>2. G[0] = <<>> /\ \A i \in 1..Len(seqs) : G[i] = G[i - 1] \o seqs[i]
  BY <1>1, JoinedIs
<1> HIDE DEF G
<1>3. Wrong = {}
  <2> SUFFICES ASSUME Wrong # {} PROVE FALSE
    OBVIOUS
  <2>1. PICK i \in Wrong : \A j \in Wrong : i <= j
    BY Least
  <2>2. <<>> \in Seq(T)
    OBVIOUS
  <2>3. i \in 1..Len(seqs)
    <3>1. i \in Nat /\ i <= n /\ G[i] \notin Seq(T)
      BY <2>1
    <3>2. i # 0
      BY <1>2, <2>2, <3>1
    <3>3. n <= Len(seqs)
      BY <1>1
    <3> HIDE DEF Wrong
    <3> QED
      BY <1>1, <3>1, <3>2, <3>3
  <2>4. i - 1 \in Nat /\ i - 1 <= n /\ i - 1 \notin Wrong
    <3>1. i - 1 \in Nat /\ i - 1 <= n /\ ~(i <= i - 1)
      BY <1>1, <2>1, <2>3
    <3> QED
      BY <2>1, <3>1
  <2>5. G[i - 1] \in Seq(T) /\ seqs[i] \in Seq(T)
    BY <1>1, <2>3, <2>4
  <2>6. G[i - 1] \o seqs[i] \in Seq(T)
    <3> DEFINE a == G[i - 1]
               b == seqs[i]
    <3>1. a \in Seq(T) /\ b \in Seq(T)
      BY <2>5
    <3> HIDE DEF a, b
    <3>2. a \o b \in Seq(T)
      BY <3>1, ConcatProperties
    <3> QED
      BY <3>2 DEF a, b
  <2> QED
    BY <1>2, <2>1, <2>3, <2>6
<1> QED
  BY <1>1, <1>3 DEF G

\* What the frames of a call push.
LEMMA RunPushesOK ==
  ASSUME Types, NEW call \in Call
  PROVE  RunPushes(call) \in Seq(Push)
<1>1. call.run \in Seq(Frame) /\ Len(call.run) \in Nat /\ DOMAIN call.run = 1..Len(call.run)
  BY DEF Call
<1>2. Marker \in Fresh /\ Marker.key = CFRAME_MAGIC
  BY DEF Marker, Fresh, Pointed
<1>3. \A f \in Frame : Pointer(f) \in Fresh
  BY DEF Pointer, Fresh, Pointed, Key
<1> DEFINE run == [i \in DOMAIN call.run |-> <<Pointer(call.run[i])>>]
           R == Len(call.run)
<1>4. \A x \in Fresh : <<x>> \in Push
  <2> SUFFICES ASSUME NEW x \in Fresh PROVE <<x>> \in Push
    OBVIOUS
  <2>1. <<x>> \in Seq(Fresh) /\ Len(<<x>>) = 1
    OBVIOUS
  <2> QED
    BY <2>1 DEF Push
<1>5. \A i \in 1..R : Pointer(call.run[i]) \in Fresh /\ <<Pointer(call.run[i])>> \in Push
  BY <1>1, <1>3, <1>4
<1>6. run \in Seq(Push) /\ Len(run) = R /\ \A i \in 1..R : run[i] = <<Pointer(call.run[i])>>
  BY <1>1, <1>5
<1>7. RunPushes(call) = CASE version = 310 -> run
                          [] version = 311 -> IF run = <<>> THEN run ELSE [run EXCEPT ![Len(run)] = Append(@, Marker)]
                          [] version = 312 -> IF run = <<>> /\ ~call.shim THEN run ELSE Append(run, <<Marker>>)
  BY DEF RunPushes
<1> HIDE DEF run, R
<1>8. CASE version = 310
  BY <1>6, <1>7, <1>8
<1>9. CASE version = 311
  <2>1. CASE run = <<>>
    BY <1>6, <1>7, <1>9, <2>1
  <2>2. CASE run # <<>>
    <3> DEFINE x == Pointer(call.run[R])
               s == Append(<<x>>, Marker)
    <3>1. R \in Nat /\ R >= 1 /\ R \in 1..Len(run)
      BY <1>1, <1>6, <2>2 DEF R
    <3>2. x \in Fresh /\ run[R] = <<x>>
      BY <1>5, <1>6, <3>1
    <3> HIDE DEF x
    <3>3. s \in Seq(Fresh) /\ Len(s) = 2 /\ s[2] = Marker
      BY <1>2, <3>2
    <3> HIDE DEF s
    <3>4. s \in Push
      BY <1>2, <1>9, <3>3 DEF Push
    <3>5. RunPushes(call) = [run EXCEPT ![R] = s]
      BY <1>6, <1>7, <1>9, <2>2, <3>1, <3>2 DEF s
    <3> QED
      BY <1>6, <3>1, <3>4, <3>5
  <2> QED
    BY <2>1, <2>2
<1>10. CASE version = 312
  <2>1. <<Marker>> \in Push
    BY <1>2, <1>4
  <2> DEFINE s == <<Marker>>
  <2>2. RunPushes(call) = IF run = <<>> /\ ~call.shim THEN run ELSE Append(run, s)
    BY <1>7, <1>10
  <2> HIDE DEF s
  <2> QED
    BY <1>6, <2>1, <2>2 DEF s
<1> QED
  BY <1>8, <1>9, <1>10, Sizes

LEMMA ChainOK == ASSUME Types PROVE Chain \in Seq(Push)
<1> DEFINE runs == [i \in DOMAIN real |-> RunPushes(Reverse(real)[i])]
<1>1. real \in Seq(Call) /\ Len(real) \in Nat /\ DOMAIN real = 1..Len(real)
  BY DEF Types
<1>2. ASSUME NEW i \in 1..Len(real) PROVE RunPushes(Reverse(real)[i]) \in Seq(Push)
  <2>1. Reverse(real)[i] = real[Len(real) - i + 1] /\ Len(real) - i + 1 \in 1..Len(real)
    BY <1>1 DEF Reverse
  <2>2. real[Len(real) - i + 1] \in Call
    BY <1>1, <2>1
  <2> QED
    BY <2>1, <2>2, RunPushesOK
<1>3. runs \in Seq(Seq(Push)) /\ Len(runs) = Len(real)
  BY <1>1, <1>2
<1> HIDE DEF runs
<1>4. Joined(runs)[Len(runs)] \in Seq(Push)
  <2>1. Len(runs) \in 0..Len(runs)
    BY <1>1, <1>3
  <2> QED
    BY <1>3, <2>1, JoinedType
<1> QED
  BY <1>4 DEF Chain, All, runs

\* The frames that are walked push no more than fits.
LEMMA PushedIs ==
  ASSUME Types, NEW chain \in Seq(Push)
  PROVE  /\ Pushed(chain, 0) = <<>>
         /\ \A n \in 0..Len(chain) : Pushed(chain, n) \in Seq(Fresh)
         /\ \A n \in 1..Len(chain) : Pushed(chain, n) = Pushed(chain, n - 1) \o chain[n]
<1>1. chain \in Seq(Seq(Fresh)) /\ Len(chain) \in Nat
  <2>1. Push \subseteq Seq(Fresh)
    BY DEF Push
  <2>2. Len(chain) \in Nat /\ \A i \in 1..Len(chain) : chain[i] \in Push
    OBVIOUS
  <2>3. \A i \in 1..Len(chain) : chain[i] \in Seq(Fresh)
    BY <2>1, <2>2
  <2> QED
    BY <2>2, <2>3
<1> QED
  BY <1>1, JoinedIs, JoinedType DEF Pushed

LEMMA WalkedOK ==
  ASSUME Types, NEW chain \in Seq(Push)
  PROVE  /\ Walked(chain) \in 0..Len(chain)
         /\ Walked(chain) = Len(chain) \/ Len(Pushed(chain, Walked(chain))) >= MAX_STACK_SIZE
         /\ \A n \in 0..Walked(chain) : Fits(Pushed(chain, n))
<1> DEFINE full(n) == n = Len(chain) \/ Len(Pushed(chain, n)) >= MAX_STACK_SIZE
           S == {n \in Nat : n <= Len(chain) /\ full(n)}
           w == Walked(chain)
<1>1. Len(chain) \in Nat /\ MAX_STACK_SIZE \in Nat /\ MAX_STACK_SIZE >= 2
  BY Sizes
<1>2. \A n \in 0..Len(chain) : Pushed(chain, n) \in Seq(Fresh) /\ Len(Pushed(chain, n)) \in Nat
  <2>1. \A n \in 0..Len(chain) : Pushed(chain, n) \in Seq(Fresh)
    BY PushedIs, Zenon
  <2>2. \A x \in Seq(Fresh) : Len(x) \in Nat
    OBVIOUS
  <2> QED
    BY <2>1, <2>2
<1>3. PICK m \in S : \A n \in S : m <= n
  <2>1. Len(chain) \in S
    BY <1>1
  <2> QED
    BY <2>1, Least
<1>4. m \in 0..Len(chain) /\ full(m) /\ \A k \in 0..(m - 1) : Len(Pushed(chain, k)) < MAX_STACK_SIZE
  <2>1. m \in 0..Len(chain) /\ full(m)
    BY <1>1, <1>3
  <2>2. ASSUME NEW k \in 0..(m - 1) PROVE Len(Pushed(chain, k)) < MAX_STACK_SIZE
    <3>1. k \in Nat /\ k <= Len(chain) /\ ~(m <= k) /\ k \in 0..Len(chain)
      BY <1>1, <2>1
    <3>2. k \notin S
      BY <1>3, <3>1
    <3>3. ~(Len(Pushed(chain, k)) >= MAX_STACK_SIZE)
      BY <3>1, <3>2
    <3> DEFINE l == Len(Pushed(chain, k))
    <3>4. l \in Nat /\ ~(l >= MAX_STACK_SIZE)
      BY <1>2, <3>1, <3>3
    <3> HIDE DEF l
    <3>5. l < MAX_STACK_SIZE
      BY <1>1, <3>4
    <3> QED
      BY <3>5 DEF l
  <2> QED
    BY <2>1, <2>2
<1>5. w \in 0..Len(chain) /\ full(w) /\ \A k \in 0..(w - 1) : Len(Pushed(chain, k)) < MAX_STACK_SIZE
  BY <1>4 DEF Walked
<1> HIDE DEF w, S, full
<1>6. ASSUME NEW n \in 0..w PROVE Fits(Pushed(chain, n))
  <2>1. CASE n = 0
    <3>1. Pushed(chain, 0) = <<>>
      BY PushedIs, Zenon
    <3>2. Len(Pushed(chain, n)) = 0
      BY <2>1, <3>1
    <3> QED
      BY <1>1, <3>2 DEF Fits
  <2>2. CASE n # 0
    <3> DEFINE a == Pushed(chain, n - 1)
               b == chain[n]
               M == MAX_STACK_SIZE
    <3>1. n \in 1..Len(chain) /\ n - 1 \in 0..(w - 1) /\ n - 1 \in 0..Len(chain)
      BY <1>1, <1>5, <2>2
    <3>2. a \in Seq(Fresh) /\ Len(a) \in Nat /\ Len(a) < M
      BY <1>2, <1>5, <3>1
    <3>3. b \in Push
      BY <3>1
    <3>4. Pushed(chain, n) = a \o b
      BY <3>1, PushedIs
    <3> DEFINE c == Pushed(chain, n)
    <3> HIDE DEF a, b, c
    <3>5. b \in Seq(Fresh)
      BY <3>3 DEF Push
    <3>6. /\ Len(c) = Len(a) + Len(b)
          /\ \A i \in 1..(Len(a) + Len(b)) : c[i] = IF i <= Len(a) THEN a[i] ELSE b[i - Len(a)]
      BY <3>2, <3>4, <3>5, ConcatProperties DEF c
    <3>7. CASE Len(b) = 1
      <4>1. Len(c) <= M
        BY <1>1, <3>2, <3>6, <3>7
      <4> QED
        BY <4>1 DEF Fits, c
    <3>8. CASE version = 311 /\ Len(b) = 2 /\ b[2].key = CFRAME_MAGIC
      <4>1. Len(c) = Len(a) + 2 /\ Len(a) + 2 \in 1..(Len(a) + Len(b)) /\ ~(Len(a) + 2 <= Len(a)) /\ (Len(a) + 2) - Len(a) = 2
        BY <3>2, <3>6, <3>8
      <4>2. c[Len(c)] = b[2]
        BY <3>6, <4>1
      <4>3. Len(c) <= M \/ Len(c) = M + 1
        BY <1>1, <3>2, <4>1
      <4> QED
        BY <3>8, <4>2, <4>3 DEF Fits, c
    <3> QED
      BY <3>3, <3>7, <3>8 DEF Push
  <2> QED
    BY <2>1, <2>2
<1> QED
  BY <1>5, <1>6 DEF w, full

\* So does what is left when the stack is cut.
LEMMA CutOK ==
  ASSUME Types, NEW p \in Seq(Fresh), Fits(p), NEW n \in 0..Len(p)
  PROVE  LET cut == SubSeq(p, 1, n)
         IN  cut \in Seq(Fresh) /\ Len(cut) = n /\ Fits(cut) /\ \A i \in 1..n : cut[i] = p[i]
<1> DEFINE cut == SubSeq(p, 1, n)
           M == MAX_STACK_SIZE
<1>1. Len(p) \in Nat /\ M \in Nat
  BY Sizes
<1>2. cut \in Seq(Fresh) /\ Len(cut) = n /\ \A i \in 1..n : cut[i] = p[i]
  BY <1>1, SubSeqProperties
<1> HIDE DEF cut
<1>3. Fits(cut)
  <2>1. CASE n <= M
    BY <1>2, <2>1 DEF Fits
  <2>2. CASE ~(n <= M)
    <3>1. version = 311 /\ Len(p) = M + 1 /\ p[Len(p)].key = CFRAME_MAGIC
      BY <1>1, <2>2 DEF Fits
    <3>2. n = M + 1 /\ n \in 1..n
      BY <1>1, <2>2, <3>1
    <3>3. cut[Len(cut)].key = CFRAME_MAGIC
      BY <1>2, <3>1, <3>2
    <3> QED
      BY <1>2, <3>1, <3>2, <3>3 DEF Fits
  <2> QED
    BY <2>1, <2>2
<1> QED
  BY <1>2, <1>3 DEF cut

\* The frames of a stack that fits are no more than the array holds.
LEMMA KeysFit ==
  ASSUME Types, NEW stack \in Seq(Pointed), Fits(stack)
  PROVE  IsFiniteSet(Keys(stack)) /\ Cardinality(Keys(stack)) \in Nat /\ Cardinality(Keys(stack)) <= MAX_STACK_SIZE
<1> DEFINE M == MAX_STACK_SIZE
           l == Len(stack)
<1>1. l \in Nat /\ M \in Nat
  BY Sizes
<1>2. IsFiniteSet(Keys(stack)) /\ Cardinality(Keys(stack)) \in Nat /\ Cardinality(Keys(stack)) <= l
  BY <1>1, KeysFinite
<1>3. CASE l <= M
  BY <1>1, <1>2, <1>3
<1>4. CASE ~(l <= M)
  <2>1. l = M + 1 /\ stack[l].key = CFRAME_MAGIC
    BY <1>4 DEF Fits
  <2> DEFINE cut == SubSeq(stack, 1, M)
  <2>2. Len(cut) = M /\ \A i \in 1..M : cut[i] = stack[i]
    BY <1>1, <2>1, SubSeqProperties
  <2>3. \A i \in 1..l : i = l \/ i \in 1..M
    BY <1>1, <2>1
  <2>4. \A i \in 1..M : i \in 1..l
    BY <1>1, <2>1
  <2> HIDE DEF cut, l, M
  <2>5. Keys(stack) = Keys(cut)
    <3>1. Keys(stack) = {stack[i].key : i \in 1..l} \ {CFRAME_MAGIC}
      BY DEF Keys, l
    <3>2. Keys(cut) = {cut[i].key : i \in 1..M} \ {CFRAME_MAGIC}
      BY <2>2 DEF Keys
    <3>3. \A x : x # CFRAME_MAGIC => ((\E i \in 1..l : stack[i].key = x) <=> \E i \in 1..M : cut[i].key = x)
      BY <2>1, <2>2, <2>3, <2>4
    <3> QED
      BY <3>1, <3>2, <3>3
  <2>6. Cardinality(Keys(cut)) <= M
    BY <1>1, <2>2, KeysFinite
  <2> QED
    BY <1>2, <2>5, <2>6 DEF M
<1> QED
  BY <1>3, <1>4

\* The elements are resolved one after the other.
LEMMA ResolvedIs ==
  ASSUME NEW m, Len(m.py) \in Nat
  PROVE  \E g : /\ g[0] = m /\ Resolved(m) = g[Len(m.py)]
                /\ \A i \in 1..Len(m.py) : g[i] = Resolve(g[i - 1], i)
<1> DEFINE l == Len(m.py)
           Is(k, g) == g = [i \in 0..k |-> IF i = 0 THEN m ELSE Resolve(g[i - 1], i)]
           Short == {k \in Nat : ~\E g : Is(k, g)}
<1> HIDE DEF Is
<1>1. Short = {}
  <2> SUFFICES ASSUME Short # {} PROVE FALSE
    OBVIOUS
  <2>1. PICK n \in Short : \A i \in Short : n <= i
    BY Least
  <2>2. n \in Nat /\ n # 0
    <3>1. Is(0, [i \in 0..0 |-> m])
      BY DEF Is
    <3> QED
      BY <2>1, <3>1
  <2>3. n - 1 \in Nat /\ n - 1 \notin Short
    <3> HIDE DEF Short
    <3> QED
      BY <2>1, <2>2
  <2>4. PICK g : Is(n - 1, g)
    BY <2>3
  <2> DEFINE h == [i \in 0..n |-> IF i < n THEN g[i] ELSE Resolve(g[i - 1], i)]
  <2> HIDE DEF Short
  <2>5. \A i \in 0..n : i # 0 => h[i - 1] = g[i - 1]
    BY <2>2
  <2>6. \A i \in 0..n : h[i] = IF i = 0 THEN m ELSE Resolve(g[i - 1], i)
    BY <2>2, <2>4 DEF Is
  <2>7. Is(n, h)
    <3>1. h = [i \in 0..n |-> h[i]]
      OBVIOUS
    <3> HIDE DEF h
    <3>2. \A i \in 0..n : h[i] = IF i = 0 THEN m ELSE Resolve(h[i - 1], i)
      BY <2>5, <2>6
    <3> QED
      BY <3>1, <3>2 DEF Is
  <2> QED
    BY <2>1, <2>7 DEF Short
<1>2. \E g : Is(l, g)
  BY <1>1
<1> DEFINE G == CHOOSE g : Is(l, g)
<1>3. Is(l, G)
  BY <1>2
<1>4. Resolved(m) = G[l]
  BY DEF Resolved, Is
<1> HIDE DEF G
<1>5. G = [i \in 0..l |-> IF i = 0 THEN m ELSE Resolve(G[i - 1], i)]
  BY <1>3 DEF Is
<1>6. \A i \in 0..l : G[i] = IF i = 0 THEN m ELSE Resolve(G[i - 1], i)
  BY <1>5
<1>7. 0 \in 0..l /\ \A i \in 1..l : i \in 0..l /\ i # 0
  OBVIOUS
<1>8. G[0] = m /\ \A i \in 1..l : G[i] = Resolve(G[i - 1], i)
  BY <1>6, <1>7
<1> QED
  BY <1>4, <1>8

\* The keys of the first i elements.
First(stack, i) == {stack[j].key : j \in 1..i} \ {CFRAME_MAGIC}

\* After i elements of the Python stack of m: they are live, and so is the native stack;
\* they and the keys of K are those used last.
PyDone(m, K, r, i) ==
  /\ r = [cache |-> r.cache, native |-> r.native, py |-> r.py]
  /\ Cache(r.cache) /\ Recent(r.cache, K \cup First(m.py, i))
  /\ r.native \in Seq(Pointed) /\ Len(r.native) = Len(m.native) /\ AllLive(r.native)
  /\ \A j \in 1..Len(m.native) : r.native[j].key = m.native[j].key
  /\ r.py \in Seq(Pointed) /\ Len(r.py) = Len(m.py)
  /\ \A j \in 1..Len(m.py) : /\ r.py[j].key = m.py[j].key /\ ~r.py[j].left
                             /\ j <= i \/ m.py[j].key = CFRAME_MAGIC => r.py[j].live

\* There is room for the native stack, the Python stack and K.
Roomy(m, K) ==
  /\ m.py \in Seq(Pointed) /\ m.native \in Seq(Pointed) /\ Keys(m.native) \subseteq K
  /\ IsFiniteSet(K \cup Keys(m.py)) /\ Cardinality(K \cup Keys(m.py)) <= MAX_FRAME_CACHE_SIZE

LEMMA ResolveOK ==
  ASSUME Types, NEW m, NEW K, Roomy(m, K), NEW i \in 1..Len(m.py), NEW r, PyDone(m, K, r, i - 1)
  PROVE  PyDone(m, K, Resolve(r, i), i)
<1> DEFINE L == K \cup First(m.py, i - 1)
           k == m.py[i].key
<1>1. Len(m.py) \in Nat /\ i \in Nat /\ i - 1 \in Nat /\ Len(m.native) \in Nat
  BY DEF Roomy
<1>2. \A j \in 1..i : j = i \/ j \in 1..(i - 1)
  BY <1>1
<1>3. \A j \in 1..(i - 1) : j \in 1..i
  BY <1>1
<1>4. First(m.py, i) = IF k = CFRAME_MAGIC THEN First(m.py, i - 1) ELSE First(m.py, i - 1) \cup {k}
  <2> DEFINE now    == {m.py[j].key : j \in 1..i}
             before == {m.py[j].key : j \in 1..(i - 1)}
  <2>1. \A x : (\E j \in 1..i : m.py[j].key = x) <=> x = k \/ \E j \in 1..(i - 1) : m.py[j].key = x
    BY <1>1, <1>2, <1>3
  <2>2. now = before \cup {k}
    <3>1. \A x : x \in now <=> \E j \in 1..i : m.py[j].key = x
      OBVIOUS
    <3>2. \A x : x \in before <=> \E j \in 1..(i - 1) : m.py[j].key = x
      OBVIOUS
    <3> HIDE DEF k, now, before
    <3>3. \A x : x \in now <=> x \in before \cup {k}
      BY <2>1, <3>1, <3>2
    <3> QED
      BY <3>3
  <2>3. First(m.py, i) = now \ {CFRAME_MAGIC} /\ First(m.py, i - 1) = before \ {CFRAME_MAGIC}
    BY DEF First
  <2> HIDE DEF now, before, k
  <2> QED
    BY <2>2, <2>3
<1>5. r.py[i].key = k /\ r.py \in Seq(Pointed) /\ Len(r.py) = Len(m.py)
  BY DEF PyDone
<1>6. CASE k = CFRAME_MAGIC
  <2>1. Resolve(r, i) = r
    BY <1>5, <1>6 DEF Resolve
  <2>2. \A j \in 1..Len(m.py) : j <= i => j <= i - 1 \/ m.py[j].key = CFRAME_MAGIC
    BY <1>1, <1>6
  <2>3. First(m.py, i) = First(m.py, i - 1)
    BY <1>4, <1>6
  <2>4. Recent(r.cache, K \cup First(m.py, i))
    BY <2>3 DEF PyDone
  <2>5. \A j \in 1..Len(m.py) : /\ r.py[j].key = m.py[j].key /\ ~r.py[j].left
                                /\ j <= i \/ m.py[j].key = CFRAME_MAGIC => r.py[j].live
    BY <2>2 DEF PyDone
  <2>6. PyDone(m, K, r, i)
    BY <2>4, <2>5 DEF PyDone
  <2> QED
    BY <2>1, <2>6
<1>7. CASE k # CFRAME_MAGIC
  <2> DEFINE t == Touch(r, k)
  <2>1. k \in Key
    <3>1. r.py[i] \in Pointed
      BY <1>5
    <3> QED
      BY <1>5, <1>7, <3>1 DEF Pointed
  <2>2. L \cup {k} \subseteq K \cup Keys(m.py) /\ L \subseteq K \cup Keys(m.py)
    <3>1. First(m.py, i - 1) \subseteq Keys(m.py)
      <4>1. \A j \in 1..(i - 1) : j \in 1..Len(m.py)
        BY <1>1
      <4> QED
        BY <4>1 DEF First, Keys
    <3>2. k \in Keys(m.py)
      BY <1>7 DEF Keys
    <3> QED
      BY <3>1, <3>2
  <2>3. IsFiniteSet(L) /\ Cardinality(L \cup {k}) <= MAX_FRAME_CACHE_SIZE
    <3> DEFINE B == K \cup Keys(m.py)
    <3>1. IsFiniteSet(B) /\ Cardinality(B) <= MAX_FRAME_CACHE_SIZE
      BY DEF Roomy
    <3>2. L \in SUBSET B /\ L \cup {k} \in SUBSET B
      BY <2>2
    <3> HIDE DEF B, L, k
    <3>3. IsFiniteSet(L) /\ IsFiniteSet(L \cup {k}) /\ Cardinality(L \cup {k}) <= Cardinality(B)
      BY <3>1, <3>2, FS_Subset
    <3>4. Cardinality(L \cup {k}) \in Nat /\ Cardinality(B) \in Nat /\ MAX_FRAME_CACHE_SIZE \in Nat
      BY <3>1, <3>3, FS_CardinalityType, Sizes
    <3> QED
      BY <3>1, <3>3, <3>4
  <2>4. Cache(r.cache) /\ Recent(r.cache, L)
    BY DEF PyDone
  <2> HIDE DEF L, k
  <2>5. /\ Cache(t.cache) /\ Recent(t.cache, L \cup {k})
        /\ \E E \in SUBSET Key :
             /\ E \cap (L \cup {k}) = {}
             /\ t = [cache |-> t.cache, native |-> Kill(r.native, E), py |-> Kill(r.py, E)]
    BY <2>1, <2>3, <2>4, TouchOK
  <2>6. PICK E \in SUBSET Key :
          /\ E \cap (L \cup {k}) = {}
          /\ t = [cache |-> t.cache, native |-> Kill(r.native, E), py |-> Kill(r.py, E)]
    BY <2>5
  <2> DEFINE c == t.cache
             alive == Kill(r.native, E)
             other == Kill(r.py, E)
             new   == [other EXCEPT ![i].live = TRUE]
             n     == [cache |-> c, native |-> alive, py |-> new]
  <2>7. Resolve(r, i) = n
    <3>1. Resolve(r, i) = [t EXCEPT !.py[i].live = TRUE]
      BY <1>5, <1>7 DEF Resolve
    <3>2. t = [cache |-> c, native |-> alive, py |-> other]
      BY <2>6
    <3> HIDE DEF t, c, alive, other
    <3> QED
      BY <3>1, <3>2
  <2>8. /\ alive \in Seq(Pointed) /\ Len(alive) = Len(r.native)
        /\ \A j \in 1..Len(r.native) : /\ alive[j].key = r.native[j].key /\ alive[j].left = r.native[j].left
                                       /\ alive[j].live <=> r.native[j].live /\ r.native[j].key \notin E
    <3>1. r.native \in Seq(Pointed)
      BY DEF PyDone
    <3> QED
      BY <3>1, KillOK
  <2>9. /\ other \in Seq(Pointed) /\ Len(other) = Len(r.py)
        /\ \A j \in 1..Len(r.py) : /\ other[j].key = r.py[j].key /\ other[j].left = r.py[j].left
                                   /\ other[j].live <=> r.py[j].live /\ r.py[j].key \notin E
    BY <1>5, KillOK
  <2> HIDE DEF t, c, alive, other
  <2>10. CFRAME_MAGIC \notin E
    BY KeyAssumption DEF Key
  <2>11. /\ Len(alive) = Len(m.native) /\ AllLive(alive)
         /\ \A j \in 1..Len(m.native) : alive[j].key = m.native[j].key
    <3>1. Len(r.native) = Len(m.native) /\ \A j \in 1..Len(m.native) : r.native[j].key = m.native[j].key
      BY DEF PyDone
    <3>2. \A j \in 1..Len(m.native) : r.native[j].live /\ ~r.native[j].left
      BY <3>1 DEF PyDone, AllLive
    <3>3. \A j \in 1..Len(m.native) : r.native[j].key \notin E
      <4> SUFFICES ASSUME NEW j \in 1..Len(m.native) PROVE r.native[j].key \notin E
        OBVIOUS
      <4>1. m.native[j].key \in Keys(m.native) \/ m.native[j].key = CFRAME_MAGIC
        BY DEF Keys
      <4>2. m.native[j].key \in L \/ m.native[j].key = CFRAME_MAGIC
        BY <4>1 DEF Roomy, L
      <4> QED
        BY <2>6, <2>10, <3>1, <4>2
    <3>4. AllLive(alive)
      BY <2>8, <3>1, <3>2, <3>3 DEF AllLive
    <3> QED
      BY <2>8, <3>1, <3>4
  <2>12. other[i] \in Pointed
    BY <1>5, <2>9
  <2>13. [other[i] EXCEPT !.live = TRUE] \in Pointed
    BY <2>12 DEF Pointed
  <2>14. new = [other EXCEPT ![i] = [other[i] EXCEPT !.live = TRUE]]
    OBVIOUS
  <2> DEFINE x == [other[i] EXCEPT !.live = TRUE]
  <2>15. x.key = other[i].key /\ x.left = other[i].left /\ x.live
    BY <2>12 DEF Pointed
  <2>16. /\ new \in Seq(Pointed) /\ Len(new) = Len(m.py) /\ new[i] = x
         /\ \A j \in 1..Len(m.py) : j # i => new[j] = other[j]
    <3> HIDE DEF x, new
    <3>1. new = [other EXCEPT ![i] = x] /\ x \in Pointed
      BY <2>13, <2>14 DEF x
    <3>2. i \in 1..Len(other) /\ Len(other) = Len(m.py)
      BY <1>5, <2>9
    <3> QED
      BY <2>9, <3>1, <3>2, ExceptSeq
  <2> HIDE DEF x, new
  <2>17. ASSUME NEW j \in 1..Len(m.py)
         PROVE  /\ new[j].key = m.py[j].key /\ ~new[j].left
                /\ j <= i \/ m.py[j].key = CFRAME_MAGIC => new[j].live
    <3>1. r.py[j].key = m.py[j].key /\ ~r.py[j].left
      BY DEF PyDone
    <3>2. CASE j = i
      BY <1>5, <2>9, <2>15, <2>16, <3>1, <3>2
    <3>3. CASE j # i
      <4>1. new[j] = other[j] /\ j \in 1..Len(r.py)
        BY <1>5, <2>16, <3>3
      <4>2. j <= i => j <= i - 1 /\ j \in 1..(i - 1)
        BY <1>1, <3>3
      <4>3. j <= i \/ m.py[j].key = CFRAME_MAGIC => r.py[j].live
        BY <4>2 DEF PyDone
      <4>4. j <= i => m.py[j].key \in L \/ m.py[j].key = CFRAME_MAGIC
        BY <4>2 DEF L, First
      <4>5. j <= i \/ m.py[j].key = CFRAME_MAGIC => m.py[j].key \notin E
        BY <2>6, <2>10, <4>4
      <4> QED
        BY <2>9, <3>1, <4>1, <4>3, <4>5
    <3> QED
      BY <3>2, <3>3
  <2>18. n.cache = c /\ n.native = alive /\ n.py = new /\ n = [cache |-> n.cache, native |-> n.native, py |-> n.py]
    OBVIOUS
  <2>19. L \cup {k} = K \cup First(m.py, i)
    BY <1>4, <1>7 DEF L
  <2>20. Cache(c) /\ Recent(c, K \cup First(m.py, i))
    BY <2>5, <2>19 DEF c
  <2> HIDE DEF n
  <2>21. PyDone(m, K, n, i)
    BY <2>8, <2>11, <2>16, <2>17, <2>18, <2>20 DEF PyDone
  <2> QED
    BY <2>7, <2>21
<1> QED
  BY <1>6, <1>7

\* What resolving starts from: both stacks are live, and the keys of K are those used
\* last.
Start(m, K) ==
  /\ m = [cache |-> m.cache, native |-> m.native, py |-> m.py]
  /\ Roomy(m, K) /\ Cache(m.cache) /\ Recent(m.cache, K)
  /\ AllLive(m.native) /\ AllLive(m.py)

\* Two stacks of the same frames.
Same(stack, other) == Len(stack) = Len(other) /\ \A i \in 1..Len(other) : stack[i].key = other[i].key

LEMMA SameKeys ==
  ASSUME NEW stack, NEW other, Same(stack, other)
  PROVE  Keys(stack) = Keys(other)
BY DEF Same, Keys

\* The Python stack is resolved: both stacks are as they were, and live, and the frames
\* of the Python stack are now used last too.
LEMMA ResolvedOK ==
  ASSUME Types, NEW m, NEW K, Start(m, K)
  PROVE  LET r == Resolved(m)
         IN  Start(r, K \cup Keys(m.py)) /\ Same(r.native, m.native) /\ Same(r.py, m.py)
<1> DEFINE l == Len(m.py)
           r == Resolved(m)
<1>1. l \in Nat
  BY DEF Start, Roomy
<1>2. PICK g : /\ g[0] = m /\ r = g[l] /\ \A i \in 1..l : g[i] = Resolve(g[i - 1], i)
  BY <1>1, ResolvedIs
<1> DEFINE Wrong == {i \in Nat : i <= l /\ ~PyDone(m, K, g[i], i)}
<1>3. PyDone(m, K, m, 0)
  <2>1. First(m.py, 0) = {}
    BY DEF First
  <2>2. K \cup First(m.py, 0) = K
    BY <2>1
  <2>3. \A j \in 1..Len(m.py) : ~m.py[j].left /\ m.py[j].live
    BY DEF Start, AllLive
  <2> QED
    BY <2>2, <2>3 DEF PyDone, Start, Roomy
<1>4. Wrong = {}
  <2> SUFFICES ASSUME Wrong # {} PROVE FALSE
    OBVIOUS
  <2>1. PICK i \in Wrong : \A j \in Wrong : i <= j
    BY Least
  <2>2. i \in 1..l
    BY <1>1, <1>2, <1>3, <2>1
  <2>3. i - 1 \in Nat /\ i - 1 <= l /\ i - 1 \notin Wrong
    <3>1. i - 1 \in Nat /\ i - 1 <= l /\ ~(i <= i - 1)
      BY <1>1, <2>2
    <3> QED
      BY <2>1, <3>1
  <2>4. PyDone(m, K, g[i - 1], i - 1) /\ g[i] = Resolve(g[i - 1], i)
    BY <1>2, <2>2, <2>3
  <2>5. Roomy(m, K)
    BY DEF Start
  <2>6. PyDone(m, K, g[i], i)
    <3> DEFINE before == g[i - 1]
    <3>1. PyDone(m, K, before, i - 1)
      BY <2>4
    <3> HIDE DEF before
    <3>2. PyDone(m, K, Resolve(before, i), i)
      BY <2>2, <2>5, <3>1, ResolveOK
    <3> QED
      BY <2>4, <3>2 DEF before
  <2> QED
    BY <2>1, <2>6
<1>5. PyDone(m, K, r, l)
  BY <1>1, <1>2, <1>4
<1> HIDE DEF r, Wrong
<1>6. Keys(m.py) = First(m.py, l)
  BY DEF Keys, First
<1>7. Same(r.native, m.native) /\ Same(r.py, m.py)
  BY <1>5 DEF Same, PyDone
<1>8. AllLive(r.py)
  <2>1. \A j \in 1..l : j <= l
    BY <1>1
  <2> QED
    BY <1>5, <2>1 DEF AllLive, PyDone
<1>9. Roomy(r, K \cup Keys(m.py))
  <2>1. Keys(r.py) = Keys(m.py) /\ Keys(r.native) = Keys(m.native)
    BY <1>7, SameKeys
  <2>2. (K \cup Keys(m.py)) \cup Keys(r.py) = K \cup Keys(m.py)
    BY <2>1
  <2>3. Keys(m.native) \subseteq K /\ IsFiniteSet(K \cup Keys(m.py)) /\ Cardinality(K \cup Keys(m.py)) <= MAX_FRAME_CACHE_SIZE
    BY DEF Start, Roomy
  <2>4. r.py \in Seq(Pointed) /\ r.native \in Seq(Pointed)
    BY <1>5 DEF PyDone
  <2> QED
    BY <2>1, <2>2, <2>3, <2>4 DEF Roomy
<1>10. Start(r, K \cup Keys(m.py))
  BY <1>5, <1>6, <1>8, <1>9 DEF Start, PyDone
<1> QED
  BY <1>7, <1>10 DEF r

\* The Python stack is unwound.
LEMMA UnwindPythonOK ==
  ASSUME Types, Cache(cache), Len(native) <= MAX_STACK_SIZE, AllLive(native), Recent(cache, Keys(native)),
         NEW p \in Seq(Fresh), Fits(p), NEW n \in 0..Len(p), UnwindPython(p, n)
  PROVE  /\ Cache(cache')
         /\ native' \in Seq(Pointed) /\ AllLive(native') /\ Same(native', native)
         /\ py' \in Seq(Pointed) /\ AllLive(py') /\ Fits(py') /\ Same(py', SubSeq(p, 1, n))
<1> DEFINE cut   == SubSeq(p, 1, n)
           first == [Memory EXCEPT !.py = cut]
           K     == Keys(native)
           once  == Resolved(first)
           m     == IF version = 310 THEN once ELSE Resolved(once)
<1>1. cut \in Seq(Fresh) /\ Len(cut) = n /\ Fits(cut)
  BY CutOK
<1>2. cut \in Seq(Pointed) /\ AllLive(cut)
  <2> HIDE DEF cut
  <2>1. \A i \in 1..Len(cut) : cut[i] \in Fresh
    BY <1>1
  <2>2. Fresh \subseteq Pointed
    BY DEF Fresh
  <2>3. AllLive(cut)
    BY <2>1 DEF AllLive, Fresh
  <2>4. cut \in Seq(Pointed)
    BY <1>1, <2>2
  <2> QED
    BY <2>3, <2>4
<1>3. native' = m.native /\ py' = m.py /\ cache' = m.cache
  BY DEF UnwindPython
<1> HIDE DEF cut
<1>4. /\ first.cache = cache /\ first.native = native /\ first.py = cut
      /\ first = [cache |-> first.cache, native |-> first.native, py |-> first.py]
  BY DEF Memory
<1>5. native \in Seq(Pointed) /\ Len(native) \in Nat
  BY DEF Types
<1>6. IsFiniteSet(K \cup Keys(cut)) /\ Cardinality(K \cup Keys(cut)) <= MAX_FRAME_CACHE_SIZE
  <2>1. IsFiniteSet(K) /\ Cardinality(K) \in Nat /\ Cardinality(K) <= Len(native)
    BY <1>5, KeysFinite
  <2>2. IsFiniteSet(Keys(cut)) /\ Cardinality(Keys(cut)) \in Nat /\ Cardinality(Keys(cut)) <= MAX_STACK_SIZE
    BY <1>1, <1>2, KeysFit
  <2> DEFINE L == Keys(cut)
  <2> HIDE DEF K, L
  <2>3. IsFiniteSet(K \cup L) /\ IsFiniteSet(K \cap L) /\ Cardinality(K \cup L) = Cardinality(K) + Cardinality(L) - Cardinality(K \cap L)
    <3>1. IsFiniteSet(K) /\ IsFiniteSet(L)
      BY <2>1, <2>2 DEF L
    <3>2. K \cap L \in SUBSET K
      OBVIOUS
    <3>3. IsFiniteSet(K \cap L)
      BY <3>1, <3>2, FS_Subset
    <3> QED
      BY <3>1, <3>3, FS_Union
  <2>4. Cardinality(K \cap L) \in Nat
    BY <2>3, FS_CardinalityType
  <2>5. MAX_STACK_SIZE \in Nat /\ MAX_FRAME_CACHE_SIZE = 2 * MAX_STACK_SIZE
    BY Sizes
  <2> DEFINE a == Cardinality(K)
             b == Cardinality(L)
             c == Cardinality(K \cap L)
             d == Cardinality(K \cup L)
             s == MAX_STACK_SIZE
             M == MAX_FRAME_CACHE_SIZE
             len == Len(native)
  <2>6. /\ a \in Nat /\ b \in Nat /\ c \in Nat /\ s \in Nat /\ len \in Nat
        /\ a <= len /\ len <= s /\ b <= s /\ d = a + b - c /\ M = 2 * s
    BY <1>5, <2>1, <2>2, <2>3, <2>4, <2>5 DEF L
  <2> HIDE DEF a, b, c, d, s, M, len
  <2>7. d <= M
    BY <2>6
  <2> QED
    BY <2>3, <2>7 DEF d, M, L
<1> HIDE DEF first
<1>7. Start(first, K)
  BY <1>2, <1>4, <1>5, <1>6 DEF Start, Roomy
<1>8. Start(once, K \cup Keys(first.py)) /\ Same(once.native, first.native) /\ Same(once.py, first.py)
  BY <1>7, ResolvedOK
<1> DEFINE L == K \cup Keys(first.py)
           twice == Resolved(once)
<1>9. Start(once, L)
  BY <1>8
<1> HIDE DEF L, once
<1>10. Start(twice, L \cup Keys(once.py)) /\ Same(twice.native, once.native) /\ Same(twice.py, once.py)
  BY <1>9, ResolvedOK
<1> HIDE DEF twice
<1>11. /\ Cache(m.cache) /\ m.native \in Seq(Pointed) /\ m.py \in Seq(Pointed) /\ AllLive(m.native) /\ AllLive(m.py)
       /\ Same(m.native, native) /\ Same(m.py, cut)
  <2>1. CASE version = 310
    <3>1. m = once
      BY <2>1
    <3> QED
      BY <3>1, <1>4, <1>8 DEF Start, Roomy
  <2>2. CASE version # 310
    <3>1. m = twice
      BY <2>2 DEF twice
    <3>2. Same(twice.native, native) /\ Same(twice.py, cut)
      BY <1>4, <1>8, <1>10 DEF Same
    <3> QED
      BY <3>1, <3>2, <1>10 DEF Start, Roomy
  <2> QED
    BY <2>1, <2>2
<1> HIDE DEF m
<1>12. Fits(m.py)
  <2>1. Len(m.py) = Len(cut) /\ \A i \in 1..Len(cut) : m.py[i].key = cut[i].key
    BY <1>11 DEF Same
  <2>2. Len(cut) \in Nat /\ MAX_STACK_SIZE \in Nat
    BY <1>1, Sizes
  <2>3. Len(cut) = MAX_STACK_SIZE + 1 => Len(cut) \in 1..Len(cut)
    BY <2>2
  <2> QED
    BY <1>1, <2>1, <2>3 DEF Fits
<1> QED
  BY <1>3, <1>11, <1>12 DEF cut

-------------------------------------------------------------------------------
(* What is shown. *)

\* A set of naturals that is bounded and not empty has a greatest element.
LEMMA Greatest ==
  ASSUME NEW S \in SUBSET Nat, S # {}, NEW b \in Nat, \A n \in S : n <= b
  PROVE  \E m \in S : \A n \in S : n <= m
<1> DEFINE B == {j \in Nat : \A n \in S : n <= j}
<1>1. PICK m \in B : \A j \in B : m <= j
  BY Least
<1>2. m \in Nat /\ \A n \in S : n <= m /\ n \in Nat
  BY <1>1
<1>3. m \in S
  <2> SUFFICES ASSUME m \notin S PROVE FALSE
    OBVIOUS
  <2>1. m # 0
    <3>1. PICK n \in S : TRUE
      OBVIOUS
    <3>2. n \in Nat /\ n <= m /\ n # m
      BY <1>2
    <3> QED
      BY <1>2, <3>2
  <2>2. m - 1 \in Nat /\ ~(m <= m - 1)
    BY <1>2, <2>1
  <2>3. \A n \in S : n # m
    OBVIOUS
  <2>4. \A n \in S : n <= m - 1
    BY <1>2, <2>3
  <2> QED
    BY <1>1, <2>2, <2>4
<1> QED
  BY <1>2, <1>3

\* A stack in reverse is one of the same frames.
LEMMA ReverseIn ==
  ASSUME NEW S, NEW s \in Seq(S)
  PROVE  Reverse(s) \in Seq(S) /\ Len(Reverse(s)) = Len(s)
<1> DEFINE l == Len(s)
           back == Reverse(s)
<1>1. back = [i \in 1..l |-> s[l - i + 1]]
  BY DEF Reverse
<1>2. l \in Nat /\ \A i \in 1..l : s[i] \in S
  OBVIOUS
<1>3. \A i \in 1..l : l - i + 1 \in 1..l
  BY <1>2
<1> HIDE DEF l, back
<1>4. back \in [1..l -> S]
  BY <1>1, <1>2, <1>3
<1> QED
  BY <1>2, <1>4 DEF l, back

\* A part of a stack, in either order, is a stack of the same frames.
LEMMA PartOK ==
  ASSUME NEW S, NEW stack \in Seq(S), NEW a \in 1..(Len(stack) + 1), NEW b \in 0..Len(stack)
  PROVE  LET part == SubSeq(stack, a, b)
         IN  part \in Seq(S) /\ Len(part) <= Len(stack) /\ Reverse(part) \in Seq(S)
<1> DEFINE part == SubSeq(stack, a, b)
           back == Reverse(part)
           l    == Len(part)
<1>1. Len(stack) \in Nat
  OBVIOUS
<1>2. part \in Seq(S) /\ l \in Nat /\ l <= Len(stack)
  <2>1. CASE a > b
    <3>1. part = <<>>
      BY <1>1, <2>1
    <3> QED
      BY <1>1, <3>1
  <2>2. CASE a <= b
    <3>1. part \in Seq(S) /\ l = b - a + 1
      BY <1>1, <2>2, SubSeqProperties
    <3>2. b - a + 1 \in Nat /\ b - a + 1 <= Len(stack)
      BY <1>1, <2>2
    <3> HIDE DEF part
    <3> QED
      BY <3>1, <3>2
  <2> QED
    BY <1>1, <2>1, <2>2
<1> HIDE DEF part
<1>3. back \in Seq(S)
  BY <1>2, ReverseIn
<1> QED
  BY <1>2, <1>3 DEF part, back

\* What is popped for a call, and what is left.
LEMMA RunOfOK ==
  ASSUME NEW S, NEW stack \in Seq(S), stack # <<>>
  PROVE  LET popped == RunOf(stack)
         IN  popped.run \in Seq(S) /\ popped.rest \in Seq(S) /\ Len(popped.rest) <= Len(stack)
<1> DEFINE markers == {i \in DOMAIN stack : stack[i].key = CFRAME_MAGIC}
           m == IF markers = {} THEN 0 ELSE CHOOSE i \in markers : \A j \in markers : j <= i
           l == Len(stack)
<1>1. l \in Nat /\ l > 0 /\ DOMAIN stack = 1..l /\ \A i \in 1..l : stack[i] \in S
  OBVIOUS
<1>2. CASE version = 310
  <2> DEFINE run  == <<stack[l]>>
             rest == SubSeq(stack, 1, l - 1)
  <2>1. RunOf(stack) = [run |-> run, rest |-> rest]
    BY <1>2 DEF RunOf, Last, Front
  <2>2. run \in Seq(S)
    <3> DEFINE x == stack[l]
    <3>1. l \in 1..l
      BY <1>1
    <3>2. x \in S
      BY <1>1, <3>1
    <3> HIDE DEF x
    <3>3. <<x>> \in Seq(S)
      BY <3>2
    <3> QED
      BY <3>3 DEF x
  <2>3. rest \in Seq(S) /\ Len(rest) <= l
    <3>1. 1 \in 1..(l + 1) /\ l - 1 \in 0..l
      BY <1>1
    <3> QED
      BY <3>1, PartOK
  <2> QED
    BY <2>1, <2>2, <2>3
<1>3. CASE version # 310
  <2> DEFINE above == SubSeq(stack, m + 1, l)
             rest  == SubSeq(stack, 1, m - 1)
  <2>1. RunOf(stack) = [run |-> Reverse(above), rest |-> rest]
    BY <1>3 DEF RunOf
  <2>2. m \in 0..l
    <3>1. CASE markers = {}
      BY <1>1, <3>1
    <3>2. CASE markers # {}
      <4>1. markers \in SUBSET Nat /\ (\A n \in markers : n <= l) /\ markers \subseteq 1..l
        BY <1>1
      <4> HIDE DEF markers, l
      <4>2. \E i \in markers : \A j \in markers : j <= i
        BY <1>1, <3>2, <4>1, Greatest
      <4>3. m \in markers
        BY <3>2, <4>2
      <4> HIDE DEF m
      <4>4. m \in 1..l
        BY <4>1, <4>3
      <4> QED
        BY <4>4 DEF l
    <3> QED
      BY <3>1, <3>2
  <2> HIDE DEF m, markers
  <2>3. Reverse(above) \in Seq(S)
    <3>1. m + 1 \in 1..(l + 1) /\ l \in 0..l
      BY <1>1, <2>2
    <3> QED
      BY <3>1, PartOK
  <2>4. rest \in Seq(S) /\ Len(rest) <= l
    <3>1. CASE m = 0
      <4>1. rest = <<>>
        BY <3>1
      <4> HIDE DEF rest
      <4> QED
        BY <1>1, <4>1
    <3>2. CASE m # 0
      <4>1. 1 \in 1..(l + 1) /\ m - 1 \in 0..l
        BY <1>1, <2>2, <3>2
      <4> QED
        BY <4>1, PartOK
    <3> QED
      BY <3>1, <3>2
  <2> QED
    BY <2>1, <2>3, <2>4
<1> QED
  BY <1>2, <1>3

\* Native frames are shown one after the other.
LEMMA ShownIs ==
  ASSUME NEW top, Len(native) \in Nat
  PROVE  /\ ShownAfter(top)[0] = [py |-> top, out |-> <<>>]
         /\ \A n \in 1..Len(native) : ShownAfter(top)[n] = ShowNative(ShownAfter(top)[n - 1], Reverse(native)[n])
<1> DEFINE none == [py |-> top, out |-> <<>>]
           back == Reverse(native)
           Is(k, g) == g = [n \in 0..k |-> IF n = 0 THEN none ELSE ShowNative(g[n - 1], back[n])]
           Short == {k \in Nat : ~\E g : Is(k, g)}
<1> HIDE DEF Is, none, back
<1>1. Short = {}
  <2> SUFFICES ASSUME Short # {} PROVE FALSE
    OBVIOUS
  <2>1. PICK m \in Short : \A n \in Short : m <= n
    BY Least
  <2>2. m \in Nat /\ m # 0
    <3>1. Is(0, [n \in 0..0 |-> none])
      BY DEF Is
    <3> QED
      BY <2>1, <3>1
  <2>3. m - 1 \in Nat /\ m - 1 \notin Short
    <3> HIDE DEF Short
    <3> QED
      BY <2>1, <2>2
  <2>4. PICK g : Is(m - 1, g)
    BY <2>3
  <2> DEFINE h == [n \in 0..m |-> IF n < m THEN g[n] ELSE ShowNative(g[n - 1], back[n])]
  <2> HIDE DEF Short
  <2>5. \A n \in 0..m : n # 0 => h[n - 1] = g[n - 1]
    BY <2>2
  <2>6. \A n \in 0..m : h[n] = IF n = 0 THEN none ELSE ShowNative(g[n - 1], back[n])
    BY <2>2, <2>4 DEF Is
  <2>7. Is(m, h)
    <3>1. h = [n \in 0..m |-> h[n]]
      OBVIOUS
    <3> HIDE DEF h
    <3>2. \A n \in 0..m : h[n] = IF n = 0 THEN none ELSE ShowNative(h[n - 1], back[n])
      BY <2>5, <2>6
    <3> QED
      BY <3>1, <3>2 DEF Is
  <2> QED
    BY <2>1, <2>7 DEF Short
<1> DEFINE l == Len(native)
           G == CHOOSE g : Is(l, g)
<1>2. \E g : Is(l, g)
  BY <1>1
<1>3. Is(l, G)
  BY <1>2
<1>4. ShownAfter(top) = G
  BY DEF ShownAfter, Is, none, back
<1> HIDE DEF G
<1>5. G = [n \in 0..l |-> IF n = 0 THEN none ELSE ShowNative(G[n - 1], back[n])]
  BY <1>3 DEF Is
<1>6. \A n \in 0..l : G[n] = IF n = 0 THEN none ELSE ShowNative(G[n - 1], back[n])
  BY <1>5
<1>7. 0 \in 0..l /\ \A n \in 1..l : n \in 0..l /\ n # 0
  OBVIOUS
<1>8. G[0] = none /\ \A n \in 1..l : G[n] = ShowNative(G[n - 1], back[n])
  BY <1>6, <1>7
<1> QED
  BY <1>4, <1>8 DEF none, back

\* What is shown, and what is left of the Python stack, which does not grow, are frames
\* of the two stacks.
ShownDone(st, l, S) ==
  /\ st = [py |-> st.py, out |-> st.out]
  /\ st.py \in Seq(S) /\ Len(st.py) <= l
  /\ st.out \in Seq(S)

\* A native frame, or the run of Python frames in its place.
LEMMA ShowNativeOK ==
  ASSUME NEW S, NEW l \in Nat, NEW st, ShownDone(st, l, S), NEW frame \in S
  PROVE  ShownDone(ShowNative(st, frame), l, S)
<1> DEFINE new == ShowNative(st, frame)
           popped == RunOf(st.py)
           rest   == popped.rest
           run    == popped.run
<1>1. CASE frame.key \in Eval /\ st.py # <<>>
  <2> DEFINE all == st.out \o run
  <2>1. new = [py |-> rest, out |-> all]
    BY <1>1 DEF ShowNative
  <2>2. st.py \in Seq(S) /\ Len(st.py) <= l /\ Len(st.py) \in Nat /\ st.out \in Seq(S)
    BY DEF ShownDone
  <2>3. run \in Seq(S) /\ rest \in Seq(S) /\ Len(rest) <= Len(st.py)
    BY <1>1, <2>2, RunOfOK
  <2> HIDE DEF popped, rest, run, new
  <2>4. all \in Seq(S)
    BY <2>2, <2>3, ConcatProperties
  <2>5. Len(rest) <= l
    <3>1. Len(rest) \in Nat
      BY <2>3
    <3> QED
      BY <2>2, <2>3, <3>1
  <2> HIDE DEF all
  <2>6. new.py = rest /\ new.out = all /\ new = [py |-> new.py, out |-> new.out]
    BY <2>1
  <2>7. ShownDone(new, l, S)
    BY <2>3, <2>4, <2>5, <2>6 DEF ShownDone
  <2> QED
    BY <2>7 DEF new
<1>2. CASE ~(frame.key \in Eval /\ st.py # <<>>)
  <2> DEFINE all == Append(st.out, frame)
             old == st.out
             left == st.py
  <2>1. st = [py |-> left, out |-> old]
    BY DEF ShownDone
  <2>2. new = [st EXCEPT !.out = all]
    BY <1>2 DEF ShowNative
  <2>3. all \in Seq(S)
    <3>1. old \in Seq(S)
      BY DEF ShownDone
    <3>2. all = Append(old, frame)
      OBVIOUS
    <3> HIDE DEF all, old
    <3> QED
      BY <3>1, <3>2, AppendProperties
  <2> HIDE DEF all, old, left, new
  <2>4. new = [py |-> left, out |-> all]
    BY <2>1, <2>2
  <2>5. new.py = left /\ new.out = all /\ new = [py |-> new.py, out |-> new.out]
    BY <2>4
  <2>6. left \in Seq(S) /\ Len(left) <= l
    BY DEF ShownDone, left
  <2>7. ShownDone(new, l, S)
    BY <2>3, <2>5, <2>6 DEF ShownDone
  <2> QED
    BY <2>7 DEF new
<1> QED
  BY <1>1, <1>2

\* The native frames, root first.
LEMMA BackIs ==
  ASSUME NEW S, NEW s \in Seq(S)
  PROVE  /\ Len(s) \in Nat
         /\ \A n \in 1..Len(s) :
              /\ Reverse(s)[n] = s[Len(s) - n + 1] /\ Len(s) - n + 1 \in 1..Len(s)
              /\ s[n] \in S /\ Reverse(s)[n] \in S
<1> DEFINE l == Len(s)
<1>1. l \in Nat
  OBVIOUS
<1>2. ASSUME NEW n \in 1..l
      PROVE  Reverse(s)[n] = s[l - n + 1] /\ l - n + 1 \in 1..l /\ s[n] \in S /\ s[l - n + 1] \in S
  <2>1. Reverse(s)[n] = s[l - n + 1]
    BY <1>1 DEF Reverse
  <2> DEFINE i == l - n + 1
  <2>2. i \in 1..l
    BY <1>1
  <2> HIDE DEF i
  <2>3. s[i] \in S /\ s[n] \in S
    BY <2>2
  <2> QED
    BY <2>1, <2>2, <2>3 DEF i
<1> QED
  BY <1>1, <1>2

LEMMA ShownOK ==
  ASSUME NEW S, native \in Seq(S), NEW top \in Seq(S)
  PROVE  ShownDone(ShownAfter(top)[Len(native)], Len(top), S)
<1> DEFINE G == ShownAfter(top)
           l == Len(native)
           t == Len(top)
           Wrong == {i \in Nat : i <= l /\ ~ShownDone(G[i], t, S)}
<1>1. l \in Nat /\ t \in Nat
  OBVIOUS
<1>2. G[0] = [py |-> top, out |-> <<>>] /\ \A n \in 1..l : G[n] = ShowNative(G[n - 1], Reverse(native)[n])
  BY <1>1, ShownIs
<1>3. \A n \in 1..l : Reverse(native)[n] \in S
  BY BackIs
<1> HIDE DEF G
<1>4. ShownDone(G[0], t, S)
  <2>1. <<>> \in Seq(S) /\ t <= t
    BY <1>1
  <2> DEFINE st == G[0]
  <2>2. st.py = top /\ st.out = <<>> /\ st = [py |-> st.py, out |-> st.out]
    BY <1>2
  <2> HIDE DEF st
  <2>3. ShownDone(st, t, S)
    BY <2>1, <2>2 DEF ShownDone
  <2> QED
    BY <2>3 DEF st
<1>5. Wrong = {}
  <2> SUFFICES ASSUME Wrong # {} PROVE FALSE
    OBVIOUS
  <2>1. PICK i \in Wrong : \A j \in Wrong : i <= j
    BY Least
  <2>2. i \in 1..l
    BY <1>1, <1>4, <2>1
  <2>3. i - 1 \in Nat /\ i - 1 <= l /\ i - 1 \notin Wrong
    <3>1. i - 1 \in Nat /\ i - 1 <= l /\ ~(i <= i - 1)
      BY <1>1, <2>2
    <3> QED
      BY <2>1, <3>1
  <2>4. ShownDone(G[i - 1], t, S)
    BY <2>3
  <2> DEFINE st == G[i - 1]
             frame == Reverse(native)[i]
  <2>5. ShownDone(st, t, S) /\ frame \in S /\ G[i] = ShowNative(st, frame)
    BY <1>2, <1>3, <2>2, <2>4
  <2> HIDE DEF st, frame
  <2>6. ShownDone(G[i], t, S)
    BY <1>1, <2>5, ShowNativeOK
  <2> QED
    BY <2>1, <2>6
<1>6. ShownDone(G[l], t, S)
  BY <1>1, <1>5
<1> QED
  BY <1>6 DEF G

\* Frames that have not been freed, but for those that an earlier sample left.
Whole == {p \in Pointed : p.live \/ p.left}

LEMMA WholeOK ==
  ASSUME NEW stack
  PROVE  /\ stack \in Seq(Pointed) /\ Sound(stack)   <=> stack \in Seq(Whole)
         /\ stack \in Seq(Pointed) /\ AllLive(stack) <=> stack \in Seq(Fresh)
<1> DEFINE l == Len(stack)
<1>1. ASSUME stack \in Seq(Pointed), Sound(stack) PROVE stack \in Seq(Whole)
  <2>1. l \in Nat /\ stack \in [1..l -> Pointed]
    BY <1>1, LenProperties
  <2>2. \A i \in 1..l : stack[i] \in Whole
    BY <1>1, <2>1 DEF Whole, Sound
  <2> HIDE DEF l
  <2> QED
    BY <2>1, <2>2
<1>2. ASSUME stack \in Seq(Pointed), AllLive(stack) PROVE stack \in Seq(Fresh)
  <2>1. l \in Nat /\ stack \in [1..l -> Pointed]
    BY <1>2, LenProperties
  <2>2. \A i \in 1..l : stack[i] \in Fresh
    BY <1>2, <2>1 DEF Fresh, AllLive
  <2> HIDE DEF l
  <2> QED
    BY <2>1, <2>2
<1>3. ASSUME stack \in Seq(Whole) PROVE stack \in Seq(Pointed) /\ Sound(stack)
  <2>1. l \in Nat /\ (\A i \in 1..l : stack[i] \in Whole) /\ Whole \subseteq Pointed
    BY <1>3 DEF Whole
  <2> QED
    BY <1>3, <2>1 DEF Sound, Whole
<1>4. ASSUME stack \in Seq(Fresh) PROVE stack \in Seq(Pointed) /\ AllLive(stack)
  <2>1. l \in Nat /\ (\A i \in 1..l : stack[i] \in Fresh) /\ Fresh \subseteq Pointed
    BY <1>4 DEF Fresh
  <2> QED
    BY <1>4, <2>1 DEF AllLive, Fresh
<1> QED
  BY <1>1, <1>2, <1>3, <1>4

-------------------------------------------------------------------------------
(* The invariant. *)

LEMMA InitInv == ASSUME Init PROVE IInv
<1>1. Types
  BY DEF Init, Types
<1>2. MAX_STACK_SIZE \in Nat /\ MAX_FRAME_CACHE_SIZE \in Nat /\ 0 <= MAX_STACK_SIZE /\ 0 <= MAX_FRAME_CACHE_SIZE
  BY <1>1, Sizes
<1>3. native = <<>> /\ py = <<>> /\ out = <<>> /\ cache = <<>> /\ pc = "idle"
  BY DEF Init
<1>4. \A s : s = <<>> => Len(s) = 0 /\ AllLive(s) /\ Sound(s)
  BY DEF AllLive, Sound
<1>5. <<>> \in Seq(Key) /\ Len(<<>>) = 0
  OBVIOUS
<1>6. Cache(cache)
  BY <1>2, <1>3, <1>5 DEF Cache
<1>7. Len(native) <= MAX_STACK_SIZE /\ PyFits
  BY <1>2, <1>3, <1>4 DEF PyFits
<1> QED
  BY <1>1, <1>3, <1>4, <1>6, <1>7 DEF IInv

\* The next thread: what is left on the Python stack is left by an earlier sample.
LEMMA BeginInv == ASSUME IInv, Begin PROVE IInv'
<1> DEFINE new == [i \in DOMAIN py |-> [py[i] EXCEPT !.left = TRUE]]
<1>1. Types /\ py \in Seq(Pointed) /\ Len(py) \in Nat /\ DOMAIN py = 1..Len(py)
  BY DEF IInv, Types
<1>2. ASSUME NEW i \in 1..Len(py)
      PROVE  LET x == [py[i] EXCEPT !.left = TRUE] IN x \in Pointed /\ x.left /\ x.key = py[i].key
  <2>1. py[i] \in Pointed
    BY <1>1
  <2> QED
    BY <2>1 DEF Pointed
<1>3. new \in [1..Len(py) -> Pointed] /\ \A i \in 1..Len(py) : new[i] = [py[i] EXCEPT !.left = TRUE]
  BY <1>1, <1>2
<1>4. py' = new
  BY DEF Begin
<1> HIDE DEF new
<1>5. py' \in Seq(Pointed) /\ Len(py') = Len(py) /\ \A i \in 1..Len(py) : py'[i] = [py[i] EXCEPT !.left = TRUE]
  <2>1. new \in Seq(Pointed) /\ Len(new) = Len(py)
    BY <1>1, <1>3
  <2> QED
    BY <1>3, <1>4, <2>1
<1>6. AllLeft(py') /\ Sound(py')
  BY <1>2, <1>5 DEF AllLeft, Sound
<1>7. real' \in Seq(Call) /\ kernel' \in Seq(KernelFrame)
  <2>1. setting \in Settings /\ real' \in Stacks(setting) /\ kernel' \in {<<>>, KernelStack}
    BY <1>1 DEF Begin, Types
  <2>2. Stacks(setting) \subseteq Seq(Call)
    BY <2>1, StacksAssumption, Zenon DEF Call
  <2>3. <<>> \in Seq(KernelFrame) /\ KernelStack \in Seq(KernelFrame)
    BY StacksAssumption
  <2> QED
    BY <2>1, <2>2, <2>3
<1>8. Types'
  BY <1>1, <1>5, <1>7 DEF Begin, Types
<1>9. Len(py) <= MAX_STACK_SIZE
  BY DEF IInv, PyFits, Begin
<1>10. Cache(cache)' /\ (Len(native) <= MAX_STACK_SIZE)' /\ PyFits'
  BY <1>5, <1>9 DEF IInv, PyFits, Cache, Begin, MAX_STACK_SIZE, MAX_FRAME_CACHE_SIZE
<1>11. AllLive(native)' /\ Sound(out)' /\ native' = <<>> /\ pc' = "native"
  BY DEF IInv, Begin, AllLive, Sound
<1> QED
  BY <1>6, <1>8, <1>10, <1>11 DEF IInv, AllLeft, Sound

\* The native stack is unwound.
LEMMA UnwindNativeInv ==
  ASSUME IInv, pc = "native", NEW n \in 0..Len(real), n <= MAX_STACK_SIZE, UnwindNative(n),
         pc' = "python", UNCHANGED <<setting, real, kernel, out>>
  PROVE  IInv'
<1> DEFINE u == Unwound[n]
<1>1. Types /\ Cache(cache) /\ AllLeft(py) /\ Sound(out)
  BY DEF IInv
<1>2. NativeDone(u, n)
  BY <1>1, NativeOK
<1>3. native' = u.native /\ py' = u.py /\ cache' = u.cache
  BY DEF UnwindNative
<1> HIDE DEF u
<1>4. native' \in Seq(Pointed) /\ Len(native') = n /\ py' \in Seq(Pointed) /\ Len(py') = Len(py)
  BY <1>2, <1>3 DEF NativeDone
<1>5. Types'
  BY <1>1, <1>4 DEF Types
<1>6. Cache(cache)' /\ Recent(cache, Keys(native))' /\ AllLive(native)' /\ AllLeft(py)'
  <2>1. Cache(cache') /\ Recent(cache', Keys(native')) /\ AllLive(native') /\ AllLeft(py')
    BY <1>2, <1>3 DEF NativeDone
  <2>2. MAX_FRAME_CACHE_SIZE' = MAX_FRAME_CACHE_SIZE
    BY DEF MAX_FRAME_CACHE_SIZE, MAX_STACK_SIZE
  <2>3. Cache(cache)'
    BY <2>1, <2>2 DEF Cache
  <2>4. Recent(cache, Keys(native))'
    BY <2>1 DEF Recent, Keys
  <2>5. AllLive(native)' /\ AllLeft(py)'
    BY <2>1 DEF AllLive, AllLeft
  <2> QED
    BY <2>3, <2>4, <2>5
<1>7. Sound(py)' /\ Sound(out)'
  BY <1>1, <1>6 DEF AllLeft, Sound
<1>8. Len(py) <= MAX_STACK_SIZE
  BY DEF IInv, PyFits
<1>9. (Len(native) <= MAX_STACK_SIZE)' /\ PyFits'
  BY <1>4, <1>8 DEF PyFits, MAX_STACK_SIZE
<1> QED
  BY <1>5, <1>6, <1>7, <1>9 DEF IInv

LEMMA NativeEndsInv == ASSUME IInv, NativeEnds PROVE IInv'
<1>1. PICK n \in 1..Len(real) : n <= NativeRoom /\ UnwindNative(n)
  BY DEF NativeEnds
<1>2. n \in 0..Len(real) /\ n <= MAX_STACK_SIZE
  BY <1>1 DEF NativeRoom
<1> QED
  BY <1>1, <1>2, UnwindNativeInv DEF NativeEnds

LEMMA NativeFailsInv == ASSUME IInv, NativeFails PROVE IInv'
<1>1. PICK n \in 0..(Len(real) - 1) : n < NativeRoom /\ UnwindNative(n)
  BY DEF NativeFails
<1>2. Len(real) \in Nat /\ MAX_STACK_SIZE \in Nat
  BY CountersOK, Sizes DEF IInv
<1>3. n \in 0..Len(real) /\ n <= MAX_STACK_SIZE
  BY <1>1, <1>2 DEF NativeRoom
<1> QED
  BY <1>1, <1>3, UnwindNativeInv DEF NativeFails

\* There is nothing to unwind, and what an earlier sample left stays on the stack.
LEMMA NoFramesInv == ASSUME IInv, NoFrames PROVE IInv'
<1>1. Types'
  BY DEF IInv, Types, NoFrames
<1>2. Len(py) <= MAX_STACK_SIZE
  BY DEF IInv, PyFits, NoFrames
<1>3. Cache(cache)' /\ (Len(native) <= MAX_STACK_SIZE)' /\ PyFits'
  BY <1>2 DEF IInv, PyFits, Cache, NoFrames, MAX_STACK_SIZE, MAX_FRAME_CACHE_SIZE
<1>4. AllLive(native)' /\ Sound(py)' /\ Sound(out)' /\ pc' = "interleave"
  BY DEF IInv, NoFrames, AllLive, Sound
<1> QED
  BY <1>1, <1>3, <1>4 DEF IInv

\* The Python stack is unwound.
LEMMA UnwindPythonInv ==
  ASSUME IInv, pc = "python", NEW p \in Seq(Fresh), Fits(p), NEW n \in 0..Len(p), UnwindPython(p, n),
         pc' = "interleave", UNCHANGED <<setting, real, kernel, out>>
  PROVE  IInv'
<1>1. Types /\ Cache(cache) /\ Len(native) <= MAX_STACK_SIZE /\ AllLive(native) /\ Recent(cache, Keys(native)) /\ Sound(out)
  BY DEF IInv
<1>2. /\ Cache(cache')
      /\ native' \in Seq(Pointed) /\ AllLive(native') /\ Same(native', native)
      /\ py' \in Seq(Pointed) /\ AllLive(py') /\ Fits(py')
  BY <1>1, UnwindPythonOK
<1>3. Types'
  BY <1>1, <1>2 DEF Types
<1>4. Cache(cache)' /\ AllLive(native)' /\ Sound(py)' /\ Sound(out)'
  BY <1>1, <1>2 DEF Cache, AllLive, Sound, MAX_FRAME_CACHE_SIZE, MAX_STACK_SIZE
<1>5. (Len(native) <= MAX_STACK_SIZE)' /\ PyFits'
  BY <1>1, <1>2 DEF Same, Fits, PyFits, version, MAX_STACK_SIZE
<1> QED
  BY <1>3, <1>4, <1>5 DEF IInv

LEMMA PythonEndsInv == ASSUME IInv, PythonEnds PROVE IInv'
<1> DEFINE chain  == Chain
           w      == Walked(chain)
           pushed == Pushed(chain, w)
<1>1. Types /\ chain \in Seq(Push)
  BY ChainOK DEF IInv
<1>2. UnwindPython(pushed, Len(pushed))
  BY DEF PythonEnds
<1> HIDE DEF chain
<1>3. w \in 0..Len(chain) /\ w \in 0..w /\ \A i \in 0..w : Fits(Pushed(chain, i))
  <2>1. w \in 0..Len(chain) /\ \A i \in 0..w : Fits(Pushed(chain, i))
    BY <1>1, WalkedOK, Zenon
  <2> HIDE DEF w
  <2>2. w \in 0..w
    BY <2>1
  <2> QED
    BY <2>1, <2>2
<1> HIDE DEF w
<1>4. pushed \in Seq(Fresh)
  <2>1. \A i \in 0..Len(chain) : Pushed(chain, i) \in Seq(Fresh)
    BY <1>1, PushedIs, Zenon
  <2> QED
    BY <1>3, <2>1
<1>5. Fits(pushed)
  BY <1>3
<1> HIDE DEF pushed
<1>6. Len(pushed) \in 0..Len(pushed)
  BY <1>4
<1> QED
  BY <1>2, <1>4, <1>5, <1>6, UnwindPythonInv DEF PythonEnds

LEMMA PythonFailsInv == ASSUME IInv, PythonFails PROVE IInv'
<1> DEFINE chain  == Chain
           w      == Walked(chain)
           pushed == Pushed(chain, w)
<1>1. Types /\ chain \in Seq(Push)
  BY ChainOK DEF IInv
<1>2. \/ \E n \in 0..w : UnwindPython(Pushed(chain, n), Len(Pushed(chain, n)))
      \/ \E n \in 0..(Len(pushed) - 1) : UnwindPython(pushed, n)
  BY DEF PythonFails
<1>3. pc = "python" /\ pc' = "interleave" /\ UNCHANGED <<setting, real, kernel, out>>
  BY DEF PythonFails
<1> HIDE DEF chain
<1>4. w \in 0..Len(chain) /\ \A i \in 0..w : Fits(Pushed(chain, i))
  BY <1>1, WalkedOK, Zenon
<1>5. \A i \in 0..Len(chain) : Pushed(chain, i) \in Seq(Fresh)
  BY <1>1, PushedIs, Zenon
<1> HIDE DEF w
<1>6. (\A i \in 0..w : i \in 0..Len(chain)) /\ w \in 0..w
  BY <1>4
<1>7. CASE \E n \in 0..w : UnwindPython(Pushed(chain, n), Len(Pushed(chain, n)))
  <2>1. PICK n \in 0..w : UnwindPython(Pushed(chain, n), Len(Pushed(chain, n)))
    BY <1>7
  <2> DEFINE p == Pushed(chain, n)
  <2>2. p \in Seq(Fresh) /\ Fits(p) /\ UnwindPython(p, Len(p))
    BY <1>4, <1>5, <1>6, <2>1
  <2> HIDE DEF p
  <2>3. Len(p) \in 0..Len(p)
    BY <2>2
  <2> QED
    BY <1>3, <2>2, <2>3, UnwindPythonInv
<1>8. CASE \E n \in 0..(Len(pushed) - 1) : UnwindPython(pushed, n)
  <2>1. pushed \in Seq(Fresh) /\ Fits(pushed)
    BY <1>4, <1>5, <1>6
  <2> HIDE DEF pushed
  <2>2. PICK n \in 0..(Len(pushed) - 1) : UnwindPython(pushed, n)
    BY <1>8
  <2>3. n \in 0..Len(pushed)
    BY <2>1, <2>2
  <2> QED
    BY <1>3, <2>1, <2>2, <2>3, UnwindPythonInv
<1> QED
  BY <1>2, <1>7, <1>8

\* The stacks are shown.
LEMMA ShowStacksInv == ASSUME IInv, ShowStacks PROVE IInv'
<1> DEFINE top   == IF version = 310 \/ py = <<>> THEN py ELSE Front(py)
           shown == ShownAfter(top)[Len(native)]
           back  == [i \in DOMAIN kernel |-> Pointer(Reverse(kernel)[i])]
           M     == MAX_STACK_SIZE
<1>1. Types /\ Sound(py) /\ AllLive(native) /\ Cache(cache) /\ PyFits /\ pc = "interleave"
  BY DEF IInv, ShowStacks
<1>2. py \in Seq(Pointed) /\ Len(py) \in Nat /\ native \in Seq(Pointed) /\ M \in Nat
  BY <1>1, Sizes DEF Types
<1>3. top \in Seq(Pointed) /\ Sound(top) /\ Len(top) <= M
  <2>1. CASE version = 310
    <3>1. top = py /\ version # 311
      BY <2>1
    <3> QED
      BY <1>1, <1>2, <3>1 DEF PyFits
  <2>2. CASE py = <<>>
    <3>1. top = py /\ Len(py) = 0
      BY <2>2
    <3> QED
      BY <1>1, <1>2, <3>1
  <2>3. CASE version # 310 /\ py # <<>>
    <3> DEFINE a == SubSeq(py, 1, Len(py) - 1)
    <3>1. top = a
      BY <2>3 DEF Front
    <3>2. 1 \in 1..(Len(py) + 1) /\ Len(py) - 1 \in 0..Len(py) /\ Len(py) - 1 <= M
      <4>1. Len(py) # 0
        BY <1>2, <2>3
      <4> QED
        BY <1>1, <1>2, <4>1 DEF PyFits
    <3>3. a \in Seq(Pointed) /\ Sound(a)
      <4>1. py \in Seq(Whole)
        BY <1>1, <1>2, WholeOK
      <4>2. a \in Seq(Whole)
        BY <3>2, <4>1, PartOK
      <4> QED
        BY <4>2, WholeOK
    <3>4. Len(a) = Len(py) - 1
      <4> DEFINE b == Len(py) - 1
      <4>1. b \in 0..Len(py) /\ b \in Nat /\ a = SubSeq(py, 1, b)
        BY <1>2, <3>2
      <4> HIDE DEF a, b
      <4>2. Len(SubSeq(py, 1, b)) = b
        BY <1>2, <4>1
      <4> QED
        BY <4>1, <4>2 DEF b
    <3> HIDE DEF top, a
    <3> QED
      BY <3>1, <3>2, <3>3, <3>4
  <2> QED
    BY <2>1, <2>2, <2>3
<1>4. py' = shown.py /\ out' = shown.out \o back /\ native' = <<>> /\ pc' = "shown"
  BY DEF ShowStacks
<1> HIDE DEF top
<1>5. ShownDone(shown, Len(top), Whole)
  <2>1. native \in Seq(Whole) /\ top \in Seq(Whole)
    <3>1. Sound(native)
      BY <1>1 DEF AllLive, Sound
    <3> QED
      BY <1>2, <1>3, <3>1, WholeOK
  <2> QED
    BY <2>1, ShownOK
<1> HIDE DEF shown
<1>6. back \in Seq(Seen) /\ Sound(back)
  <2>1. kernel \in Seq(KernelFrame) /\ Len(kernel) \in Nat /\ DOMAIN kernel = 1..Len(kernel)
    BY <1>1 DEF Types
  <2>2. ASSUME NEW i \in 1..Len(kernel) PROVE Pointer(Reverse(kernel)[i]) \in Seen /\ Pointer(Reverse(kernel)[i]).live
    <3>1. Reverse(kernel)[i] = kernel[Len(kernel) - i + 1] /\ Len(kernel) - i + 1 \in 1..Len(kernel)
      BY <2>1 DEF Reverse
    <3>2. kernel[Len(kernel) - i + 1] \in KernelFrame
      BY <2>1, <3>1
    <3> QED
      BY <3>1, <3>2 DEF Pointer, Seen
  <2>3. back \in [1..Len(kernel) -> Seen] /\ \A i \in 1..Len(kernel) : back[i].live
    BY <2>1, <2>2
  <2> HIDE DEF back
  <2>4. back \in Seq(Seen) /\ Len(back) = Len(kernel)
    BY <2>1, <2>3
  <2> QED
    BY <2>3, <2>4 DEF Sound
<1> HIDE DEF back
<1>7. shown.out \in Seq(Seen) /\ Sound(shown.out)
  <2>1. Pointed \subseteq Seen
    BY DEF Pointed, Seen
  <2>2. shown.out \in Seq(Pointed) /\ Sound(shown.out)
    BY <1>5, WholeOK DEF ShownDone
  <2> QED
    BY <2>1, <2>2
<1>8. out' \in Seq(Seen) /\ Sound(out')
  <2> DEFINE a == shown.out
             b == back
             c == a \o b
  <2>1. Len(a) \in Nat /\ Len(b) \in Nat
    BY <1>6, <1>7
  <2>2. /\ c \in Seq(Seen) /\ Len(c) = Len(a) + Len(b)
        /\ \A i \in 1..(Len(a) + Len(b)) : c[i] = IF i <= Len(a) THEN a[i] ELSE b[i - Len(a)]
    BY <1>6, <1>7, ConcatProperties
  <2>3. (\A i \in 1..Len(a) : a[i].live \/ a[i].left) /\ \A i \in 1..Len(b) : b[i].live \/ b[i].left
    BY <1>6, <1>7 DEF Sound
  <2>4. out' = c
    BY <1>4
  <2> HIDE DEF a, b, c
  <2>5. \A i \in 1..(Len(a) + Len(b)) : (i <= Len(a) => i \in 1..Len(a)) /\ (~(i <= Len(a)) => i - Len(a) \in 1..Len(b))
    BY <2>1
  <2>6. \A i \in 1..(Len(a) + Len(b)) : c[i].live \/ c[i].left
    BY <2>2, <2>3, <2>5
  <2> QED
    BY <2>2, <2>4, <2>6 DEF Sound
<1>9. py' \in Seq(Pointed) /\ Sound(py') /\ Len(py') <= M
  <2>1. shown.py \in Seq(Pointed) /\ Sound(shown.py) /\ Len(shown.py) <= Len(top)
    BY <1>5, WholeOK DEF ShownDone
  <2>2. Len(shown.py) \in Nat /\ Len(top) \in Nat
    BY <1>3, <2>1
  <2>3. Len(shown.py) <= M
    BY <1>2, <1>3, <2>1, <2>2
  <2> QED
    BY <1>4, <2>1, <2>3
<1>10. UNCHANGED <<setting, real, kernel, cache>>
  BY DEF ShowStacks
<1>11. Types'
  BY <1>1, <1>4, <1>8, <1>9, <1>10 DEF Types
<1>12. Cache(cache)'
  BY <1>1, <1>10 DEF Cache, MAX_FRAME_CACHE_SIZE, MAX_STACK_SIZE
<1>13. (Len(native) <= MAX_STACK_SIZE)' /\ PyFits'
  <2>1. Len(native') = 0
    BY <1>4
  <2> QED
    BY <1>2, <1>9, <1>10, <2>1 DEF PyFits, MAX_STACK_SIZE
<1>14. AllLive(native)' /\ Sound(py)' /\ Sound(out)'
  BY <1>4, <1>8, <1>9 DEF AllLive, Sound
<1> QED
  BY <1>4, <1>11, <1>12, <1>13, <1>14 DEF IInv

LEMMA ShownInv == ASSUME IInv, Shown PROVE IInv'
<1>1. Types'
  <2>1. <<>> \in Seq(Call) /\ <<>> \in Seq(KernelFrame) /\ <<>> \in Seq(Seen)
    OBVIOUS
  <2> QED
    BY <2>1 DEF IInv, Types, Shown
<1>2. Len(py) <= MAX_STACK_SIZE
  BY DEF IInv, PyFits, Shown
<1>3. Cache(cache)' /\ (Len(native) <= MAX_STACK_SIZE)' /\ PyFits'
  BY <1>2 DEF IInv, PyFits, Cache, Shown, MAX_STACK_SIZE, MAX_FRAME_CACHE_SIZE
<1>4. AllLive(native)' /\ Sound(py)' /\ Sound(out)' /\ pc' = "idle" /\ native' = <<>>
  BY DEF IInv, Shown, AllLive, Sound
<1> QED
  BY <1>1, <1>3, <1>4 DEF IInv

LEMMA NextInv == ASSUME IInv, [Next]_vars PROVE IInv'
<1>1. CASE Begin
  BY <1>1, BeginInv
<1>2. CASE NativeEnds
  BY <1>2, NativeEndsInv
<1>3. CASE NativeFails
  BY <1>3, NativeFailsInv
<1>4. CASE NoFrames
  BY <1>4, NoFramesInv
<1>5. CASE PythonEnds
  BY <1>5, PythonEndsInv
<1>6. CASE PythonFails
  BY <1>6, PythonFailsInv
<1>7. CASE ShowStacks
  BY <1>7, ShowStacksInv
<1>8. CASE Shown
  BY <1>8, ShownInv
<1>9. CASE UNCHANGED vars
  <2>1. /\ setting' = setting /\ real' = real /\ kernel' = kernel /\ pc' = pc
        /\ native' = native /\ py' = py /\ cache' = cache /\ out' = out
    BY <1>9 DEF vars
  <2>2. Types' /\ PyFits' /\ (Len(native) <= MAX_STACK_SIZE)'
    BY <2>1 DEF IInv, Types, PyFits, MAX_STACK_SIZE, version
  <2>3. Cache(cache)'
    BY <2>1 DEF IInv, Cache, MAX_STACK_SIZE, MAX_FRAME_CACHE_SIZE
  <2>4. AllLive(native)' /\ Sound(py)' /\ Sound(out)'
    BY <2>1 DEF IInv, AllLive, Sound
  <2>5. (pc \in {"idle", "native", "shown"} => native = <<>>)' /\ (pc \in {"native", "python"} => AllLeft(py))'
    BY <2>1 DEF IInv, AllLeft
  <2>6. (pc = "python" => Recent(cache, Keys(native)))'
    BY <2>1 DEF IInv, Recent, Keys
  <2> QED
    BY <2>2, <2>3, <2>4, <2>5, <2>6 DEF IInv
<1> QED
  BY <1>1, <1>2, <1>3, <1>4, <1>5, <1>6, <1>7, <1>8, <1>9 DEF Next

\* The stacks and the cache are well formed, the frames of the sample under way are live
\* and those it has used are the ones used last (cache.c lru_cache__maybe_hit and
\* lru_cache__store, as py_thread.c uses them).
THEOREM Invariance == Spec => []IInv
<1> QED
  BY InitInv, NextInv, PTL DEF Spec

\* What the invariant says of the stacks.
LEMMA InvStack == ASSUME IInv PROVE StackOK
<1>1. StackInArray
  BY DEF IInv, Cache, PyFits, StackInArray, Last
<1>2. FramesLive
  <2>1. native \in Seq(Pointed) /\ py \in Seq(Pointed) /\ out \in Seq(Seen)
    BY DEF IInv, Types
  <2>2. AllLive(native) /\ Sound(py) /\ Sound(out)
    BY DEF IInv
  <2>3. DOMAIN native = 1..Len(native) /\ DOMAIN py = 1..Len(py) /\ DOMAIN out = 1..Len(out)
    BY <2>1
  <2> QED
    BY <2>2, <2>3 DEF FramesLive, ToSet, AllLive, Sound
<1> QED
  BY <1>1, <1>2 DEF StackOK

\* For every size of the stacks and every thread: the native and the Python stack stay
\* in their arrays, and no frame that the sample under way refers to is freed, neither by
\* those it uses after it nor by resolving the stack twice (_py_thread__unwind_native_frame_stack,
\* _py_thread__resolve_py_stack and py_thread__emit_collapsed_stack of py_thread.c, with the
\* size that py_proc.c gives the cache).
THEOREM StackCorrect == Spec => []StackOK
<1> QED
  BY Invariance, InvStack, PTL

-------------------------------------------------------------------------------
(* What is shown is what the thread was doing.  First, how sequences are joined. *)

\* What is joined up to n depends on the first n sequences only.
LEMMA JoinedSame ==
  ASSUME NEW s, NEW t, Len(s) \in Nat, Len(t) \in Nat,
         NEW n \in Nat, n <= Len(s), n <= Len(t), \A i \in 1..n : s[i] = t[i]
  PROVE  Joined(s)[n] = Joined(t)[n]
<1> DEFINE G == Joined(s)
           H == Joined(t)
           Wrong == {i \in Nat : i <= n /\ G[i] # H[i]}
<1>1. G[0] = <<>> /\ \A i \in 1..Len(s) : G[i] = G[i - 1] \o s[i]
  BY JoinedIs
<1>2. H[0] = <<>> /\ \A i \in 1..Len(t) : H[i] = H[i - 1] \o t[i]
  BY JoinedIs
<1> HIDE DEF G, H
<1>3. Wrong = {}
  <2> SUFFICES ASSUME Wrong # {} PROVE FALSE
    OBVIOUS
  <2>1. PICK i \in Wrong : \A j \in Wrong : i <= j
    BY Least
  <2>2. i \in Nat /\ i <= n /\ G[i] # H[i] /\ i # 0
    BY <1>1, <1>2, <2>1
  <2>3. i \in 1..Len(s) /\ i \in 1..Len(t) /\ i \in 1..n
    <3> DEFINE a == Len(s)
               b == Len(t)
    <3>1. a \in Nat /\ b \in Nat /\ n <= a /\ n <= b
      OBVIOUS
    <3> HIDE DEF a, b
    <3>2. i \in 1..a /\ i \in 1..b /\ i \in 1..n
      BY <2>2, <3>1
    <3> QED
      BY <3>2 DEF a, b
  <2>4. i - 1 \in Nat /\ i - 1 <= n /\ ~(i <= i - 1)
    BY <2>2
  <2>5. G[i - 1] = H[i - 1]
    BY <2>1, <2>4
  <2> QED
    BY <1>1, <1>2, <2>2, <2>3, <2>5
<1>4. n \in Nat /\ n <= n
  OBVIOUS
<1> QED
  BY <1>3, <1>4 DEF G, H

\* Sequences of sequences are joined one after the other.
LEMMA JoinedConcat ==
  ASSUME NEW T, NEW a \in Seq(Seq(T)), NEW b \in Seq(Seq(T))
  PROVE  All(a \o b) = All(a) \o All(b)
<1> DEFINE c == a \o b
           G == Joined(c)
           H == Joined(b)
           l == Len(a)
           k == Len(b)
           first == All(a)
           Wrong == {i \in Nat : i <= k /\ G[l + i] # first \o H[i]}
<1>1. l \in Nat /\ k \in Nat /\ l \in 0..l /\ \A i \in 1..k : b[i] \in Seq(T)
  OBVIOUS
<1>2. /\ c \in Seq(Seq(T)) /\ Len(c) = l + k
      /\ \A i \in 1..(l + k) : c[i] = IF i <= l THEN a[i] ELSE b[i - l]
  BY ConcatProperties
<1> HIDE DEF c
<1>3. G[l] = first
  <2>1. \A i \in 1..l : c[i] = a[i]
    BY <1>1, <1>2
  <2>2. Len(c) \in Nat /\ l <= Len(c)
    BY <1>1, <1>2
  <2>3. Joined(c)[l] = Joined(a)[l]
    BY <1>1, <2>1, <2>2, JoinedSame
  <2> QED
    BY <2>3 DEF All
<1>4. H[0] = <<>> /\ (\A i \in 1..k : H[i] = H[i - 1] \o b[i]) /\ \A i \in 0..k : H[i] \in Seq(T)
  BY <1>1, JoinedIs, JoinedType
<1>5. \A i \in 1..(l + k) : G[i] = G[i - 1] \o c[i]
  <2>1. Len(c) \in Nat
    BY <1>1, <1>2
  <2> QED
    BY <1>2, <2>1, JoinedIs
<1>6. first \in Seq(T)
  BY <1>1, JoinedType DEF All
<1>7. All(c) = G[l + k] /\ All(b) = H[k]
  BY <1>2 DEF All
<1> HIDE DEF G, H, first, l, k
<1>8. Wrong = {}
  <2> SUFFICES ASSUME Wrong # {} PROVE FALSE
    OBVIOUS
  <2>1. PICK i \in Wrong : \A j \in Wrong : i <= j
    BY Least
  <2>2. first \o <<>> = first
    BY <1>6, ConcatEmptySeq
  <2>3. i \in Nat /\ i <= k /\ G[l + i] # first \o H[i]
    BY <2>1
  <2>4. i # 0
    <3>1. i = 0 => l + i = l
      BY <1>1
    <3> QED
      BY <1>3, <1>4, <2>2, <2>3, <3>1
  <2>5. /\ i \in 1..k /\ l + i \in 1..(l + k) /\ ~(l + i <= l) /\ (l + i) - l = i
        /\ (l + i) - 1 = l + (i - 1) /\ i - 1 \in 0..k /\ i - 1 \in Nat /\ i - 1 <= k /\ ~(i <= i - 1)
    BY <1>1, <2>3, <2>4
  <2>6. G[l + (i - 1)] = first \o H[i - 1]
    BY <2>1, <2>5
  <2>7. G[l + i] = (first \o H[i - 1]) \o b[i]
    BY <1>2, <1>5, <2>5, <2>6
  <2> DEFINE x == H[i - 1]
             y == b[i]
  <2>8. x \in Seq(T) /\ y \in Seq(T)
    BY <1>1, <1>4, <2>5
  <2>9. H[i] = x \o y
    BY <1>4, <2>5
  <2>10. G[l + i] = (first \o x) \o y
    BY <2>7
  <2> HIDE DEF x, y
  <2>11. (first \o x) \o y = first \o (x \o y)
    <3> HIDE DEF Wrong
    <3>1. first \in Seq(T) /\ x \in Seq(T) /\ y \in Seq(T)
      BY <1>6, <2>8
    <3> QED
      BY <3>1, ConcatAssociative
  <2> QED
    BY <2>3, <2>9, <2>10, <2>11
<1>9. G[l + k] = first \o H[k]
  <2>1. k \in Nat /\ k <= k
    BY <1>1
  <2>2. k \notin Wrong
    <3> HIDE DEF Wrong
    <3> QED
      BY <1>8
  <2> QED
    BY <2>1, <2>2
<1> QED
  BY <1>7, <1>9 DEF c, first

\* Sequences of one element.
LEMMA SinglesIs ==
  ASSUME NEW T, NEW r \in Seq(T)
  PROVE  LET s == [i \in 1..Len(r) |-> <<r[i]>>]
         IN  s \in Seq(Seq(T)) /\ Len(s) = Len(r) /\ All(s) = r
<1> DEFINE s == [i \in 1..Len(r) |-> <<r[i]>>]
           l == Len(r)
           G == Joined(s)
           Wrong == {i \in Nat : i <= l /\ G[i] # SubSeq(r, 1, i)}
<1>1. l \in Nat /\ \A i \in 1..l : r[i] \in T /\ <<r[i]>> \in Seq(T)
  OBVIOUS
<1>2. s \in Seq(Seq(T)) /\ Len(s) = l /\ \A i \in 1..l : s[i] = <<r[i]>>
  BY <1>1
<1> HIDE DEF s
<1>3. G[0] = <<>> /\ \A i \in 1..l : G[i] = G[i - 1] \o s[i]
  BY <1>1, <1>2, JoinedIs
<1>4. All(s) = G[l]
  BY <1>2 DEF All
<1> HIDE DEF G
<1>5. Wrong = {}
  <2> SUFFICES ASSUME Wrong # {} PROVE FALSE
    OBVIOUS
  <2>1. PICK i \in Wrong : \A j \in Wrong : i <= j
    BY Least
  <2>2. i \in Nat /\ i <= l /\ G[i] # SubSeq(r, 1, i)
    BY <2>1
  <2>3. SubSeq(r, 1, 0) = <<>>
    OBVIOUS
  <2>4. i # 0
    BY <1>3, <2>2, <2>3
  <2>5. i \in 1..l /\ 1 \in 1..l /\ i - 1 \in Nat /\ i - 1 <= l /\ ~(i <= i - 1) /\ i \in 1..l
    BY <1>1, <2>2, <2>4
  <2>6. G[i - 1] = SubSeq(r, 1, i - 1)
    BY <2>1, <2>5
  <2>7. SubSeq(r, 1, i) = SubSeq(r, 1, i - 1) \o <<r[i]>>
    BY <2>5, SubSeqRecursiveSecond
  <2> QED
    BY <1>2, <1>3, <2>2, <2>5, <2>6, <2>7
<1>6. G[l] = SubSeq(r, 1, l)
  BY <1>1, <1>5
<1>7. SubSeq(r, 1, l) = r
  BY SubSeqFull
<1> QED
  BY <1>2, <1>4, <1>6, <1>7 DEF s

\* What a call pushes: its frames, and a marker at their end.
Frames(call) == [i \in 1..Len(call.run) |-> Pointer(call.run[i])]
Ended(call)  == \/ version = 311 /\ call.run # <<>>
                \/ version = 312 /\ (call.run # <<>> \/ call.shim)

LEMMA CallPushes ==
  ASSUME Types, NEW call \in Call
  PROVE  /\ Frames(call) \in Seq(Fresh) /\ Len(Frames(call)) = Len(call.run) /\ Len(call.run) \in Nat
         /\ \A i \in 1..Len(call.run) : Frames(call)[i].key = call.run[i] /\ Frames(call)[i].key # CFRAME_MAGIC
         /\ Marker \in Fresh /\ Marker.key = CFRAME_MAGIC
         /\ All(RunPushes(call)) = IF Ended(call) THEN Append(Frames(call), Marker) ELSE Frames(call)
<1> DEFINE R == Frames(call)
           l == Len(call.run)
           s == [i \in 1..Len(R) |-> <<R[i]>>]
           M == <<Marker>>
<1>1. call.run \in Seq(Frame) /\ l \in Nat /\ DOMAIN call.run = 1..l /\ \A i \in 1..l : call.run[i] \in Frame
  BY DEF Call
<1>2. Marker \in Fresh /\ Marker.key = CFRAME_MAGIC
  BY DEF Marker, Fresh, Pointed
<1>3. \A f \in Frame : Pointer(f) \in Fresh /\ Pointer(f).key = f /\ f # CFRAME_MAGIC
  BY KeyAssumption DEF Pointer, Fresh, Pointed, Key
<1>4. R \in Seq(Fresh) /\ Len(R) = l /\ \A i \in 1..l : R[i] = Pointer(call.run[i])
  <2>1. R \in [1..l -> Fresh] /\ \A i \in 1..l : R[i] = Pointer(call.run[i])
    BY <1>1, <1>3 DEF Frames
  <2> HIDE DEF R, l
  <2> QED
    BY <1>1, <2>1
<1>5. \A i \in 1..l : R[i].key = call.run[i] /\ R[i].key # CFRAME_MAGIC
  BY <1>1, <1>3, <1>4
<1>6. /\ RunPushes(call) = CASE version = 310 -> s
                           [] version = 311 -> IF s = <<>> THEN s ELSE [s EXCEPT ![Len(s)] = Append(@, Marker)]
                           [] version = 312 -> IF s = <<>> /\ ~call.shim THEN s ELSE Append(s, M)
      /\ (s = <<>> <=> call.run = <<>>) /\ s \in Seq(Seq(Fresh)) /\ Len(s) = l /\ All(s) = R
      /\ \A i \in 1..l : s[i] = <<R[i]>>
  <2> DEFINE run == [i \in DOMAIN call.run |-> <<Pointer(call.run[i])>>]
  <2>1. RunPushes(call) = CASE version = 310 -> run
                          [] version = 311 -> IF run = <<>> THEN run ELSE [run EXCEPT ![Len(run)] = Append(@, Marker)]
                          [] version = 312 -> IF run = <<>> /\ ~call.shim THEN run ELSE Append(run, <<Marker>>)
    BY DEF RunPushes
  <2> HIDE DEF R
  <2>2. run = s
    BY <1>1, <1>4
  <2>3. s \in Seq(Seq(Fresh)) /\ Len(s) = Len(R) /\ All(s) = R
    BY <1>4, SinglesIs
  <2>4. \A i \in 1..l : s[i] = <<R[i]>>
    BY <1>4
  <2> HIDE DEF s, run, l
  <2>5. Len(s) = l
    BY <1>4, <2>3
  <2>6. (s = <<>> <=> l = 0) /\ (call.run = <<>> <=> l = 0)
    BY <1>1, <2>3, <2>5 DEF l
  <2> QED
    BY <2>1, <2>2, <2>3, <2>4, <2>5, <2>6
<1> HIDE DEF s, R, l
<1>7. CASE ~Ended(call)
  <2>1. RunPushes(call) = s
    BY <1>6, <1>7, Sizes DEF Ended
  <2> QED
    BY <1>2, <1>4, <1>5, <1>6, <1>7, <1>1, <2>1 DEF R, l
<1>8. R \o M = Append(R, Marker) /\ M \in Seq(Fresh)
  <2>1. M \in Seq(Fresh)
    BY <1>2
  <2> QED
    BY <1>2, <1>4, <2>1, AppendIsConcat
<1>9. CASE version = 312 /\ Ended(call)
  <2> DEFINE last == <<M>>
  <2>1. RunPushes(call) = Append(s, M)
    BY <1>6, <1>9 DEF Ended
  <2>2. last \in Seq(Seq(Fresh)) /\ Len(last) = 1 /\ last[1] = M
    <3> HIDE DEF M
    <3> QED
      BY <1>8
  <2> HIDE DEF M, last
  <2>3. All(last) = M
    <3>1. All(last) = Joined(last)[1]
      BY <2>2 DEF All
    <3>2. Joined(last)[0] = <<>> /\ Joined(last)[1] = Joined(last)[0] \o last[1]
      <4>1. Len(last) \in Nat /\ 1 \in 1..Len(last) /\ 1 - 1 = 0
        BY <2>2
      <4> QED
        BY <4>1, JoinedIs
    <3>3. <<>> \o M = M
      BY <1>8, ConcatEmptySeq
    <3> QED
      BY <2>2, <3>1, <3>2, <3>3
  <2>4. Append(s, M) = s \o last
    BY <1>6, <1>8, AppendIsConcat DEF last
  <2>5. All(s \o last) = All(s) \o All(last)
    BY <1>6, <2>2, JoinedConcat
  <2>6. All(RunPushes(call)) = Append(R, Marker)
    BY <1>6, <1>8, <2>1, <2>3, <2>4, <2>5
  <2> QED
    BY <1>1, <1>2, <1>4, <1>5, <1>9, <2>6 DEF R, l
<1>10. CASE version = 311 /\ Ended(call)
  <2> DEFINE t == [s EXCEPT ![l] = Append(s[l], Marker)]
             two == Append(s[l], Marker)
             S == Joined(s)
             U == Joined(t)
  <2>1. RunPushes(call) = t
    BY <1>6, <1>10 DEF Ended
  <2>2. l \in 1..l /\ l - 1 \in Nat /\ l - 1 <= l /\ l - 1 \in 0..l /\ l \in 0..l
    <3>1. l # 0
      BY <1>1, <1>6, <1>10 DEF Ended, l
    <3> QED
      BY <1>1, <3>1
  <2>3. s[l] \in Seq(Fresh) /\ two \in Seq(Fresh) /\ two = s[l] \o M
    <3> DEFINE x == s[l]
    <3>1. x \in Seq(Fresh)
      BY <1>6, <2>2
    <3> HIDE DEF x
    <3>2. Append(x, Marker) \in Seq(Fresh) /\ Append(x, Marker) = x \o M
      BY <1>2, <3>1, AppendIsConcat, AppendProperties
    <3> QED
      BY <3>1, <3>2 DEF x
  <2> HIDE DEF two
  <2>4. t = [s EXCEPT ![l] = two]
    BY DEF two
  <2>5. t \in Seq(Seq(Fresh)) /\ Len(t) = l /\ t[l] = two /\ \A i \in 1..(l - 1) : t[i] = s[i]
    <3>1. l \in 1..Len(s) /\ \A i \in 1..(l - 1) : i \in 1..Len(s) /\ i # l
      BY <1>1, <1>6, <2>2
    <3> HIDE DEF t
    <3> QED
      BY <1>6, <2>3, <2>4, <3>1, ExceptSeq
  <2> HIDE DEF t
  <2>6. U[l - 1] = S[l - 1]
    <3>1. Len(t) \in Nat /\ Len(s) \in Nat /\ l - 1 <= Len(t) /\ l - 1 <= Len(s)
      BY <1>1, <1>6, <2>2, <2>5
    <3> QED
      BY <2>2, <2>5, <3>1, JoinedSame
  <2>7. U[l] = U[l - 1] \o two /\ S[l] = S[l - 1] \o s[l]
    <3>1. Len(t) \in Nat /\ Len(s) \in Nat /\ l \in 1..Len(s) /\ l \in 1..Len(t)
      BY <1>1, <1>6, <2>2, <2>5
    <3> QED
      BY <2>5, <3>1, JoinedIs
  <2>8. S[l - 1] \in Seq(Fresh)
    <3>1. l - 1 \in 0..Len(s)
      BY <1>6, <2>2
    <3> QED
      BY <1>6, <3>1, JoinedType
  <2>9. All(t) = U[l] /\ All(s) = S[l]
    BY <1>6, <2>5 DEF All
  <2> DEFINE x == S[l - 1]
             y == s[l]
  <2>10. x \in Seq(Fresh) /\ y \in Seq(Fresh) /\ All(t) = x \o (y \o M) /\ R = x \o y
    BY <1>6, <2>3, <2>6, <2>7, <2>8, <2>9
  <2> HIDE DEF S, U, x, y, M
  <2>11. (x \o y) \o M = x \o (y \o M)
    BY <1>8, <2>10, ConcatAssociative
  <2>12. All(RunPushes(call)) = Append(R, Marker)
    BY <1>8, <2>1, <2>10, <2>11
  <2> QED
    BY <1>1, <1>2, <1>4, <1>5, <1>10, <2>12 DEF R, l
<1> QED
  BY <1>7, <1>9, <1>10 DEF Ended

\* What the k innermost calls push.
Runs     == [i \in DOMAIN real |-> RunPushes(Reverse(real)[i])]
Inner(k) == All(Joined(Runs)[k])

LEMMA RunsOK ==
  ASSUME Types
  PROVE  /\ Len(real) \in Nat /\ (\A n \in 1..Len(real) : real[n] \in Call)
         /\ Runs \in Seq(Seq(Push)) /\ Len(Runs) = Len(real) /\ Chain = All(Runs)
         /\ \A k \in 1..Len(real) : Len(real) - k + 1 \in 1..Len(real) /\ Runs[k] = RunPushes(real[Len(real) - k + 1])
<1>1. real \in Seq(Call) /\ Len(real) \in Nat /\ DOMAIN real = 1..Len(real) /\ \A n \in 1..Len(real) : real[n] \in Call
  BY DEF Types
<1>2. \A k \in 1..Len(real) : Len(real) - k + 1 \in 1..Len(real)
  BY <1>1
<1>3. ASSUME NEW k \in 1..Len(real)
      PROVE  Runs[k] = RunPushes(real[Len(real) - k + 1]) /\ Runs[k] \in Seq(Push)
  <2>1. Runs[k] = RunPushes(Reverse(real)[k])
    BY <1>1 DEF Runs
  <2>2. Reverse(real)[k] = real[Len(real) - k + 1]
    BY DEF Reverse
  <2>3. real[Len(real) - k + 1] \in Call
    BY <1>1, <1>2
  <2> QED
    BY <2>1, <2>2, <2>3, RunPushesOK
<1>4. Runs \in Seq(Seq(Push)) /\ Len(Runs) = Len(real)
  <2>1. Runs \in [1..Len(real) -> Seq(Push)]
    <3>1. Runs = [i \in 1..Len(real) |-> RunPushes(Reverse(real)[i])]
      BY <1>1 DEF Runs
    <3>2. \A k \in 1..Len(real) : RunPushes(Reverse(real)[k]) \in Seq(Push)
      BY <1>3, <3>1
    <3> QED
      BY <3>1, <3>2
  <2> QED
    BY <1>1, <2>1
<1>5. Chain = All(Runs)
  BY DEF Chain, Runs
<1> QED
  BY <1>1, <1>2, <1>3, <1>4, <1>5

LEMMA NothingJoined == All(<<>>) = <<>>
<1>1. Len(<<>>) = 0 /\ 0 \in Nat
  OBVIOUS
<1>2. Joined(<<>>)[0] = <<>>
  BY <1>1, JoinedIs
<1> QED
  BY <1>1, <1>2 DEF All

LEMMA InnerIs ==
  ASSUME Types
  PROVE  /\ Inner(0) = <<>> /\ All(Chain) = Inner(Len(real))
         /\ \A k \in 0..Len(real) : Inner(k) \in Seq(Fresh)
         /\ \A k \in 1..Len(real) : Inner(k) = Inner(k - 1) \o All(RunPushes(real[Len(real) - k + 1]))
<1>1. /\ Len(real) \in Nat /\ Runs \in Seq(Seq(Push)) /\ Len(Runs) = Len(real) /\ Chain = All(Runs)
      /\ \A k \in 1..Len(real) : Runs[k] = RunPushes(real[Len(real) - k + 1])
  BY RunsOK
<1> DEFINE G == Joined(Runs)
           l == Len(real)
<1>2. G[0] = <<>> /\ (\A k \in 1..l : G[k] = G[k - 1] \o Runs[k]) /\ \A k \in 0..l : G[k] \in Seq(Push)
  BY <1>1, JoinedIs, JoinedType
<1>3. \A s \in Seq(Push) : s \in Seq(Seq(Fresh)) /\ All(s) \in Seq(Fresh)
  <2> SUFFICES ASSUME NEW s \in Seq(Push) PROVE s \in Seq(Seq(Fresh)) /\ All(s) \in Seq(Fresh)
    OBVIOUS
  <2>1. Push \subseteq Seq(Fresh)
    BY DEF Push
  <2>2. s \in Seq(Seq(Fresh))
    BY <2>1, SeqMonotonic
  <2>3. Len(s) \in 0..Len(s)
    <3>1. Len(s) \in Nat
      OBVIOUS
    <3> QED
      BY <3>1
  <2>4. All(s) \in Seq(Fresh)
    BY <2>2, <2>3, JoinedType DEF All
  <2> QED
    BY <2>2, <2>4
<1>4. All(Chain) = Inner(l)
  BY <1>1 DEF All, Inner
<1>5. Inner(0) = <<>>
  BY <1>2, NothingJoined DEF Inner
<1> HIDE DEF G
<1>6. \A k \in 0..l : Inner(k) \in Seq(Fresh)
  BY <1>2, <1>3 DEF Inner, G
<1>7. ASSUME NEW k \in 1..l PROVE Inner(k) = Inner(k - 1) \o All(RunPushes(real[l - k + 1]))
  <2>1. k - 1 \in 0..l
    BY <1>1
  <2> DEFINE a == G[k - 1]
             b == Runs[k]
  <2>2. a \in Seq(Push) /\ b \in Seq(Push)
    BY <1>1, <1>2, <2>1
  <2>3. G[k] = a \o b
    BY <1>2
  <2> HIDE DEF a, b
  <2>4. a \in Seq(Seq(Fresh)) /\ b \in Seq(Seq(Fresh))
    BY <1>3, <2>2
  <2>5. All(a \o b) = All(a) \o All(b)
    BY <2>4, JoinedConcat
  <2>6. Inner(k) = All(G[k]) /\ Inner(k - 1) = All(a)
    BY DEF Inner, G, a
  <2> QED
    BY <1>1, <2>3, <2>5, <2>6 DEF b
<1> QED
  BY <1>4, <1>5, <1>6, <1>7

\* The last element of what is put together, and the rest.
LEMMA LastOfAll ==
  ASSUME NEW T, NEW a \in Seq(T), NEW r \in Seq(T), NEW x \in T
  PROVE  LET c == a \o Append(r, x)
         IN  c \in Seq(T) /\ c # <<>> /\ c[Len(c)] = x /\ SubSeq(c, 1, Len(c) - 1) = a \o r
<1> DEFINE p == a \o r
           c == Append(p, x)
<1>1. p \in Seq(T) /\ Len(p) \in Nat /\ <<x>> \in Seq(T)
  BY ConcatProperties
<1>2. a \o Append(r, x) = c
  <2>1. Append(r, x) = r \o <<x>>
    BY AppendIsConcat
  <2>2. a \o (r \o <<x>>) = (a \o r) \o <<x>>
    <3> DEFINE M == <<x>>
    <3>1. M \in Seq(T)
      BY <1>1
    <3> HIDE DEF M
    <3>2. (a \o r) \o M = a \o (r \o M)
      BY <3>1, ConcatAssociative
    <3> QED
      BY <3>2 DEF M
  <2>3. Append(p, x) = p \o <<x>>
    <3> HIDE DEF p
    <3> QED
      BY <1>1, AppendIsConcat
  <2> QED
    BY <2>1, <2>2, <2>3
<1> HIDE DEF p
<1>3. c \in Seq(T) /\ c # <<>> /\ Len(c) = Len(p) + 1 /\ c[Len(p) + 1] = x /\ \A i \in 1..Len(p) : c[i] = p[i]
  BY <1>1, AppendProperties
<1> HIDE DEF c
<1>4. SubSeq(c, 1, Len(c) - 1) = p
  <2>1. Len(c) - 1 = Len(p)
    BY <1>1, <1>3
  <2>2. SubSeq(c, 1, Len(p)) = [i \in 1..Len(p) |-> c[i]]
    BY <1>1, <1>3
  <2>3. p = [i \in 1..Len(p) |-> p[i]]
    BY <1>1
  <2> QED
    BY <1>3, <2>1, <2>2, <2>3
<1> QED
  BY <1>2, <1>3, <1>4 DEF p

\* From 3.11 on what is pushed ends with a marker.
LEMMA InnerEnds ==
  ASSUME Types, version # 310, NEW k \in 0..Len(real), Inner(k) # <<>>
  PROVE  Inner(k)[Len(Inner(k))].key = CFRAME_MAGIC
<1> DEFINE l == Len(real)
           Fine(i) == Inner(i) = <<>> \/ Inner(i)[Len(Inner(i))].key = CFRAME_MAGIC
           Wrong == {i \in Nat : i <= k /\ ~Fine(i)}
<1>1. l \in Nat /\ k \in Nat /\ k <= l
  BY RunsOK
<1>2. Wrong = {}
  <2> SUFFICES ASSUME Wrong # {} PROVE FALSE
    OBVIOUS
  <2>1. PICK i \in Wrong : \A j \in Wrong : i <= j
    BY Least
  <2>2. i \in Nat /\ i <= k /\ ~Fine(i)
    BY <2>1
  <2>3. i # 0
    BY <2>2, InnerIs
  <2>4. /\ i \in 1..l /\ i - 1 \in 0..l /\ i \in 0..l /\ l - i + 1 \in 1..l
        /\ i - 1 \in Nat /\ i - 1 <= k /\ ~(i <= i - 1)
    BY <1>1, <2>2, <2>3
  <2>5. Fine(i - 1)
    BY <2>1, <2>4
  <2> DEFINE call == real[l - i + 1]
             a == Inner(i - 1)
             b == All(RunPushes(call))
             R == Frames(call)
  <2>6. call \in Call
    BY <2>4, RunsOK
  <2>7. Inner(i) = a \o b /\ a \in Seq(Fresh) /\ Inner(i) \in Seq(Fresh)
    BY <2>4, InnerIs
  <2> HIDE DEF call
  <2>8. /\ R \in Seq(Fresh) /\ Len(R) = Len(call.run) /\ Marker \in Fresh /\ Marker.key = CFRAME_MAGIC
        /\ b = IF Ended(call) THEN Append(R, Marker) ELSE R
    BY <2>6, CallPushes
  <2> HIDE DEF R
  <2>9. CASE Ended(call)
    <3> DEFINE c == a \o Append(R, Marker)
    <3>1. Inner(i) = c
      BY <2>7, <2>8, <2>9
    <3> HIDE DEF Wrong, Fine, a, b
    <3>2. a \in Seq(Fresh) /\ R \in Seq(Fresh) /\ Marker \in Fresh
      BY <2>7, <2>8 DEF a
    <3>3. c[Len(c)] = Marker
      BY <3>2, LastOfAll
    <3> HIDE DEF c
    <3>4. Inner(i)[Len(Inner(i))].key = CFRAME_MAGIC
      BY <2>8, <3>1, <3>3
    <3> QED
      BY <2>2, <3>4 DEF Fine
  <2>10. CASE ~Ended(call)
    <3>1. call.run = <<>>
      BY <2>10, Sizes DEF Ended
    <3>2. b = <<>>
      <4>1. b = R /\ Len(R) = 0
        BY <2>8, <2>10, <3>1
      <4> QED
        BY <2>8, <4>1
    <3>3. Inner(i) = a
      BY <2>7, <3>2, ConcatEmptySeq
    <3> QED
      BY <2>2, <2>5, <3>3
  <2> QED
    BY <2>9, <2>10
<1>3. Fine(k)
  BY <1>1, <1>2
<1> QED
  BY <1>3

\* What is joined is empty only if all is.
LEMMA AllEmpty ==
  ASSUME NEW T, NEW s \in Seq(Seq(T)), All(s) = <<>>, NEW i \in 1..Len(s)
  PROVE  s[i] = <<>>
<1> DEFINE G == Joined(s)
           l == Len(s)
           Wrong == {n \in 0..l : G[n] # <<>>}
<1>1. l \in Nat /\ G[l] = <<>> /\ \A n \in 1..l : s[n] \in Seq(T)
  BY DEF All
<1>2. (\A n \in 1..l : G[n] = G[n - 1] \o s[n]) /\ \A n \in 0..l : G[n] \in Seq(T)
  BY <1>1, JoinedIs, JoinedType
<1> HIDE DEF G
<1>3. ASSUME NEW n \in 1..l, G[n] = <<>> PROVE G[n - 1] = <<>> /\ s[n] = <<>>
  <2>1. n - 1 \in 0..l
    BY <1>1
  <2> DEFINE a == G[n - 1]
             b == s[n]
  <2>2. a \in Seq(T) /\ b \in Seq(T) /\ a \o b = <<>>
    BY <1>1, <1>2, <1>3, <2>1
  <2> HIDE DEF a, b
  <2>3. a = <<>> /\ b = <<>>
    BY <2>2, ConcatEqualIffEmpty
  <2> QED
    BY <2>3 DEF a, b
<1>4. Wrong = {}
  <2> SUFFICES ASSUME Wrong # {} PROVE FALSE
    OBVIOUS
  <2>1. Wrong \in SUBSET Nat /\ \A n \in Wrong : n <= l
    BY <1>1
  <2>2. PICK m \in Wrong : \A n \in Wrong : n <= m
    BY <1>1, <2>1, Greatest
  <2>3. m \in 0..l /\ G[m] # <<>> /\ m # l
    BY <1>1, <2>2
  <2>4. m + 1 \in 1..l /\ (m + 1) - 1 = m /\ m + 1 \in 0..l /\ ~(m + 1 <= m)
    BY <1>1, <2>3
  <2>5. G[m + 1] = <<>>
    BY <2>2, <2>4
  <2> QED
    BY <1>3, <2>3, <2>4, <2>5
<1>5. i \in 0..l
  BY <1>1
<1> QED
  BY <1>3, <1>4, <1>5

\* From 3.11 on, what is popped for a call are its frames, which are above the last marker.
LEMMA RunAboveMarker ==
  ASSUME version # 310, NEW I \in Seq(Fresh), NEW F \in Seq(Fresh),
         I = <<>> \/ I[Len(I)].key = CFRAME_MAGIC,
         \A i \in 1..Len(F) : F[i].key # CFRAME_MAGIC
  PROVE  RunOf(I \o F) = [run |-> Reverse(F), rest |-> SubSeq(I, 1, Len(I) - 1)]
<1> DEFINE c == I \o F
           a == Len(I)
           b == Len(F)
           markers == {i \in DOMAIN c : c[i].key = CFRAME_MAGIC}
           m == IF markers = {} THEN 0 ELSE CHOOSE i \in markers : \A j \in markers : j <= i
<1>1. a \in Nat /\ b \in Nat
  OBVIOUS
<1>2. /\ c \in Seq(Fresh) /\ Len(c) = a + b /\ DOMAIN c = 1..(a + b)
      /\ \A i \in 1..(a + b) : c[i] = IF i <= a THEN I[i] ELSE F[i - a]
  BY ConcatProperties
<1>3. RunOf(c) = [run |-> Reverse(SubSeq(c, m + 1, Len(c))), rest |-> SubSeq(c, 1, m - 1)]
  BY DEF RunOf
<1>5. I = <<>> <=> a = 0
  BY <1>1
<1> HIDE DEF c
<1>6. \A i \in 1..(a + b) : i \in markers => i <= a
  <2> SUFFICES ASSUME NEW i \in 1..(a + b), i \in markers, ~(i <= a) PROVE FALSE
    OBVIOUS
  <2>1. i - a \in 1..b /\ c[i] = F[i - a]
    BY <1>1, <1>2
  <2> QED
    BY <2>1
<1>7. a # 0 => a \in markers
  <2> SUFFICES ASSUME a # 0 PROVE a \in markers
    OBVIOUS
  <2>1. a \in 1..(a + b) /\ c[a] = I[a]
    BY <1>1, <1>2
  <2>2. I[a].key = CFRAME_MAGIC
    BY <1>5
  <2> QED
    BY <1>2, <2>1, <2>2
<1>8. markers \subseteq 1..(a + b)
  BY <1>2
<1> HIDE DEF markers, a, b
<1>9. m = a
  <2>1. CASE a = 0
    <3>1. markers = {}
      BY <1>1, <1>6, <1>8, <2>1
    <3> QED
      BY <2>1, <3>1
  <2>2. CASE a # 0
    <3>1. a \in markers /\ \A j \in markers : j <= a
      BY <1>6, <1>7, <1>8, <2>2
    <3>2. m \in markers /\ \A j \in markers : j <= m
      BY <3>1
    <3> HIDE DEF m
    <3>3. m \in Nat /\ a <= m /\ m <= a
      BY <1>1, <1>8, <3>1, <3>2
    <3> QED
      BY <1>1, <3>3
  <2> QED
    BY <2>1, <2>2
<1> HIDE DEF m
<1>10. SubSeq(c, a + 1, a + b) = F
  <2>1. SubSeq(c, a + 1, a + b) = [i \in 1..b |-> c[a + i]]
    <3>1. SubSeq(c, a + 1, a + b) = [i \in 1..(1 + (a + b) - (a + 1)) |-> c[i + (a + 1) - 1]]
      BY <1>1, <1>2
    <3>2. 1 + (a + b) - (a + 1) = b /\ \A i \in 1..b : i + (a + 1) - 1 = a + i
      BY <1>1
    <3> QED
      BY <3>1, <3>2
  <2>2. \A i \in 1..b : c[a + i] = F[i]
    <3> SUFFICES ASSUME NEW i \in 1..b PROVE c[a + i] = F[i]
      OBVIOUS
    <3>1. a + i \in 1..(a + b) /\ ~(a + i <= a) /\ (a + i) - a = i
      BY <1>1
    <3> QED
      BY <1>2, <3>1
  <2>3. F = [i \in 1..b |-> F[i]]
    BY DEF b
  <2> QED
    BY <2>1, <2>2, <2>3
<1>11. SubSeq(c, 1, a - 1) = SubSeq(I, 1, a - 1)
  <2>1. \A i \in 1..(a - 1) : c[i] = I[i]
    BY <1>1, <1>2
  <2>2. SubSeq(c, 1, a - 1) = [i \in 1..(a - 1) |-> c[i]] /\ SubSeq(I, 1, a - 1) = [i \in 1..(a - 1) |-> I[i]]
    <3>1. 1 + (a - 1) - 1 = a - 1 /\ \A i \in 1..(a - 1) : i + 1 - 1 = i
      BY <1>1
    <3>2. SubSeq(c, 1, a - 1) = [i \in 1..(1 + (a - 1) - 1) |-> c[i + 1 - 1]]
      BY <1>1, <1>2
    <3>3. SubSeq(I, 1, a - 1) = [i \in 1..(1 + (a - 1) - 1) |-> I[i + 1 - 1]]
      BY <1>1, <1>2
    <3> QED
      BY <3>1, <3>2, <3>3
  <2> QED
    BY <2>1, <2>2
<1>12. RunOf(c) = [run |-> Reverse(F), rest |-> SubSeq(I, 1, a - 1)]
  BY <1>2, <1>3, <1>9, <1>10, <1>11
<1> QED
  BY <1>12 DEF c, a

\* Before 3.11 it is the last frame.
LEMMA RunOfLast ==
  ASSUME version = 310, NEW I \in Seq(Fresh), NEW F \in Seq(Fresh), Len(F) = 1
  PROVE  RunOf(I \o F) = [run |-> Reverse(F), rest |-> I]
<1> DEFINE x == F[1]
           c == Append(I, x)
<1>1. x \in Fresh /\ F = <<x>>
  <2>1. 1 \in 1..Len(F) /\ F \in [1..1 -> Fresh]
    <3>1. F \in [1..Len(F) -> Fresh]
      BY LenProperties
    <3> QED
      BY <3>1
  <2>2. x \in Fresh
    BY <2>1
  <2>3. <<x>> \in [1..1 -> Fresh] /\ \A i \in 1..1 : F[i] = x /\ <<x>>[i] = x
    BY <2>1, <2>2
  <2> HIDE DEF x
  <2>4. F = [i \in 1..1 |-> x] /\ <<x>> = [i \in 1..1 |-> x]
    BY <2>1, <2>3
  <2> QED
    BY <2>2, <2>4
<1>2. I \o F = c
  BY <1>1, AppendIsConcat
<1>3. Len(I) \in Nat /\ c \in Seq(Fresh) /\ Len(c) = Len(I) + 1 /\ c[Len(I) + 1] = x /\ \A i \in 1..Len(I) : c[i] = I[i]
  BY <1>1, AppendProperties
<1> HIDE DEF c
<1>4. RunOf(c) = [run |-> <<c[Len(c)]>>, rest |-> SubSeq(c, 1, Len(c) - 1)]
  BY DEF RunOf, Last, Front
<1>5. SubSeq(c, 1, Len(c) - 1) = I
  <2>1. Len(c) - 1 = Len(I)
    BY <1>3
  <2>2. SubSeq(c, 1, Len(I)) = [i \in 1..Len(I) |-> c[i]]
    BY <1>3
  <2>3. I = [i \in 1..Len(I) |-> I[i]]
    BY <1>3
  <2> QED
    BY <1>3, <2>1, <2>2, <2>3
<1>6. Reverse(F) = <<x>>
  <2>1. Reverse(F) = [i \in 1..1 |-> F[1 - i + 1]]
    BY DEF Reverse
  <2>2. \A i \in 1..1 : F[1 - i + 1] = x
    OBVIOUS
  <2>3. <<x>> = [i \in 1..1 |-> x]
    OBVIOUS
  <2> HIDE DEF x
  <2> QED
    BY <2>1, <2>2, <2>3
<1> QED
  BY <1>2, <1>3, <1>4, <1>5, <1>6

\* What is shown for a call, what is left for the k innermost calls, and what there is
\* after n native frames if nothing is missing.
ShownFor(call) == IF call.run = <<>> THEN <<Pointer(call.key)>> ELSE Reverse(Frames(call))
Shows          == [n \in 1..Len(real) |-> ShownFor(real[n])]
Top(k)         == IF version = 310 THEN Inner(k) ELSE SubSeq(Inner(k), 1, Len(Inner(k)) - 1)
Complete(n)    == [py |-> Top(Len(real) - n), out |-> Joined(Shows)[n]]

LEMMA ShowsOK ==
  ASSUME Types
  PROVE  /\ Shows \in Seq(Seq(Fresh)) /\ Len(Shows) = Len(real)
         /\ \A n \in 1..Len(real) : Shows[n] = ShownFor(real[n]) /\ Pointer(real[n].key) \in Fresh
<1> DEFINE l == Len(real)
<1>1. l \in Nat /\ \A n \in 1..l : real[n] \in Call
  BY RunsOK
<1>2. ASSUME NEW n \in 1..l PROVE ShownFor(real[n]) \in Seq(Fresh) /\ Pointer(real[n].key) \in Fresh
  <2> DEFINE call == real[n]
  <2>1. call \in Call
    BY <1>1
  <2> HIDE DEF call
  <2>2. call.key \in Counter
    BY <2>1 DEF Call
  <2>3. Pointer(call.key) \in Fresh
    BY <2>2 DEF Pointer, Fresh, Pointed, Key
  <2>4. <<Pointer(call.key)>> \in Seq(Fresh)
    <3> DEFINE x == Pointer(call.key)
    <3>1. x \in Fresh
      BY <2>3
    <3> HIDE DEF x
    <3>2. <<x>> \in Seq(Fresh)
      BY <3>1
    <3> QED
      BY <3>2 DEF x
  <2> DEFINE F == Frames(call)
  <2>5. F \in Seq(Fresh)
    BY <2>1, CallPushes
  <2> HIDE DEF F
  <2>6. Reverse(F) \in Seq(Fresh)
    BY <2>5, ReverseIn
  <2> QED
    BY <2>3, <2>4, <2>6 DEF ShownFor, F, call
<1>3. Shows \in [1..l -> Seq(Fresh)]
  BY <1>2 DEF Shows
<1> HIDE DEF l
<1>4. Shows \in Seq(Seq(Fresh)) /\ Len(Shows) = l
  BY <1>1, <1>3
<1> QED
  BY <1>2, <1>4 DEF Shows, l

\* A call that runs frames has them on top of those of the calls it made.
LEMMA TopOfRun ==
  ASSUME Types, NEW k \in 1..Len(real), real[Len(real) - k + 1].run # <<>>
  PROVE  Top(k) = Inner(k - 1) \o Frames(real[Len(real) - k + 1])
<1> DEFINE call == real[Len(real) - k + 1]
           I == Inner(k - 1)
           F == Frames(call)
           e == All(RunPushes(call))
<1>1. call \in Call
  BY RunsOK
<1>2. Len(real) \in Nat /\ k - 1 \in 0..Len(real)
  BY RunsOK
<1>3. I \in Seq(Fresh) /\ Inner(k) = I \o e
  BY <1>2, InnerIs
<1>4. call.run # <<>>
  OBVIOUS
<1> HIDE DEF call
<1>5. F \in Seq(Fresh) /\ Marker \in Fresh /\ e = IF Ended(call) THEN Append(F, Marker) ELSE F
  BY <1>1, CallPushes
<1> HIDE DEF I, F, e
<1>6. version \in {310, 311, 312}
  BY SettingsAssumption DEF Types, version
<1>7. CASE version = 310
  <2>1. ~Ended(call)
    BY <1>7 DEF Ended
  <2> QED
    BY <1>3, <1>5, <1>7, <2>1 DEF Top, I, F, call
<1>8. CASE version # 310
  <2>1. Ended(call)
    BY <1>4, <1>6, <1>8 DEF Ended
  <2> DEFINE c == I \o Append(F, Marker)
  <2>2. Inner(k) = c
    BY <1>3, <1>5, <2>1
  <2>3. SubSeq(c, 1, Len(c) - 1) = I \o F
    BY <1>3, <1>5, LastOfAll
  <2> HIDE DEF c
  <2> QED
    BY <1>8, <2>2, <2>3 DEF Top, I, F, call
<1> QED
  BY <1>7, <1>8

LEMMA TopOfNone ==
  ASSUME Types
  PROVE  Top(0) = <<>>
<1>1. Inner(0) = <<>> /\ SubSeq(<<>>, 1, Len(<<>>) - 1) = <<>>
  BY InnerIs
<1> QED
  BY <1>1 DEF Top

\* A call that runs none leaves the stack as it is, and if it might run some, has none
\* to take by mistake.
LEMMA TopOfNoRun ==
  ASSUME Types, Possible(version, real), NEW k \in 1..Len(real), real[Len(real) - k + 1].run = <<>>
  PROVE  /\ Top(k) = Top(k - 1)
         /\ real[Len(real) - k + 1].key \in Eval => Top(k) = <<>>
<1> DEFINE n == Len(real) - k + 1
           call == real[n]
           I == Inner(k - 1)
           F == Frames(call)
           e == All(RunPushes(call))
<1>1. n \in 1..Len(real) /\ call \in Call
  BY RunsOK
<1>2. Len(real) \in Nat /\ k - 1 \in 0..Len(real) /\ DOMAIN real = 1..Len(real)
  BY RunsOK DEF Types
<1>3. I \in Seq(Fresh) /\ Inner(k) = I \o e
  BY <1>2, InnerIs
<1>4. call.run = <<>>
  OBVIOUS
<1>5. (call.key \in Eval => n = Len(real)) /\ (call.shim => call.key \in Eval)
  BY <1>1, <1>2, <1>4 DEF Possible
<1>6. call.key \in Eval => k = 1
  BY <1>2, <1>5
<1> HIDE DEF call
<1>7. F \in Seq(Fresh) /\ Len(F) = 0 /\ Marker \in Fresh /\ e = IF Ended(call) THEN Append(F, Marker) ELSE F
  <2>1. Len(F) = Len(call.run)
    BY <1>1, CallPushes
  <2> QED
    BY <1>1, <1>4, <2>1, CallPushes
<1>8. F = <<>>
  <2> HIDE DEF F
  <2> QED
    BY <1>7
<1>9. I \o <<>> = I
  BY <1>3, ConcatEmptySeq
<1> HIDE DEF I, F, e, n
<1>10. CASE ~Ended(call)
  <2>1. Inner(k) = I
    BY <1>3, <1>7, <1>8, <1>9, <1>10
  <2>2. Top(k) = Top(k - 1)
    BY <2>1 DEF Top, I
  <2>3. k = 1 => Top(k - 1) = <<>>
    BY TopOfNone
  <2> QED
    BY <1>6, <2>2, <2>3 DEF call, n
<1>11. CASE Ended(call)
  <2>1. version = 312 /\ call.shim
    BY <1>4, <1>11 DEF Ended
  <2>2. k = 1
    BY <1>5, <1>6, <2>1
  <2>3. I = <<>>
    BY <2>2, InnerIs DEF I
  <2> DEFINE c == I \o Append(F, Marker)
  <2>4. Inner(k) = c
    BY <1>3, <1>7, <1>11
  <2>5. SubSeq(c, 1, Len(c) - 1) = I \o F
    BY <1>3, <1>7, LastOfAll
  <2> HIDE DEF c
  <2>6. Top(k) = <<>>
    <3>1. I \o F = <<>>
      BY <1>8, <1>9, <2>3
    <3> QED
      BY <2>1, <2>4, <2>5, <3>1 DEF Top
  <2>7. Top(k - 1) = <<>>
    BY <2>2, TopOfNone
  <2> QED
    BY <2>6, <2>7
<1> QED
  BY <1>10, <1>11

\* Each native frame adds what is to be shown for its call.
LEMMA CompleteStep ==
  ASSUME Types, Possible(version, real), NEW n \in 1..Len(real)
  PROVE  ShowNative(Complete(n - 1), Pointer(real[n].key)) = Complete(n)
<1> DEFINE l == Len(real)
           k == l - n + 1
           call == real[n]
           frame == Pointer(call.key)
           J == Joined(Shows)[n - 1]
           I == Inner(k - 1)
           F == Frames(call)
<1>1. l \in Nat /\ call \in Call
  BY RunsOK
<1>2. /\ k \in 1..l /\ k - 1 \in 0..l /\ l - k + 1 = n /\ l - (n - 1) = k /\ l - n = k - 1
      /\ n - 1 \in 0..l /\ n \in DOMAIN real /\ DOMAIN real = 1..l
  BY <1>1 DEF Types
<1>3. /\ J \in Seq(Fresh) /\ frame \in Fresh
      /\ Joined(Shows)[n] = J \o ShownFor(call)
  <2>1. Shows \in Seq(Seq(Fresh)) /\ Len(Shows) = l /\ Shows[n] = ShownFor(call) /\ frame \in Fresh
    BY ShowsOK
  <2>2. Joined(Shows)[n] = J \o Shows[n]
    BY <1>1, <2>1, JoinedIs
  <2>3. J \in Seq(Fresh)
    BY <1>2, <2>1, JoinedType
  <2> QED
    BY <2>1, <2>2, <2>3
<1>4. Complete(n - 1) = [py |-> Top(k), out |-> J] /\ Complete(n) = [py |-> Top(k - 1), out |-> J \o ShownFor(call)]
  BY <1>2, <1>3 DEF Complete
<1>5. I \in Seq(Fresh)
  BY <1>2, InnerIs
<1>6. F \in Seq(Fresh) /\ Len(F) = Len(call.run) /\ Len(call.run) \in Nat /\ \A i \in 1..Len(F) : F[i].key # CFRAME_MAGIC
  BY <1>1, CallPushes
<1>7. frame.key = call.key
  BY DEF Pointer
<1>8. CASE call.run = <<>>
  <2>1. Top(k) = Top(k - 1) /\ (call.key \in Eval => Top(k) = <<>>)
    BY <1>2, <1>8, TopOfNoRun
  <2> DEFINE t == Top(k)
             all == Append(J, frame)
             st == [py |-> t, out |-> J]
  <2>2. ShownFor(call) = <<frame>>
    BY <1>8 DEF ShownFor
  <2>3. J \o <<frame>> = Append(J, frame)
    <3> HIDE DEF J, frame
    <3> QED
      BY <1>3, AppendIsConcat
  <2>4. ShowNative(st, frame) = [st EXCEPT !.out = all]
    <3>1. ~(frame.key \in Eval /\ st.py # <<>>)
      BY <1>7, <2>1
    <3>2. st.out = J
      OBVIOUS
    <3> HIDE DEF st, frame, J
    <3> QED
      BY <3>1, <3>2 DEF ShowNative
  <2> HIDE DEF t, all, J, frame
  <2>5. [st EXCEPT !.out = all] = [py |-> t, out |-> all]
    OBVIOUS
  <2> QED
    BY <1>4, <2>1, <2>2, <2>3, <2>4, <2>5 DEF t, all, frame
<1>9. CASE call.run # <<>>
  <2>1. Top(k) = I \o F
    BY <1>2, <1>9, TopOfRun
  <2>2. ShownFor(call) = Reverse(F)
    BY <1>9 DEF ShownFor
  <2>3. call.key \in Eval /\ (Len(call.run) > 1 => version >= 311)
    BY <1>2, <1>9 DEF Possible
  <2>4. Len(F) # 0
    <3>1. call.run \in Seq(Frame)
      BY <1>1 DEF Call
    <3> QED
      BY <1>6, <1>9, <3>1
  <2> HIDE DEF I, F, J, call, frame
  <2>5. I \o F # <<>>
    <3>1. I \in Seq(Fresh) /\ F \in Seq(Fresh) /\ F # <<>>
      BY <1>5, <1>6, <2>4
    <3> QED
      BY <3>1, ConcatEqualIffEmpty
  <2>6. RunOf(I \o F) = [run |-> Reverse(F), rest |-> Top(k - 1)]
    <3>1. CASE version = 310
      <4>1. Len(F) = 1
        <5>1. Len(F) \in Nat /\ Len(F) # 0 /\ (Len(F) > 1 => version >= 311)
          BY <1>6, <2>3, <2>4
        <5> DEFINE b == Len(F)
        <5>2. b \in Nat /\ b # 0 /\ ~(b > 1)
          BY <3>1, <5>1
        <5> HIDE DEF b
        <5>3. b = 1
          BY <5>2
        <5> QED
          BY <5>3 DEF b
      <4>2. RunOf(I \o F) = [run |-> Reverse(F), rest |-> I]
        BY <1>5, <1>6, <3>1, <4>1, RunOfLast
      <4> QED
        BY <3>1, <4>2 DEF Top, I
    <3>2. CASE version # 310
      <4>1. I = <<>> \/ I[Len(I)].key = CFRAME_MAGIC
        BY <1>2, <3>2, InnerEnds DEF I
      <4>2. RunOf(I \o F) = [run |-> Reverse(F), rest |-> SubSeq(I, 1, Len(I) - 1)]
        BY <1>5, <1>6, <3>2, <4>1, RunAboveMarker
      <4> QED
        BY <3>2, <4>2 DEF Top, I
    <3> QED
      BY <3>1, <3>2
  <2> DEFINE st == [py |-> I \o F, out |-> J]
  <2>7. st.py = I \o F /\ st.out = J
    OBVIOUS
  <2> HIDE DEF st
  <2>8. ShowNative(st, frame) = [py |-> Top(k - 1), out |-> J \o Reverse(F)]
    <3> DEFINE popped == RunOf(st.py)
    <3>1. frame.key \in Eval /\ st.py # <<>>
      BY <1>7, <2>3, <2>5, <2>7
    <3>2. ShowNative(st, frame) = [py |-> popped.rest, out |-> st.out \o popped.run]
      BY <3>1 DEF ShowNative
    <3>3. popped = [run |-> Reverse(F), rest |-> Top(k - 1)]
      BY <2>6, <2>7
    <3> HIDE DEF popped
    <3>4. popped.rest = Top(k - 1) /\ popped.run = Reverse(F)
      BY <3>3
    <3> QED
      BY <2>7, <3>2, <3>4
  <2> QED
    BY <1>4, <2>1, <2>2, <2>8 DEF st, frame, call
<1> QED
  BY <1>8, <1>9

\* All native frames of the thread are there.
AllNative == Len(native) = Len(real) /\ \A i \in 1..Len(native) : native[i].key = Counters[i]

LEMMA NativeBack ==
  ASSUME Types, native \in Seq(Fresh), AllNative, NEW n \in 1..Len(real)
  PROVE  Reverse(native)[n] = Pointer(real[n].key)
<1> DEFINE l == Len(real)
           i == l - n + 1
<1>1. l \in Nat /\ i \in 1..l /\ l - i + 1 = n /\ real \in Seq(Call) /\ DOMAIN real = 1..l
  BY RunsOK DEF Types
<1>2. Len(native) = l /\ native[i].key = Counters[i]
  BY <1>1 DEF AllNative
<1>3. Reverse(native)[n] = native[i] /\ native[i] \in Fresh
  BY <1>1, <1>2, BackIs
<1>4. Counters[i] = real[n].key
  BY <1>1, CountersOK
<1> DEFINE p == native[i]
<1>5. p \in Fresh /\ p.key = real[n].key
  BY <1>2, <1>3, <1>4
<1> HIDE DEF p
<1>6. p = Pointer(p.key)
  BY <1>5 DEF Fresh, Pointed, Pointer
<1> QED
  BY <1>3, <1>5, <1>6 DEF p

LEMMA CompleteOK ==
  ASSUME Types, Possible(version, real), native \in Seq(Fresh), AllNative
  PROVE  ShownAfter(Top(Len(real)))[Len(native)] = Complete(Len(real))
<1> DEFINE l == Len(real)
           G == ShownAfter(Top(l))
           Wrong == {i \in Nat : i <= l /\ G[i] # Complete(i)}
<1>1. l \in Nat /\ Len(native) = l
  BY RunsOK DEF AllNative
<1>2. G[0] = [py |-> Top(l), out |-> <<>>] /\ \A n \in 1..l : G[n] = ShowNative(G[n - 1], Reverse(native)[n])
  BY <1>1, ShownIs
<1> HIDE DEF G
<1>3. G[0] = Complete(0)
  <2>1. Len(Shows) \in Nat
    BY <1>1, ShowsOK
  <2>2. Joined(Shows)[0] = <<>>
    BY <2>1, JoinedIs
  <2>3. l - 0 = l
    BY <1>1
  <2> QED
    BY <1>2, <2>2, <2>3 DEF Complete
<1>4. Wrong = {}
  <2> SUFFICES ASSUME Wrong # {} PROVE FALSE
    OBVIOUS
  <2>1. PICK i \in Wrong : \A j \in Wrong : i <= j
    BY Least
  <2>2. i \in Nat /\ i <= l /\ G[i] # Complete(i)
    BY <2>1
  <2>3. i # 0
    BY <1>3, <2>2
  <2>4. i \in 1..l /\ i - 1 \in Nat /\ i - 1 <= l /\ ~(i <= i - 1)
    BY <1>1, <2>2, <2>3
  <2>5. G[i - 1] = Complete(i - 1)
    BY <2>1, <2>4
  <2>6. Reverse(native)[i] = Pointer(real[i].key)
    BY <2>4, NativeBack
  <2>7. G[i] = ShowNative(Complete(i - 1), Pointer(real[i].key))
    BY <1>2, <2>4, <2>5, <2>6
  <2>8. ShowNative(Complete(i - 1), Pointer(real[i].key)) = Complete(i)
    BY <2>4, CompleteStep
  <2> QED
    BY <2>2, <2>7, <2>8
<1>5. G[l] = Complete(l)
  BY <1>1, <1>4
<1> QED
  BY <1>1, <1>5 DEF G

\* The keys of what is shown.
KeysOf(s) == [i \in 1..Len(s) |-> s[i].key]

LEMMA KeysType ==
  ASSUME NEW T, NEW s \in Seq(T)
  PROVE  Len(s) \in Nat /\ KeysOf(s) \in Seq({p.key : p \in T}) /\ Len(KeysOf(s)) = Len(s)
<1> DEFINE K == {p.key : p \in T}
           l == Len(s)
<1>1. l \in Nat /\ \A i \in 1..l : s[i] \in T
  OBVIOUS
<1>2. KeysOf(s) \in [1..l -> K]
  BY <1>1 DEF KeysOf
<1> HIDE DEF K, l
<1>3. KeysOf(s) \in Seq(K) /\ Len(KeysOf(s)) = l
  BY <1>1, <1>2
<1> QED
  BY <1>1, <1>3 DEF K, l

LEMMA KeysConcat ==
  ASSUME NEW T, NEW a \in Seq(T), NEW b \in Seq(T)
  PROVE  KeysOf(a \o b) = KeysOf(a) \o KeysOf(b)
<1> DEFINE K == {p.key : p \in T}
           c == a \o b
           x == KeysOf(a)
           y == KeysOf(b)
           z == x \o y
           m == Len(a)
           n == Len(b)
<1>1. m \in Nat /\ n \in Nat /\ x \in Seq(K) /\ Len(x) = m /\ y \in Seq(K) /\ Len(y) = n
  BY KeysType
<1>2. Len(c) = m + n /\ \A i \in 1..(m + n) : c[i] = IF i <= m THEN a[i] ELSE b[i - m]
  BY ConcatProperties
<1>3. (\A i \in 1..m : x[i] = a[i].key) /\ \A i \in 1..n : y[i] = b[i].key
  BY DEF KeysOf
<1> HIDE DEF x, y, K
<1>4. z \in Seq(K) /\ Len(z) = m + n /\ \A i \in 1..(m + n) : z[i] = IF i <= m THEN x[i] ELSE y[i - m]
  <2>1. x \in Seq(K) /\ y \in Seq(K)
    BY <1>1
  <2>2. /\ z \in Seq(K) /\ Len(z) = Len(x) + Len(y)
        /\ \A i \in 1..(Len(x) + Len(y)) : z[i] = IF i <= Len(x) THEN x[i] ELSE y[i - Len(x)]
    BY <2>1, ConcatProperties
  <2> HIDE DEF z, m, n
  <2> QED
    BY <1>1, <2>2
<1>5. KeysOf(c) = [i \in 1..(m + n) |-> c[i].key]
  BY <1>2 DEF KeysOf
<1> HIDE DEF c, z, m, n
<1>6. ASSUME NEW i \in 1..(m + n) PROVE c[i].key = z[i]
  <2>1. CASE i <= m
    <3>1. i \in 1..m
      BY <1>1, <2>1
    <3> QED
      BY <1>2, <1>3, <1>4, <2>1, <3>1
  <2>2. CASE ~(i <= m)
    <3>1. i - m \in 1..n
      BY <1>1, <2>2
    <3> QED
      BY <1>2, <1>3, <1>4, <2>2, <3>1
  <2> QED
    BY <2>1, <2>2
<1>7. z = [i \in 1..(m + n) |-> z[i]]
  BY <1>4, LenProperties
<1>8. KeysOf(c) = z
  BY <1>5, <1>6, <1>7
<1> QED
  BY <1>8 DEF c, z, x, y

LEMMA KeysJoined ==
  ASSUME NEW T, NEW s \in Seq(Seq(T)), NEW t, Len(t) = Len(s), \A n \in 1..Len(s) : t[n] = KeysOf(s[n])
  PROVE  KeysOf(All(s)) = All(t)
<1> DEFINE l == Len(s)
           G == Joined(s)
           H == Joined(t)
           Wrong == {i \in Nat : i <= l /\ KeysOf(G[i]) # H[i]}
<1>1. l \in Nat /\ (\A i \in 1..l : s[i] \in Seq(T)) /\ Len(t) = l
  OBVIOUS
<1>2. G[0] = <<>> /\ (\A i \in 1..l : G[i] = G[i - 1] \o s[i]) /\ \A i \in 0..l : G[i] \in Seq(T)
  BY <1>1, JoinedIs, JoinedType
<1>3. H[0] = <<>> /\ \A i \in 1..l : H[i] = H[i - 1] \o t[i]
  <2>1. Len(t) \in Nat
    BY <1>1
  <2> QED
    BY <1>1, <2>1, JoinedIs
<1>4. All(s) = G[l] /\ All(t) = H[l]
  BY <1>1 DEF All
<1> HIDE DEF G, H
<1>5. Wrong = {}
  <2> SUFFICES ASSUME Wrong # {} PROVE FALSE
    OBVIOUS
  <2>1. PICK i \in Wrong : \A j \in Wrong : i <= j
    BY Least
  <2>2. i \in Nat /\ i <= l /\ KeysOf(G[i]) # H[i]
    BY <2>1
  <2>3. KeysOf(<<>>) = <<>>
    BY DEF KeysOf
  <2>4. i # 0
    BY <1>2, <1>3, <2>2, <2>3
  <2>5. i \in 1..l /\ i - 1 \in 0..l /\ i - 1 \in Nat /\ i - 1 <= l /\ ~(i <= i - 1)
    BY <1>1, <2>2, <2>4
  <2>6. KeysOf(G[i - 1]) = H[i - 1]
    BY <2>1, <2>5
  <2> DEFINE a == G[i - 1]
             b == s[i]
  <2>7. a \in Seq(T) /\ b \in Seq(T) /\ G[i] = a \o b
    BY <1>1, <1>2, <2>5
  <2> HIDE DEF a, b
  <2>8. KeysOf(a \o b) = KeysOf(a) \o KeysOf(b)
    BY <2>7, KeysConcat
  <2>9. H[i] = H[i - 1] \o KeysOf(b)
    BY <1>3, <2>5 DEF b
  <2> QED
    BY <2>2, <2>6, <2>7, <2>8, <2>9 DEF a
<1>6. KeysOf(G[l]) = H[l]
  BY <1>1, <1>5
<1> QED
  BY <1>4, <1>6

LEMMA KeysOfShown ==
  ASSUME Types, NEW call \in Call
  PROVE  KeysOf(ShownFor(call)) = IF call.run = <<>> THEN <<call.key>> ELSE Reverse(call.run)
<1>1. CASE call.run = <<>>
  <2> DEFINE x == Pointer(call.key)
             s == <<x>>
  <2>1. ShownFor(call) = s /\ x.key = call.key
    BY <1>1 DEF ShownFor, Pointer
  <2>2. Len(s) = 1 /\ s[1] = x
    OBVIOUS
  <2> HIDE DEF s, x
  <2>3. KeysOf(s) = [i \in 1..1 |-> s[i].key]
    BY <2>2 DEF KeysOf
  <2>4. \A i \in 1..1 : s[i].key = call.key
    BY <2>1, <2>2
  <2>5. <<call.key>> = [i \in 1..1 |-> call.key]
    OBVIOUS
  <2> QED
    BY <1>1, <2>1, <2>3, <2>4, <2>5
<1>2. CASE call.run # <<>>
  <2> DEFINE F == Frames(call)
             l == Len(call.run)
  <2>1. F \in Seq(Fresh) /\ Len(F) = l /\ l \in Nat /\ \A i \in 1..l : F[i].key = call.run[i]
    BY CallPushes
  <2>2. Reverse(F) = [i \in 1..Len(F) |-> F[Len(F) - i + 1]] /\ Reverse(call.run) = [i \in 1..l |-> call.run[l - i + 1]]
    BY DEF Reverse
  <2>3. Len(Reverse(F)) = Len(F)
    BY <2>1, ReverseIn
  <2> HIDE DEF F, l
  <2>4. \A i \in 1..l : l - i + 1 \in 1..l
    BY <2>1
  <2>5. KeysOf(Reverse(F)) = [i \in 1..l |-> Reverse(F)[i].key]
    BY <2>1, <2>3 DEF KeysOf
  <2>6. \A i \in 1..l : Reverse(F)[i].key = call.run[l - i + 1]
    BY <2>1, <2>2, <2>4
  <2>7. KeysOf(Reverse(F)) = Reverse(call.run)
    BY <2>2, <2>5, <2>6
  <2> QED
    BY <1>2, <2>7 DEF ShownFor, F
<1> QED
  BY <1>1, <1>2

\* The kernel frames, after the others.
Kernel == [i \in DOMAIN kernel |-> Pointer(Reverse(kernel)[i])]

LEMMA KernelOK ==
  ASSUME Types
  PROVE  /\ Kernel \in Seq(Seen) /\ KeysOf(Kernel) = Reverse(kernel)
         /\ \A i \in 1..Len(Kernel) : Kernel[i].live /\ ~Kernel[i].left
<1> DEFINE l == Len(kernel)
<1>1. kernel \in Seq(KernelFrame) /\ l \in Nat /\ DOMAIN kernel = 1..l
  BY DEF Types
<1>2. ASSUME NEW i \in 1..l PROVE Pointer(Reverse(kernel)[i]) \in Seen /\ Pointer(Reverse(kernel)[i]).live /\ ~Pointer(Reverse(kernel)[i]).left
  <2>1. Reverse(kernel)[i] \in KernelFrame
    BY <1>1, BackIs
  <2> QED
    BY <2>1 DEF Pointer, Seen
<1>3. /\ Kernel \in [1..l -> Seen]
      /\ \A i \in 1..l : Kernel[i].live /\ ~Kernel[i].left /\ Kernel[i].key = Reverse(kernel)[i]
  <2>1. Kernel = [i \in 1..l |-> Pointer(Reverse(kernel)[i])]
    BY <1>1 DEF Kernel
  <2>2. \A x : Pointer(x).key = x
    BY DEF Pointer
  <2> QED
    BY <1>2, <2>1, <2>2
<1>4. Kernel \in Seq(Seen) /\ Len(Kernel) = l
  <2> HIDE DEF l
  <2> QED
    BY <1>1, <1>3
<1>5. KeysOf(Kernel) = Reverse(kernel)
  <2>1. KeysOf(Kernel) = [i \in 1..l |-> Kernel[i].key]
    BY <1>4 DEF KeysOf
  <2>2. Reverse(kernel) = [i \in 1..l |-> kernel[l - i + 1]]
    BY DEF Reverse
  <2>3. Reverse(kernel) = [i \in 1..l |-> Reverse(kernel)[i]]
    BY <2>2
  <2> QED
    BY <1>3, <2>1, <2>3
<1> QED
  BY <1>3, <1>4, <1>5

\* What is shown if nothing is missing is the truth.
LEMMA CompleteTruth ==
  ASSUME Types
  PROVE  LET shown == Complete(Len(real)).out \o Kernel
         IN  [i \in DOMAIN shown |-> shown[i].key] = Truth
<1> DEFINE l == Len(real)
           a == All(Shows)
           c == a \o Kernel
           t == [i \in DOMAIN real |-> IF real[i].run = <<>> THEN <<real[i].key>> ELSE Reverse(real[i].run)]
<1>1. /\ Shows \in Seq(Seq(Fresh)) /\ Len(Shows) = l /\ l \in Nat /\ DOMAIN real = 1..l
      /\ \A n \in 1..l : Shows[n] = ShownFor(real[n]) /\ real[n] \in Call
  BY ShowsOK, RunsOK DEF Types
<1>2. Truth = All(t) \o Reverse(kernel)
  BY DEF Truth
<1>3. Complete(l).out = a
  BY <1>1 DEF Complete, All
<1>4. Len(t) = l /\ \A n \in 1..l : t[n] = KeysOf(Shows[n])
  <2>1. t = [i \in 1..l |-> IF real[i].run = <<>> THEN <<real[i].key>> ELSE Reverse(real[i].run)]
    BY <1>1
  <2>2. ASSUME NEW n \in 1..l PROVE t[n] = KeysOf(Shows[n])
    <3>1. t[n] = IF real[n].run = <<>> THEN <<real[n].key>> ELSE Reverse(real[n].run)
      BY <2>1
    <3> QED
      BY <1>1, <3>1, KeysOfShown
  <2> HIDE DEF l
  <2>3. Len(t) = l
    BY <1>1, <2>1
  <2> QED
    BY <2>2, <2>3
<1> HIDE DEF t
<1>5. KeysOf(a) = All(t)
  BY <1>1, <1>4, KeysJoined
<1>6. a \in Seq(Seen) /\ Kernel \in Seq(Seen)
  <2>1. Len(Shows) \in 0..Len(Shows)
    BY <1>1
  <2>2. a \in Seq(Fresh)
    BY <1>1, <2>1, JoinedType DEF All
  <2>3. Fresh \subseteq Seen
    BY DEF Fresh, Pointed, Seen
  <2> QED
    BY <2>2, <2>3, KernelOK
<1>7. KeysOf(c) = KeysOf(a) \o KeysOf(Kernel)
  <2> HIDE DEF a
  <2> QED
    BY <1>6, KeysConcat
<1>8. KeysOf(c) = Truth
  BY <1>2, <1>5, <1>7, KernelOK
<1>9. c \in Seq(Seen)
  <2> HIDE DEF a
  <2> QED
    BY <1>6, ConcatProperties
<1>10. DOMAIN c = 1..Len(c)
  <2> HIDE DEF c
  <2> QED
    BY <1>9
<1> HIDE DEF a
<1>11. KeysOf(c) = [i \in DOMAIN c |-> c[i].key]
  BY <1>10 DEF KeysOf
<1> QED
  BY <1>3, <1>8, <1>11

\* A thread of 3.10 without a frame: none of its calls runs one, and at most the
\* innermost is about to.
LEMMA BareRuns ==
  ASSUME Types, Possible(version, real), Chain = <<>>, NEW n \in 1..Len(real)
  PROVE  real[n].run = <<>> /\ (real[n].key \in Eval => n = Len(real))
<1> DEFINE l == Len(real)
           k == l - n + 1
           call == real[n]
           F == Frames(call)
<1>1. /\ l \in Nat /\ call \in Call /\ Runs \in Seq(Seq(Push)) /\ Len(Runs) = l /\ Chain = All(Runs)
      /\ \A i \in 1..l : Runs[i] = RunPushes(real[l - i + 1])
  BY RunsOK
<1>2. k \in 1..l /\ l - k + 1 = n
  BY <1>1
<1>3. Runs[k] = RunPushes(call)
  BY <1>1, <1>2
<1>4. Runs[k] = <<>>
  <2>1. All(Runs) = <<>> /\ k \in 1..Len(Runs)
    BY <1>1, <1>2
  <2> QED
    BY <1>1, <2>1, AllEmpty
<1> HIDE DEF call
<1>5. All(RunPushes(call)) = <<>>
  BY <1>3, <1>4, NothingJoined
<1>6. F \in Seq(Fresh) /\ Len(F) = Len(call.run) /\ Marker \in Fresh
      /\ All(RunPushes(call)) = IF Ended(call) THEN Append(F, Marker) ELSE F
  BY <1>1, CallPushes
<1> HIDE DEF F
<1>7. F = <<>>
  <2>1. Append(F, Marker) # <<>>
    BY <1>6, AppendProperties
  <2> QED
    BY <1>5, <1>6, <2>1
<1>8. call.run = <<>>
  <2>1. call.run \in Seq(Frame) /\ Len(call.run) = 0
    BY <1>1, <1>6, <1>7 DEF Call
  <2> QED
    BY <2>1
<1>9. call.key \in Eval => n = l
  <2>1. n \in DOMAIN real
    BY DEF Types
  <2> QED
    BY <1>8, <2>1 DEF Possible, call
<1> QED
  BY <1>8, <1>9 DEF call

\* Native frames that no Python frame replaces.
LEMMA PlainOK ==
  ASSUME NEW S, native \in Seq(S), NEW top, NEW m \in 0..Len(native),
         \A n \in 1..m : Reverse(native)[n].key \notin Eval \/ top = <<>>
  PROVE  ShownAfter(top)[m] = [py |-> top, out |-> SubSeq(Reverse(native), 1, m)]
<1> DEFINE l == Len(native)
           back == Reverse(native)
           G == ShownAfter(top)
           Fine(i) == G[i] = [py |-> top, out |-> SubSeq(back, 1, i)]
           Wrong == {i \in Nat : i <= m /\ ~Fine(i)}
<1>1. l \in Nat /\ m \in Nat /\ m <= l /\ back \in Seq(S) /\ Len(back) = l
  BY ReverseIn
<1>2. G[0] = [py |-> top, out |-> <<>>] /\ \A n \in 1..l : G[n] = ShowNative(G[n - 1], back[n])
  BY <1>1, ShownIs
<1>3. \A n \in 1..m : back[n].key \notin Eval \/ top = <<>>
  OBVIOUS
<1> HIDE DEF G, back
<1>4. Wrong = {}
  <2> SUFFICES ASSUME Wrong # {} PROVE FALSE
    OBVIOUS
  <2>1. PICK i \in Wrong : \A j \in Wrong : i <= j
    BY Least
  <2>2. i \in Nat /\ i <= m /\ ~Fine(i)
    BY <2>1
  <2>3. i # 0
    <3>1. SubSeq(back, 1, 0) = <<>>
      BY <1>1
    <3> QED
      BY <1>2, <2>2, <3>1
  <2>4. i \in 1..m /\ i \in 1..l /\ 1 \in 1..l /\ i - 1 \in Nat /\ i - 1 <= m /\ ~(i <= i - 1)
    BY <1>1, <2>2, <2>3
  <2>5. Fine(i - 1)
    BY <2>1, <2>4
  <2> DEFINE x == SubSeq(back, 1, i - 1)
             f == back[i]
             all == Append(x, f)
             st == [py |-> top, out |-> x]
  <2>6. G[i] = ShowNative(st, f)
    BY <1>2, <2>4, <2>5
  <2>7. SubSeq(back, 1, i) = all
    <3>1. 1 \in 1..Len(back) /\ i \in 1..Len(back)
      BY <1>1, <2>4
    <3> DEFINE e == back[i]
    <3>2. SubSeq(back, 1, i) = x \o <<e>>
      BY <1>1, <3>1, SubSeqRecursiveSecond
    <3>3. x \in Seq(S) /\ e \in S
      <4>1. 1 \in 1..(Len(back) + 1) /\ i - 1 \in 0..Len(back)
        BY <1>1, <2>4
      <4>2. back \in Seq(S)
        BY <1>1
      <4>3. x \in Seq(S)
        BY <4>1, <4>2, PartOK
      <4>4. e \in S
        BY <3>1, <4>2
      <4> QED
        BY <4>3, <4>4
    <3> HIDE DEF x, e
    <3>4. Append(x, e) = x \o <<e>>
      BY <3>3, AppendIsConcat
    <3> QED
      BY <3>2, <3>4 DEF e
  <2>8. ~(f.key \in Eval /\ st.py # <<>>)
    BY <1>3, <2>4
  <2>9. ShowNative(st, f) = [st EXCEPT !.out = Append(x, f)]
    <3>1. st.out = x
      OBVIOUS
    <3> HIDE DEF st, f, x
    <3> QED
      BY <2>8, <3>1 DEF ShowNative
  <2>10. G[i] = [st EXCEPT !.out = all]
    BY <2>6, <2>9
  <2> HIDE DEF all, x
  <2>11. [st EXCEPT !.out = all] = [py |-> top, out |-> all]
    OBVIOUS
  <2> QED
    BY <2>2, <2>7, <2>10, <2>11
<1>5. Fine(m)
  <2>1. m \in Nat /\ m <= m
    BY <1>1
  <2> HIDE DEF Fine
  <2> QED
    BY <1>4, <2>1
<1> QED
  BY <1>5 DEF G, back

\* What an earlier sample left is shown for a call that is about to run a frame, and
\* only for that.
LEMMA BareOK ==
  ASSUME Types, Possible(version, real), version = 310, Chain = <<>>,
         native \in Seq(Fresh), Len(native) <= Len(real), \A i \in 1..Len(native) : native[i].key = Counters[i],
         NEW top \in Seq(Pointed), AllLeft(top)
  PROVE  LET shown == ShownAfter(top)[Len(native)].out
         IN  /\ AllNative /\ (\A i \in 1..Len(shown) : ~shown[i].left) => shown = Complete(Len(real)).out
             /\ (\E i \in 1..Len(shown) : shown[i].left) => Last(real).key \in Eval
<1> DEFINE L == Len(real)
           l == Len(native)
           back == Reverse(native)
           G == ShownAfter(top)
           shown == G[l].out
<1>1. L \in Nat /\ l \in Nat /\ l <= L /\ back \in Seq(Fresh) /\ Len(back) = l
  BY RunsOK, ReverseIn
<1>2. ASSUME NEW n \in 1..l, back[n].key \in Eval PROVE n = l /\ real[L].key \in Eval
  <2> DEFINE i == l - n + 1
             j == L - i + 1
  <2>1. i \in 1..l /\ i \in 1..L /\ j \in 1..L /\ (j = L => n = l)
    BY <1>1
  <2>2. back[n] = native[i]
    BY BackIs
  <2>3. native[i].key = Counters[i] /\ Counters[i] = real[j].key
    BY <2>1, CountersOK
  <2>4. real[j].key \in Eval
    BY <1>2, <2>2, <2>3
  <2> HIDE DEF j
  <2>5. j = L
    BY <2>1, <2>4, BareRuns
  <2> QED
    BY <2>1, <2>4, <2>5
<1>3. CASE \A n \in 1..l : back[n].key \notin Eval \/ top = <<>>
  <2>1. G[l] = [py |-> top, out |-> SubSeq(back, 1, l)]
    <3>1. l \in 0..Len(native)
      BY <1>1
    <3> QED
      BY <1>3, <3>1, PlainOK
  <2>2. SubSeq(back, 1, l) = back
    <3> HIDE DEF back
    <3>1. SubSeq(back, 1, Len(back)) = back
      BY <1>1, SubSeqFull
    <3> QED
      BY <1>1, <3>1
  <2>3. shown = back
    BY <2>1, <2>2
  <2>4. \A i \in 1..Len(back) : ~back[i].left
    <3> HIDE DEF back
    <3> QED
      BY <1>1 DEF Fresh
  <2>5. ASSUME AllNative PROVE back = Complete(L).out
    <3>1. L = l
      BY <2>5 DEF AllNative
    <3> DEFINE s == [i \in 1..Len(back) |-> <<back[i]>>]
    <3>2. Shows = s
      <4>1. \A n \in 1..L : real[n].run = <<>> /\ back[n] = Pointer(real[n].key)
        BY <2>5, BareRuns, NativeBack
      <4>2. \A n \in 1..L : ShownFor(real[n]) = <<back[n]>>
        BY <4>1 DEF ShownFor
      <4> QED
        BY <1>1, <3>1, <4>2 DEF Shows
    <3>3. All(s) = back /\ Len(s) = Len(back)
      <4> HIDE DEF back
      <4> QED
        BY <1>1, SinglesIs
    <3> HIDE DEF s, back, l, L
    <3>4. Complete(L).out = Joined(Shows)[L]
      BY DEF Complete
    <3>5. All(Shows) = Joined(Shows)[L]
      BY <1>1, <3>1, <3>2, <3>3 DEF All
    <3> QED
      BY <3>2, <3>3, <3>4, <3>5
  <2> HIDE DEF back, shown
  <2> QED
    BY <2>3, <2>4, <2>5 DEF shown
<1>4. CASE \E n \in 1..l : ~(back[n].key \notin Eval \/ top = <<>>)
  <2>1. PICK n \in 1..l : back[n].key \in Eval /\ top # <<>>
    BY <1>4
  <2>2. n = l /\ real[L].key \in Eval /\ l \in 1..l
    BY <1>2, <2>1
  <2>3. Last(real).key \in Eval
    BY <2>2 DEF Last
  <2>4. l - 1 \in 0..Len(native) /\ \A i \in 1..(l - 1) : i \in 1..l /\ i # l
    BY <1>1, <2>2
  <2> DEFINE x == SubSeq(back, 1, l - 1)
             st == [py |-> top, out |-> x]
             f == back[l]
             e == top[Len(top)]
  <2>5. G[l - 1] = st
    <3>1. \A i \in 1..(l - 1) : back[i].key \notin Eval
      BY <1>2, <2>4
    <3> QED
      BY <2>4, <3>1, PlainOK
  <2>6. G[l] = ShowNative(st, f)
    <3>1. G[l] = ShowNative(G[l - 1], back[l])
      BY <1>1, <2>2, ShownIs
    <3> QED
      BY <2>5, <3>1
  <2>7. f.key \in Eval /\ top # <<>>
    BY <2>1, <2>2
  <2>8. RunOf(top).run = <<e>>
    BY DEF RunOf, Last
  <2>9. e \in Pointed /\ e.left
    <3>1. Len(top) \in 1..Len(top) /\ \A i \in 1..Len(top) : top[i] \in Pointed
      BY <2>7
    <3> QED
      BY <3>1 DEF AllLeft
  <2>10. x \in Seq(Pointed)
    <3>1. 1 \in 1..(Len(back) + 1) /\ l - 1 \in 0..Len(back)
      BY <1>1, <2>2
    <3> HIDE DEF back
    <3>2. x \in Seq(Fresh)
      BY <1>1, <3>1, PartOK
    <3>3. Fresh \subseteq Pointed
      BY DEF Fresh
    <3> QED
      BY <3>2, <3>3
  <2>11. G[l].out = x \o <<e>>
    <3>1. st.py = top /\ st.out = x
      OBVIOUS
    <3> HIDE DEF st, x, f, e, G
    <3>2. ShowNative(st, f) = [py |-> RunOf(top).rest, out |-> x \o RunOf(top).run]
      BY <2>7, <3>1 DEF ShowNative
    <3> QED
      BY <2>6, <2>8, <3>2
  <2>12. shown = Append(x, e)
    <3> HIDE DEF x, e
    <3>1. Append(x, e) = x \o <<e>>
      BY <2>9, <2>10, AppendIsConcat
    <3> QED
      BY <2>11, <3>1
  <2> HIDE DEF shown, x, e
  <2>13. Len(shown) \in 1..Len(shown) /\ shown[Len(shown)] = e
    <3>1. Len(x) \in Nat /\ Len(shown) = Len(x) + 1 /\ shown[Len(x) + 1] = e
      BY <2>9, <2>10, <2>12, AppendProperties
    <3> QED
      BY <3>1
  <2>14. ~(\A i \in 1..Len(shown) : ~shown[i].left)
    BY <2>9, <2>13
  <2> QED
    BY <2>3, <2>14 DEF shown
<1> QED
  BY <1>3, <1>4

\* Stacks of this sample that have the same keys are the same.
LEMMA FreshSame ==
  ASSUME NEW a \in Seq(Fresh), NEW b \in Seq(Fresh), Same(a, b)
  PROVE  a = b
<1> DEFINE l == Len(b)
<1>1. Len(a) = l /\ l \in Nat /\ \A i \in 1..l : a[i].key = b[i].key
  BY DEF Same
<1>2. (\A i \in 1..l : a[i] \in Fresh /\ b[i] \in Fresh) /\ a = [i \in 1..l |-> a[i]] /\ b = [i \in 1..l |-> b[i]]
  <2>1. a \in [1..Len(a) -> Fresh] /\ b \in [1..Len(b) -> Fresh]
    BY LenProperties
  <2> HIDE DEF l
  <2>2. a \in [1..l -> Fresh] /\ b \in [1..l -> Fresh]
    BY <1>1, <2>1 DEF l
  <2> QED
    BY <2>2
<1>3. \A p, q \in Fresh : p.key = q.key => p = q
  BY DEF Fresh, Pointed
<1>4. \A i \in 1..l : a[i] = b[i]
  BY <1>1, <1>2, <1>3
<1> HIDE DEF l
<1> QED
  BY <1>2, <1>4

\* What is shown and the kernel frames after it: only the former are from elsewhere.
LEMMA WithKernel ==
  ASSUME Types, NEW s \in Seq(Seen)
  PROVE  LET o == s \o Kernel
         IN  /\ o \in Seq(Seen)
             /\ (\E i \in 1..Len(o) : o[i].left) <=> (\E i \in 1..Len(s) : s[i].left)
<1> DEFINE o == s \o Kernel
           m == Len(s)
           n == Len(Kernel)
<1>1. m \in Nat /\ Kernel \in Seq(Seen) /\ \A i \in 1..n : ~Kernel[i].left
  BY KernelOK
<1>2. n \in Nat
  BY <1>1
<1>3. o \in Seq(Seen) /\ Len(o) = m + n /\ \A i \in 1..(m + n) : o[i] = IF i <= m THEN s[i] ELSE Kernel[i - m]
  BY <1>1, ConcatProperties
<1> HIDE DEF o, m, n
<1>4. ASSUME NEW i \in 1..(m + n), o[i].left PROVE i \in 1..m /\ s[i].left
  <2>1. CASE i <= m
    <3>1. i \in 1..m
      BY <1>1, <2>1
    <3> QED
      BY <1>3, <1>4, <2>1, <3>1
  <2>2. CASE ~(i <= m)
    <3>1. i - m \in 1..n
      BY <1>1, <1>2, <2>2
    <3> QED
      BY <1>1, <1>3, <1>4, <2>2, <3>1
  <2> QED
    BY <2>1, <2>2
<1>5. ASSUME NEW i \in 1..m, s[i].left PROVE i \in 1..(m + n) /\ o[i].left
  <2>1. i \in 1..(m + n) /\ i <= m
    BY <1>1, <1>2
  <2> QED
    BY <1>3, <1>5, <2>1
<1>6. (\E i \in 1..(m + n) : o[i].left) <=> (\E i \in 1..m : s[i].left)
  BY <1>4, <1>5
<1> QED
  BY <1>3, <1>6 DEF o, m

\* How far a sample is right: the native stack has the innermost calls, all of them
\* unless it is marked or cut short; the Python stack has all frames of the thread unless
\* the sample is marked, or, if the thread has none, what an earlier sample left.
NativeTold ==
  /\ Len(native) <= Len(real)
  /\ \A i \in 1..Len(native) : native[i].key = Counters[i]
  /\ ~marked /\ ~short => Len(native) = Len(real)

PyTold ==
  \/ version = 310 /\ Chain = <<>> /\ AllLeft(py)
  \/ AllLive(py) /\ (~marked => Same(py, All(Chain)))

Faithful ==
  /\ pc # "idle" => Possible(version, real)
  /\ pc \in {"idle", "native"} => ~marked /\ ~short
  /\ pc \in {"python", "interleave"} => NativeTold
  /\ pc = "interleave" => PyTold
  /\ pc = "shown" => StackTold

\* What is about to be shown.
ToShow ==
  LET top == IF version = 310 \/ py = <<>> THEN py ELSE Front(py)
  IN  ShownAfter(top)[Len(native)].out

LEMMA ToShowOK ==
  ASSUME IInv, Faithful, pc = "interleave"
  PROVE  /\ ToShow \in Seq(Seen)
         /\ ~marked /\ ~short /\ (\A i \in 1..Len(ToShow) : ~ToShow[i].left) => ToShow = Complete(Len(real)).out
         /\ (\E i \in 1..Len(ToShow) : ToShow[i].left) => version = 310 /\ Chain = <<>> /\ Last(real).key \in Eval
<1> DEFINE top == IF version = 310 \/ py = <<>> THEN py ELSE Front(py)
           shown == ShownAfter(top)[Len(native)]
           L == Len(real)
<1>1. Types /\ py \in Seq(Pointed) /\ native \in Seq(Fresh) /\ Possible(version, real) /\ NativeTold
  BY WholeOK DEF IInv, Types, Faithful
<1>2. ToShow = shown.out
  BY DEF ToShow
<1>3. Fresh \subseteq Seen /\ Pointed \subseteq Seen
  BY DEF Fresh, Pointed, Seen
<1>4. ~marked /\ ~short => AllNative
  BY <1>1 DEF NativeTold, AllNative
<1>5. CASE version = 310 /\ Chain = <<>> /\ AllLeft(py)
  <2>1. top = py
    BY <1>5
  <2>2. /\ AllNative /\ (\A i \in 1..Len(shown.out) : ~shown.out[i].left) => shown.out = Complete(L).out
        /\ (\E i \in 1..Len(shown.out) : shown.out[i].left) => Last(real).key \in Eval
    <3>1. Len(native) <= Len(real) /\ \A i \in 1..Len(native) : native[i].key = Counters[i]
      BY <1>1 DEF NativeTold
    <3> HIDE DEF top
    <3> QED
      BY <1>1, <1>5, <2>1, <3>1, BareOK
  <2>3. shown.out \in Seq(Seen)
    <3>1. native \in Seq(Pointed) /\ top \in Seq(Pointed)
      BY <1>1, <2>1, WholeOK
    <3> HIDE DEF top
    <3>2. ShownDone(shown, Len(top), Pointed)
      BY <3>1, ShownOK
    <3> QED
      BY <1>3, <3>2 DEF ShownDone
  <2> HIDE DEF shown
  <2> QED
    BY <1>2, <1>4, <1>5, <2>2, <2>3
<1>6. CASE AllLive(py) /\ (~marked => Same(py, All(Chain)))
  <2>1. py \in Seq(Fresh)
    BY <1>1, <1>6, WholeOK
  <2>2. version # 310 /\ py # <<>> => top = SubSeq(py, 1, Len(py) - 1)
    BY DEF Front
  <2>3. top \in Seq(Fresh)
    <3>1. CASE version = 310 \/ py = <<>>
      BY <2>1, <3>1
    <3>2. CASE version # 310 /\ py # <<>>
      <4>1. 1 \in 1..(Len(py) + 1) /\ Len(py) - 1 \in 0..Len(py)
        BY <2>1, <3>2
      <4> DEFINE a == SubSeq(py, 1, Len(py) - 1)
      <4>2. a \in Seq(Fresh)
        BY <2>1, <4>1, PartOK
      <4> HIDE DEF a, top
      <4> QED
        BY <2>2, <3>2, <4>2 DEF a
    <3> QED
      BY <3>1, <3>2
  <2>4. ASSUME ~marked, ~short PROVE top = Top(L)
    <3>1. All(Chain) = Inner(L) /\ Inner(L) \in Seq(Fresh)
      <4>1. L \in 0..Len(real)
        BY RunsOK, <1>1
      <4> QED
        BY <1>1, <4>1, InnerIs
    <3>2. py = Inner(L)
      BY <1>6, <2>1, <2>4, <3>1, FreshSame
    <3>3. CASE version = 310
      BY <3>2, <3>3 DEF Top
    <3>4. CASE version # 310 /\ py # <<>>
      <4> HIDE DEF top
      <4> QED
        BY <2>2, <3>2, <3>4 DEF Top
    <3>5. CASE version # 310 /\ py = <<>>
      <4>1. SubSeq(<<>>, 1, Len(<<>>) - 1) = <<>>
        OBVIOUS
      <4>2. top = <<>>
        BY <3>5
      <4> QED
        BY <3>2, <3>5, <4>1, <4>2 DEF Top
    <3> QED
      BY <3>3, <3>4, <3>5
  <2> HIDE DEF top
  <2>5. shown.out \in Seq(Fresh)
    <3>1. ShownDone(shown, Len(top), Fresh)
      BY <1>1, <2>3, ShownOK
    <3> QED
      BY <3>1 DEF ShownDone
  <2>6. ASSUME ~marked, ~short PROVE shown.out = Complete(L).out
    <3>1. ShownAfter(Top(L))[Len(native)] = Complete(L)
      BY <1>1, <1>4, <2>6, CompleteOK
    <3> QED
      BY <2>4, <2>6, <3>1
  <2> DEFINE o == shown.out
  <2>7. o \in Seq(Fresh)
    BY <2>5
  <2> HIDE DEF o
  <2>8. \A i \in 1..Len(o) : ~o[i].left
    <3>1. \A i \in 1..Len(o) : o[i] \in Fresh
      BY <2>7
    <3> QED
      BY <3>1 DEF Fresh
  <2>9. o \in Seq(Seen)
    BY <1>3, <2>7
  <2> QED
    BY <1>2, <2>6, <2>8, <2>9 DEF o
<1> QED
  BY <1>5, <1>6 DEF Faithful, PyTold

\* Neither the thread nor its frames change while it is sampled.
LEMMA SameThread ==
  ASSUME UNCHANGED <<setting, real>>
  PROVE  Counters' = Counters /\ Chain' = Chain /\ version' = version
<1>1. version' = version
  BY DEF version
<1>2. Counters' = Counters
  BY DEF Counters
<1>3. Chain' = Chain
  BY <1>1 DEF Chain, RunPushes, Pointer, Marker
<1> QED
  BY <1>1, <1>2, <1>3

LEMMA InitFaithful == ASSUME Init PROVE Faithful
BY DEF Init, Faithful

LEMMA BeginFaithful == ASSUME IInv, Faithful, Begin PROVE Faithful'
<1>1. Possible(version, real') /\ version' = version /\ pc = "idle" /\ pc' = "native" /\ UNCHANGED <<marked, short>>
  BY DEF Begin, version
<1>2. Possible(version, real)'
  BY <1>1 DEF Possible
<1> QED
  BY <1>1, <1>2 DEF Faithful

\* The native stack is unwound to its nth frame.
LEMMA UnwindNativeFaithful ==
  ASSUME IInv, Faithful, pc = "native", NEW n \in 0..Len(real), n <= MAX_STACK_SIZE, UnwindNative(n),
         pc' = "python", UNCHANGED <<setting, real>>, n = Len(real) \/ marked' \/ short'
  PROVE  Faithful'
<1> DEFINE u == Unwound[n]
<1>1. NativeDone(u, n)
  BY NativeOK DEF IInv
<1>2. native' = u.native
  BY DEF UnwindNative
<1> HIDE DEF u
<1>3. Len(native') = n /\ \A i \in 1..n : native'[i].key = Counters[i]
  BY <1>1, <1>2 DEF NativeDone
<1>4. n <= Len(real)
  BY CountersOK DEF IInv
<1>5. NativeTold'
  BY <1>3, <1>4, SameThread DEF NativeTold
<1>6. Possible(version, real)'
  BY SameThread DEF Faithful, Possible
<1> QED
  BY <1>5, <1>6 DEF Faithful

LEMMA NativeEndsFaithful == ASSUME IInv, Faithful, NativeEnds PROVE Faithful'
<1>1. PICK n \in 1..Len(real) : n <= NativeRoom /\ UnwindNative(n) /\ short' = (n < Len(real))
  BY DEF NativeEnds
<1>2. Len(real) \in Nat
  BY CountersOK DEF IInv
<1>3. n \in 0..Len(real) /\ n <= MAX_STACK_SIZE
  BY <1>1, <1>2 DEF NativeRoom
<1>4. n = Len(real) \/ short'
  <2>1. n = Len(real) \/ n < Len(real)
    BY <1>2
  <2> QED
    BY <1>1, <2>1
<1> QED
  BY <1>1, <1>3, <1>4, UnwindNativeFaithful DEF NativeEnds

LEMMA NativeFailsFaithful == ASSUME IInv, Faithful, NativeFails PROVE Faithful'
<1>1. PICK n \in 0..(Len(real) - 1) : n < NativeRoom /\ UnwindNative(n)
  BY DEF NativeFails
<1>2. Len(real) \in Nat /\ MAX_STACK_SIZE \in Nat
  BY CountersOK, Sizes DEF IInv
<1>3. n \in 0..Len(real) /\ n <= MAX_STACK_SIZE
  BY <1>1, <1>2 DEF NativeRoom
<1> QED
  BY <1>1, <1>3, UnwindNativeFaithful DEF NativeFails

LEMMA NoFramesFaithful == ASSUME IInv, Faithful, NoFrames PROVE Faithful'
<1>1. pc = "python" /\ pc' = "interleave" /\ UNCHANGED <<setting, real, native, py, marked, short>>
      /\ version = 310 /\ Chain = <<>>
  BY DEF NoFrames
<1>2. AllLeft(py) /\ NativeTold /\ Possible(version, real)
  BY <1>1 DEF IInv, Faithful
<1>3. NativeTold'
  BY <1>1, <1>2, SameThread DEF NativeTold
<1>4. PyTold'
  BY <1>1, <1>2, SameThread DEF PyTold, AllLeft
<1>5. Possible(version, real)'
  BY <1>1, <1>2, SameThread DEF Possible
<1> QED
  BY <1>1, <1>3, <1>4, <1>5 DEF Faithful

\* The Python stack is unwound and resolved to element n.
LEMMA UnwindPythonFaithful ==
  ASSUME IInv, Faithful, pc = "python", NEW p \in Seq(Fresh), Fits(p), NEW n \in 0..Len(p), UnwindPython(p, n),
         pc' = "interleave", UNCHANGED <<setting, real, short>>, marked => marked',
         ~marked' => n = Len(p) /\ p = All(Chain)
  PROVE  Faithful'
<1>1. NativeTold /\ Possible(version, real)
  BY DEF Faithful
<1>2. Same(native', native) /\ AllLive(py') /\ Same(py', SubSeq(p, 1, n))
  BY UnwindPythonOK DEF IInv
<1>3. NativeTold'
  BY <1>1, <1>2, SameThread DEF NativeTold, Same
<1>4. ~marked' => Same(py', All(Chain))
  <2>1. SubSeq(p, 1, Len(p)) = p
    BY SubSeqFull
  <2> QED
    BY <1>2, <2>1
<1>5. PyTold'
  <2>1. Chain' = Chain
    BY SameThread
  <2>2. AllLive(py)'
    BY <1>2 DEF AllLive
  <2> DEFINE whole == All(Chain)
  <2>3. whole' = whole
    BY <2>1
  <2>4. ~marked' => Same(py', whole)
    BY <1>4
  <2> HIDE DEF whole
  <2>5. (~marked => Same(py, whole))'
    BY <2>3, <2>4 DEF Same
  <2> QED
    BY <2>2, <2>5 DEF PyTold, whole
<1>6. Possible(version, real)'
  BY <1>1, SameThread DEF Possible
<1> QED
  BY <1>3, <1>5, <1>6 DEF Faithful

LEMMA PythonEndsFaithful == ASSUME IInv, Faithful, PythonEnds PROVE Faithful'
<1> DEFINE chain  == Chain
           w      == Walked(chain)
           pushed == Pushed(chain, w)
<1>1. Types /\ chain \in Seq(Push)
  BY ChainOK DEF IInv
<1>2. UnwindPython(pushed, Len(pushed)) /\ marked' = (marked \/ Len(pushed) >= MAX_STACK_SIZE)
  BY DEF PythonEnds
<1>3. pc = "python" /\ pc' = "interleave" /\ UNCHANGED <<setting, real, short>>
  BY DEF PythonEnds
<1>4. /\ w \in 0..Len(chain) /\ (w = Len(chain) \/ Len(pushed) >= MAX_STACK_SIZE)
      /\ \A i \in 0..w : Fits(Pushed(chain, i))
  <2> HIDE DEF chain
  <2> QED
    BY <1>1, WalkedOK, Zenon
<1>5. \A i \in 0..Len(chain) : Pushed(chain, i) \in Seq(Fresh)
  <2> HIDE DEF chain
  <2> QED
    BY <1>1, PushedIs, Zenon
<1>6. ~marked' => pushed = All(chain)
  BY <1>2, <1>4 DEF Pushed, All
<1> HIDE DEF chain, w
<1>7. w \in 0..w
  BY <1>4
<1>8. pushed \in Seq(Fresh) /\ Fits(pushed)
  BY <1>4, <1>5, <1>7
<1> HIDE DEF pushed
<1>9. Len(pushed) \in 0..Len(pushed)
  BY <1>8
<1>10. ~marked' => pushed = All(Chain)
  BY <1>6 DEF chain
<1>11. marked => marked'
  BY <1>2
<1> QED
  BY <1>2, <1>3, <1>8, <1>9, <1>10, <1>11, UnwindPythonFaithful

LEMMA PythonFailsFaithful == ASSUME IInv, Faithful, PythonFails PROVE Faithful'
<1> DEFINE chain  == Chain
           w      == Walked(chain)
           pushed == Pushed(chain, w)
<1>1. Types /\ chain \in Seq(Push)
  BY ChainOK DEF IInv
<1>2. \/ \E n \in 0..w : UnwindPython(Pushed(chain, n), Len(Pushed(chain, n)))
      \/ \E n \in 0..(Len(pushed) - 1) : UnwindPython(pushed, n)
  BY DEF PythonFails
<1>3. pc = "python" /\ pc' = "interleave" /\ UNCHANGED <<setting, real, short>> /\ marked'
  BY DEF PythonFails
<1> HIDE DEF chain
<1>4. w \in 0..Len(chain) /\ \A i \in 0..w : Fits(Pushed(chain, i))
  BY <1>1, WalkedOK, Zenon
<1>5. \A i \in 0..Len(chain) : Pushed(chain, i) \in Seq(Fresh)
  BY <1>1, PushedIs, Zenon
<1> HIDE DEF w
<1>6. (\A i \in 0..w : i \in 0..Len(chain)) /\ w \in 0..w
  BY <1>4
<1>7. CASE \E n \in 0..w : UnwindPython(Pushed(chain, n), Len(Pushed(chain, n)))
  <2>1. PICK n \in 0..w : UnwindPython(Pushed(chain, n), Len(Pushed(chain, n)))
    BY <1>7
  <2> DEFINE p == Pushed(chain, n)
  <2>2. p \in Seq(Fresh) /\ Fits(p) /\ UnwindPython(p, Len(p))
    BY <1>4, <1>5, <1>6, <2>1
  <2> HIDE DEF p
  <2>3. Len(p) \in 0..Len(p)
    BY <2>2
  <2> QED
    BY <1>3, <2>2, <2>3, UnwindPythonFaithful
<1>8. CASE \E n \in 0..(Len(pushed) - 1) : UnwindPython(pushed, n)
  <2>1. pushed \in Seq(Fresh) /\ Fits(pushed)
    BY <1>4, <1>5, <1>6
  <2> HIDE DEF pushed
  <2>2. PICK n \in 0..(Len(pushed) - 1) : UnwindPython(pushed, n)
    BY <1>8
  <2>3. n \in 0..Len(pushed)
    BY <2>1, <2>2
  <2> QED
    BY <1>3, <2>1, <2>2, <2>3, UnwindPythonFaithful
<1> QED
  BY <1>2, <1>7, <1>8

LEMMA ShowStacksFaithful == ASSUME IInv, Faithful, ShowStacks PROVE Faithful'
<1> DEFINE s == ToShow
           o == s \o Kernel
<1>1. pc = "interleave" /\ pc' = "shown" /\ UNCHANGED <<setting, real, kernel, marked, short>> /\ out' = o
  BY DEF ShowStacks, ToShow, Kernel
<1>2. Types /\ Possible(version, real)
  BY <1>1 DEF IInv, Faithful
<1>3. /\ s \in Seq(Seen)
      /\ ~marked /\ ~short /\ (\A i \in 1..Len(s) : ~s[i].left) => s = Complete(Len(real)).out
      /\ (\E i \in 1..Len(s) : s[i].left) => version = 310 /\ Chain = <<>> /\ Last(real).key \in Eval
  BY <1>1, ToShowOK
<1> HIDE DEF s
<1>4. o \in Seq(Seen) /\ ((\E i \in 1..Len(o) : o[i].left) <=> (\E i \in 1..Len(s) : s[i].left))
  BY <1>2, <1>3, WithKernel
<1>5. (\E frame \in ToSet(o) : frame.left) <=> (\E i \in 1..Len(s) : s[i].left)
  <2>1. DOMAIN o = 1..Len(o)
    <3> HIDE DEF o
    <3> QED
      BY <1>4
  <2> HIDE DEF o
  <2> QED
    BY <1>4, <2>1 DEF ToSet
<1>6. s = Complete(Len(real)).out => [i \in DOMAIN o |-> o[i].key] = Truth
  BY <1>2, CompleteTruth
<1> HIDE DEF o
<1>7. Truth' = Truth /\ version' = version /\ Chain' = Chain
  <2>1. Truth' = Truth
    BY <1>1 DEF Truth
  <2> QED
    BY <1>1, <2>1, SameThread
<1>8. Interleaved'
  <2>1. ~marked /\ ~short /\ (\A frame \in ToSet(o) : ~frame.left) => [i \in DOMAIN o |-> o[i].key] = Truth
    BY <1>3, <1>5, <1>6
  <2> QED
    BY <1>1, <1>7, <2>1 DEF Interleaved
<1>9. OwnFrames'
  <2>1. (\E frame \in ToSet(o) : frame.left) => version = 310 /\ Chain = <<>> /\ Last(real).key \in Eval
    BY <1>3, <1>5
  <2> QED
    BY <1>1, <1>7, <2>1 DEF OwnFrames
<1>10. Possible(version, real)'
  BY <1>1, <1>2, <1>7 DEF Possible
<1> QED
  BY <1>1, <1>8, <1>9, <1>10 DEF Faithful, StackTold

LEMMA ShownFaithful == ASSUME IInv, Faithful, Shown PROVE Faithful'
BY DEF Shown, Faithful

LEMMA NextFaithful == ASSUME IInv, Faithful, [Next]_vars PROVE Faithful'
<1>1. CASE UNCHANGED vars
  <2>1. UNCHANGED <<setting, real, kernel, pc, native, py, marked, short, out>>
    BY <1>1 DEF vars
  <2>2. Possible(version, real) => Possible(version, real)'
    BY <2>1, SameThread DEF Possible
  <2>3. NativeTold => NativeTold'
    BY <2>1, SameThread DEF NativeTold
  <2>4. PyTold => PyTold'
    <3> DEFINE whole == All(Chain)
    <3>1. whole' = whole /\ Chain' = Chain /\ version' = version
      BY <2>1, SameThread
    <3>2. PyTold <=> (version = 310 /\ Chain = <<>> /\ AllLeft(py)) \/ (AllLive(py) /\ (~marked => Same(py, whole)))
      BY DEF PyTold
    <3>3. PyTold' <=> ((version = 310 /\ Chain = <<>> /\ AllLeft(py)) \/ (AllLive(py) /\ (~marked => Same(py, whole))))'
      BY DEF PyTold
    <3> HIDE DEF whole
    <3>4. (AllLeft(py) => AllLeft(py)') /\ (AllLive(py) => AllLive(py)') /\ (Same(py, whole) => Same(py, whole)')
      BY <2>1, <3>1 DEF AllLeft, AllLive, Same
    <3> QED
      BY <2>1, <3>1, <3>2, <3>3, <3>4
  <2>5. StackTold => StackTold'
    <3>1. Truth' = Truth /\ version' = version /\ Chain' = Chain
      <4>1. Truth' = Truth
        BY <2>1 DEF Truth
      <4> QED
        BY <2>1, <4>1, SameThread
    <3> QED
      BY <2>1, <3>1 DEF StackTold, Interleaved, OwnFrames
  <2> QED
    BY <2>1, <2>2, <2>3, <2>4, <2>5 DEF Faithful
<1> QED
  BY <1>1, BeginFaithful, NativeEndsFaithful, NativeFailsFaithful, NoFramesFaithful, PythonEndsFaithful,
     PythonFailsFaithful, ShowStacksFaithful, ShownFaithful DEF Next

\* For every stack, version and size: a sample that is not marked as invalid, and whose
\* native stack has not been cut short, shows each native frame in its order with the
\* Python frames of a call of the evaluation loop in its place, and nothing else; but for
\* a frame of an earlier sample, which only a thread of 3.10 without a frame can show, for
\* a call that is about to run its first (py_thread__emit_collapsed_stack of py_thread.c,
\* with _py_thread__unwind_native_frame_stack and the markers that frame.h and stack.h push).
THEOREM ToldCorrect == Spec => []StackTold
<1>1. Faithful => StackTold
  BY DEF Faithful, StackTold, Interleaved, OwnFrames
<1>2. Spec => []Faithful
  BY InitFaithful, NextFaithful, Invariance, PTL DEF Spec
<1> QED
  BY <1>1, <1>2, PTL
====

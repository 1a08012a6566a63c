----------------------------- MODULE Austin_proofs -----------------------------
(***************************************************************************)
(* Theorems about Austin, for every set of processes, every scenario, and  *)
(* any number of signals and failing reads.                                *)
(*                                                                         *)
(* Inv adds to the properties what their proofs need: that a loop over the *)
(* list has the last items still to visit (Cursor), who owns the object of *)
(* Root while the list exists (Owner), that an object is destroyed only    *)
(* when its process was waited for (Reaped), that Root leaves the list     *)
(* before the verdict only if it has ended (Early), and what a race of the *)
(* signal handler can make of interrupt (Flag).                            *)
(***************************************************************************)
EXTENDS Austin, SequenceTheorems, TLAPS

Singles == {"single", "single_sample", "single_expire", "single_end", "single_wait"}
Lists == {"list_new", "update", "update_items", "no_python", "no_python_size", "loop",
          "sample_first", "sample", "sample_wait", "expire", "end", "list_wait", "destroy"}

System ==
  /\ scenario \in Scenarios
  /\ os \in [Pid -> {"unborn", "boot", "run", "zombie", "gone"}] /\ os[Root] # "unborn"
  /\ DOMAIN ppid = Pid /\ ppid[Root] = InitPid
  /\ table[Root] \notin Pid

\* Only with -C is there a list; Root is never tried as a child of another process.
Places ==
  /\ pc \in {"run", "done"} \cup Singles \cup Lists
  /\ (pc \in Lists => Children) /\ (pc \in Singles => ~Children)
  /\ after \in {"loop", "no_python", "sample_first", "list_wait"}
  /\ todo \in Seq(SUBSET (Pid \ {Root}))

Items ==
  /\ list \in Seq(Pid) /\ rest \in Seq(Pid)
  /\ \A i, j \in 1..Len(list) : list[i] = list[j] => i = j
  /\ \A i \in 1..Len(list) : list[i] \in Python \cup {Root}

\* What is still to be visited is the end of the list.
Cursor ==
  /\ pc \in {"update_items", "sample", "sample_wait"} =>
       /\ Len(rest) <= Len(list)
       /\ \A j \in 1..Len(rest) : rest[j] = list[Len(list) - Len(rest) + j]
  /\ pc = "sample_wait" => rest # <<>>

Owner ==
  /\ rootProc \in {"live", "destroyed"}
  /\ pc \in {"run", "list_new"} => rootProc = "live"
  /\ pc \in Lists \ {"list_new"} =>
       (rootProc = "live" <=> \E i \in 1..Len(list) : list[i] = Root)

Reaped ==
  Spawned /\ error = "EOK" =>
    /\ rootProc = "destroyed" => os[Root] = "gone"
    /\ pc \in {"destroy", "done"} => os[Root] = "gone"

\* Before the verdict on a parent that is not Python.
BeforeVerdict ==
  \/ pc \in {"no_python", "no_python_size"}
  \/ pc \in {"update", "update_items"} /\ after = "no_python"

Early == BeforeVerdict /\ rootProc = "destroyed" => os[Root] = "gone"

\* Where interrupt has been seen to be 0 since the exposure was last looked at.
Sampling ==
  \/ pc \in {"single_sample", "single_expire", "sample_first", "sample", "sample_wait", "expire"}
  \/ pc \in {"update", "update_items"} /\ after = "sample_first"

Flag ==
  /\ received \in {0, SIGINT, SIGTERM} /\ (pc = "run" => received = 0)
  /\ interrupt \in {0, -received, 1, 1 - received}
  /\ Sampling \/ ~Exposure => interrupt \in {0, -received}

Inv == System /\ Places /\ Items /\ Cursor /\ Owner /\ Reaped /\ Early /\ Flag

-------------------------------------------------------------------------------
(* Lists. *)

\* The item of a process that is listed is where Position says.
LEMMA PositionOf ==
  ASSUME Items, NEW i \in 1..Len(list)
  PROVE  Position(list[i]) = i
<1>1. Position(list[i]) \in DOMAIN list /\ list[Position(list[i])] = list[i]
  BY DEF Position, Items
<1>2. DOMAIN list = 1..Len(list)
  BY DEF Items
<1> QED
  BY <1>1, <1>2 DEF Items

\* Without its ith item a list has the others, in their order.
LEMMA Removal ==
  ASSUME NEW S, NEW s \in Seq(S), NEW i \in 1..Len(s)
  PROVE  /\ RemoveAt(s, i) \in Seq(S)
         /\ Len(RemoveAt(s, i)) = Len(s) - 1
         /\ \A j \in 1..(Len(s) - 1) : RemoveAt(s, i)[j] = IF j < i THEN s[j] ELSE s[j + 1]
<1> DEFINE a == SubSeq(s, 1, i - 1)
           b == SubSeq(s, i + 1, Len(s))
<1>1. Len(s) \in Nat /\ i \in Int /\ i <= Len(s)
  OBVIOUS
<1>2. a \in Seq(S) /\ Len(a) = i - 1 /\ \A j \in 1..(i - 1) : a[j] = s[j]
  OBVIOUS
<1>3. b \in Seq(S) /\ Len(b) = Len(s) - i /\ \A j \in 1..(Len(s) - i) : b[j] = s[i + j]
  OBVIOUS
<1>4. RemoveAt(s, i) = a \o b
  BY DEF RemoveAt
<1> HIDE DEF a, b
<1>5. /\ a \o b \in Seq(S) /\ Len(a \o b) = Len(s) - 1
      /\ \A j \in 1..(Len(s) - 1) : (a \o b)[j] = IF j <= i - 1 THEN a[j] ELSE b[j - (i - 1)]
  <2>1. /\ a \o b \in Seq(S) /\ Len(a \o b) = Len(a) + Len(b)
        /\ \A j \in 1..(Len(a) + Len(b)) :
             (a \o b)[j] = IF j <= Len(a) THEN a[j] ELSE b[j - Len(a)]
    BY <1>2, <1>3, ConcatProperties
  <2>2. Len(a) + Len(b) = Len(s) - 1
    BY <1>1, <1>2, <1>3
  <2> QED
    BY <1>2, <2>1, <2>2
<1>6. ASSUME NEW j \in 1..(Len(s) - 1)
      PROVE  (a \o b)[j] = IF j < i THEN s[j] ELSE s[j + 1]
  <2>1. CASE j < i
    BY <1>1, <1>2, <1>5, <2>1
  <2>2. CASE ~(j < i)
    <3>1. (a \o b)[j] = b[j - (i - 1)]
      BY <1>1, <1>5, <2>2
    <3>2. j - (i - 1) \in 1..(Len(s) - i) /\ i + (j - (i - 1)) = j + 1
      BY <1>1, <2>2
    <3>3. b[j - (i - 1)] = s[i + (j - (i - 1))]
      BY <1>3, <3>2
    <3> QED
      BY <2>2, <3>1, <3>2, <3>3
  <2> QED
    BY <2>1, <2>2
<1> QED
  BY <1>4, <1>5, <1>6

\* The item the loop has come to is removed: what is to be visited is still the end
\* of the list, nothing is listed twice, and the others stay.
LEMMA UnlinkOK ==
  ASSUME Items, rest # <<>>, Len(rest) <= Len(list),
         \A j \in 1..Len(rest) : rest[j] = list[Len(list) - Len(rest) + j],
         Unlink(Head(rest)), rest' = Tail(rest), UNCHANGED scenario
  PROVE  /\ Items'
         /\ Len(rest') <= Len(list')
         /\ \A j \in 1..Len(rest') : rest'[j] = list'[Len(list') - Len(rest') + j]
         /\ (\E j \in 1..Len(list') : list'[j] = Root)
              <=> Head(rest) # Root /\ \E j \in 1..Len(list) : list[j] = Root
<1> DEFINE n == Len(list) - Len(rest) + 1
<1>1. /\ list \in Seq(Pid) /\ rest \in Seq(Pid) /\ Len(rest) \in Nat \ {0} /\ Len(list) \in Nat
      /\ rest' \in Seq(Pid) /\ Len(rest') = Len(rest) - 1
      /\ \A j \in 1..(Len(rest) - 1) : rest'[j] = rest[j + 1]
  BY DEF Items
<1>2. n \in 1..Len(list) /\ Head(rest) = list[n]
  <2>1. 1 \in 1..Len(rest) /\ Head(rest) = rest[1]
    BY <1>1
  <2>2. rest[1] = list[Len(list) - Len(rest) + 1]
    BY <2>1
  <2> QED
    BY <1>1, <2>1, <2>2
<1>3. list' = RemoveAt(list, n)
  BY <1>2, PositionOf DEF Unlink
<1> HIDE DEF n
<1>4. /\ list' \in Seq(Pid) /\ Len(list') = Len(list) - 1
      /\ \A j \in 1..(Len(list) - 1) : list'[j] = IF j < n THEN list[j] ELSE list[j + 1]
  BY <1>1, <1>2, <1>3, Removal
<1>5. \A i, j \in 1..Len(list') : list'[i] = list'[j] => i = j
  <2> SUFFICES ASSUME NEW i \in 1..Len(list'), NEW j \in 1..Len(list'), list'[i] = list'[j]
               PROVE  i = j
    OBVIOUS
  <2> DEFINE from(k) == IF k < n THEN k ELSE k + 1
  <2>1. from(i) \in 1..Len(list) /\ from(j) \in 1..Len(list)
    BY <1>1, <1>2, <1>4, SMTT(60)
  <2>2. list'[i] = list[from(i)] /\ list'[j] = list[from(j)]
    BY <1>1, <1>4
  <2>3. from(i) = from(j)
    BY <2>1, <2>2 DEF Items
  <2> QED
    BY <1>1, <1>2, <1>4, <2>3
<1>6. \A i \in 1..Len(list') : list'[i] \in (Python \cup {Root})'
  <2> TAKE i \in 1..Len(list')
  <2> DEFINE k == IF i < n THEN i ELSE i + 1
  <2>1. k \in 1..Len(list) /\ list'[i] = list[k]
    BY <1>1, <1>2, <1>4
  <2> QED
    BY <2>1 DEF Items, Python
<1>7. \A j \in 1..Len(rest') : rest'[j] = list'[Len(list') - Len(rest') + j]
  <2> TAKE j \in 1..Len(rest')
  <2>1. rest'[j] = list[Len(list) - Len(rest) + (j + 1)]
    BY <1>1
  <2>2. Len(list') - Len(rest') + j = n - 1 + j /\ n - 1 + j \in 1..(Len(list) - 1) /\ n - 1 + j >= n
    BY <1>1, <1>2, <1>4 DEF n
  <2>3. list'[n - 1 + j] = list[n - 1 + j + 1]
    BY <1>1, <1>2, <1>4, <2>2, SMTT(60)
  <2>4. n - 1 + j + 1 = Len(list) - Len(rest) + (j + 1)
    BY <1>1 DEF n
  <2> QED
    BY <2>1, <2>2, <2>3, <2>4
<1>8. ASSUME NEW j \in 1..Len(list'), list'[j] = Root
      PROVE  Head(rest) # Root /\ \E k \in 1..Len(list) : list[k] = Root
  <2> DEFINE k == IF j < n THEN j ELSE j + 1
  <2>1. k \in 1..Len(list) /\ k # n
    BY <1>1, <1>2, <1>4
  <2>2. list'[j] = list[k]
    BY <1>1, <1>4
  <2> QED
    BY <1>2, <1>8, <2>1, <2>2 DEF Items
<1>9. ASSUME Head(rest) # Root, NEW k \in 1..Len(list), list[k] = Root
      PROVE  \E j \in 1..Len(list') : list'[j] = Root
  <2>1. CASE k < n
    BY <1>1, <1>2, <1>4, <1>9, <2>1
  <2>2. CASE k > n
    <3>1. k - 1 \in 1..(Len(list) - 1) /\ ~(k - 1 < n)
      BY <1>1, <1>2, <2>2
    <3>2. list'[k - 1] = list[k - 1 + 1]
      BY <1>4, <3>1
    <3> QED
      BY <1>1, <1>4, <1>9, <3>1, <3>2
  <2>3. k # n
    BY <1>2, <1>9
  <2> QED
    BY <1>1, <1>2, <2>1, <2>2, <2>3
<1> QED
  BY <1>1, <1>4, <1>5, <1>6, <1>7, <1>8, <1>9 DEF Items

-------------------------------------------------------------------------------
(* The invariant. *)

LEMMA InitInv == Init => Inv
<1> SUFFICES ASSUME Init PROVE Inv
  OBVIOUS
<1>1. System
  BY PidAssumption DEF Init, System
<1>2. Places /\ Items
  <2>1. list = <<>> /\ rest = <<>> /\ todo = <<>> /\ Len(list) = 0
    BY DEF Init
  <2>2. list \in Seq(Pid) /\ rest \in Seq(Pid) /\ todo \in Seq(SUBSET (Pid \ {Root}))
    BY <2>1
  <2>3. Items
    BY <2>1, <2>2 DEF Items
  <2>4. Places
    BY <2>2 DEF Init, Places, Singles, Lists
  <2> QED
    BY <2>3, <2>4
<1>3. Cursor /\ Owner /\ Reaped /\ Early
  BY DEF Init, Cursor, Owner, Reaped, Early, BeforeVerdict, Lists
<1>4. Flag
  BY DEF Init, Flag
<1> QED
  BY <1>1, <1>2, <1>3, <1>4 DEF Inv

\* Once Root has ended it never runs again.
LEMMA EnvOK == ASSUME Inv, Env PROVE Inv'
<1>1. UNCHANGED <<scenario, pc, after, isPython, rootProc, list, table, rest, todo, interrupt,
                  error, received>>
  BY DEF Env
<1>2. /\ os' \in [Pid -> {"unborn", "boot", "run", "zombie", "gone"}] /\ os'[Root] # "unborn"
      /\ os[Root] = "gone" => os'[Root] = "gone"
      /\ DOMAIN ppid' = Pid /\ ppid'[Root] = InitPid
  <2>1. ASSUME NEW p \in Pid, Fork(p) PROVE <1>2
    BY <2>1, PidAssumption DEF Fork, Inv, System
  <2>2. ASSUME NEW p \in Pid, Boot(p) PROVE <1>2
    BY <2>2, PidAssumption DEF Boot, Inv, System
  <2>3. ASSUME NEW p \in Pid, Exit(p) PROVE <1>2
    BY <2>3, PidAssumption DEF Exit, Alive, Inv, System
  <2>4. CASE Reap
    BY <2>4, PidAssumption DEF Reap, Inv, System
  <2> QED
    BY <2>1, <2>2, <2>3, <2>4 DEF Env
<1>3. System'
  BY <1>1, <1>2 DEF Inv, System
<1>4. Places' /\ Items' /\ Cursor' /\ Owner'
  BY <1>1 DEF Inv, Places, Items, Cursor, Owner, Children, Python
<1>5. Reaped' /\ Early' /\ Flag'
  BY <1>1, <1>2 DEF Inv, Reaped, Early, BeforeVerdict, Flag, Sampling, Spawned, Exposure
<1> QED
  BY <1>3, <1>4, <1>5 DEF Inv

\* Time, and signals.
LEMMA TickOK == ASSUME Inv, Tick PROVE Inv'
BY DEF Tick, world, history, Inv, System, Places, Items, Cursor, Owner, Reaped, Early, BeforeVerdict,
       Flag, Sampling, Children, Python, Spawned, Exposure

LEMMA SignalOK == ASSUME Inv, NEW s \in {SIGINT, SIGTERM}, HandleSignal(s) PROVE Inv'
<1>1. UNCHANGED <<scenario, os, ppid, pc, after, rootProc, list, table, rest, todo, error>>
  BY DEF HandleSignal, world, listVars
<1>2. System' /\ Places' /\ Items' /\ Cursor' /\ Owner' /\ Reaped' /\ Early'
  BY <1>1 DEF Inv, System, Places, Items, Cursor, Owner, Reaped, Early, BeforeVerdict,
              Children, Python, Spawned
<1>3. Flag'
  BY DEF HandleSignal, Flag
<1> QED
  BY <1>2, <1>3 DEF Inv

\* The steps that leave the processes and the list alone.
LEMMA Still ==
  ASSUME Inv, UNCHANGED <<world, list, table, rest, todo>>
  PROVE  System' /\ Items' /\ todo' \in Seq(SUBSET (Pid \ {Root}))
BY DEF Inv, System, Items, Places, world, Python

\* Starting or attaching, and the loop without -C.
LEMMA SingleOK == ASSUME Inv, RunOK \/ RunFails \/ Single PROVE Inv'
<1>1. System' /\ Items' /\ todo' \in Seq(SUBSET (Pid \ {Root}))
  BY Still DEF RunOK, RunFails, Single, SingleLoop, SingleSampleOK, SingleSampleFails,
               SingleExpire, SingleEnd, SingleWait, listVars
<1> USE DEF Inv, Places, Singles, Lists, Cursor, Owner, Reaped, Early, BeforeVerdict, Flag, Sampling,
            Children, Spawned, Exposure, world, listVars, history
<1>2. ASSUME RunOK PROVE Places' /\ Cursor' /\ Owner' /\ Reaped' /\ Early' /\ Flag'
  BY <1>1, <1>2 DEF RunOK
<1>3. ASSUME RunFails PROVE Places' /\ Cursor' /\ Owner' /\ Reaped' /\ Early' /\ Flag'
  BY <1>1, <1>3 DEF RunFails
<1>4. ASSUME SingleLoop PROVE Places' /\ Cursor' /\ Owner' /\ Reaped' /\ Early' /\ Flag'
  BY <1>1, <1>4 DEF SingleLoop
<1>5. ASSUME SingleSampleOK PROVE Places' /\ Cursor' /\ Owner' /\ Reaped' /\ Early' /\ Flag'
  BY <1>1, <1>5 DEF SingleSampleOK
<1>6. ASSUME SingleSampleFails PROVE Places' /\ Cursor' /\ Owner' /\ Reaped' /\ Early' /\ Flag'
  BY <1>1, <1>6 DEF SingleSampleFails
<1>7. ASSUME SingleExpire PROVE Places' /\ Cursor' /\ Owner' /\ Reaped' /\ Early' /\ Flag'
  BY <1>1, <1>7 DEF SingleExpire, Expire, SIGINT, SIGTERM
<1>8. ASSUME SingleEnd PROVE Places' /\ Cursor' /\ Owner' /\ Reaped' /\ Early' /\ Flag'
  BY <1>1, <1>8 DEF SingleEnd
<1>9. ASSUME SingleWait PROVE Places' /\ Cursor' /\ Owner' /\ Reaped' /\ Early' /\ Flag'
  BY <1>1, <1>9 DEF SingleWait, WaitReturns
<1> HIDE DEF Inv, Places, Singles, Lists, Cursor, Owner, Reaped, Early, BeforeVerdict, Flag, Sampling,
             Children, Spawned, Exposure, world, listVars, history
<1> QED
  BY <1>1, <1>2, <1>3, <1>4, <1>5, <1>6, <1>7, <1>8, <1>9 DEF Single, Inv

\* The steps of -C that leave the list alone.
LEMMA ControlOK ==
  ASSUME Inv,
         \/ NoPythonSize \/ Loop \/ UpdateThrottled \/ SampleItemFails \/ SampleEnds
         \/ ChildrenExpire \/ End \/ ListWait
  PROVE  Inv'
<1>1. System' /\ Items' /\ todo' \in Seq(SUBSET (Pid \ {Root}))
  BY Still DEF NoPythonSize, Loop, UpdateThrottled, SampleItemFails, SampleEnds, ChildrenExpire,
               End, ListWait, listVars
<1> USE DEF Inv, Places, Singles, Lists, Cursor, Owner, Reaped, Early, BeforeVerdict, Flag, Sampling,
            Children, Spawned, Exposure, world, listVars, history
<1>2. ASSUME NoPythonSize PROVE Places' /\ Cursor' /\ Owner' /\ Reaped' /\ Early' /\ Flag'
  BY <1>1, <1>2 DEF NoPythonSize
<1>3. ASSUME Loop PROVE Places' /\ Cursor' /\ Owner' /\ Reaped' /\ Early' /\ Flag'
  BY <1>1, <1>3 DEF Loop
<1>4. ASSUME UpdateThrottled PROVE Places' /\ Cursor' /\ Owner' /\ Reaped' /\ Early' /\ Flag'
  BY <1>1, <1>4 DEF UpdateThrottled
<1>5. ASSUME SampleItemFails PROVE Places' /\ Cursor' /\ Owner' /\ Reaped' /\ Early' /\ Flag'
  BY <1>1, <1>5 DEF SampleItemFails
<1>6. ASSUME SampleEnds PROVE Places' /\ Cursor' /\ Owner' /\ Reaped' /\ Early' /\ Flag'
  BY <1>1, <1>6 DEF SampleEnds
<1>7. ASSUME ChildrenExpire PROVE Places' /\ Cursor' /\ Owner' /\ Reaped' /\ Early' /\ Flag'
  BY <1>1, <1>7 DEF ChildrenExpire, Expire, SIGINT, SIGTERM
<1>8. ASSUME End PROVE Places' /\ Cursor' /\ Owner' /\ Reaped' /\ Early' /\ Flag'
  BY <1>1, <1>8 DEF End
<1>9. ASSUME ListWait PROVE Places' /\ Cursor' /\ Owner' /\ Reaped' /\ Early' /\ Flag'
  <2>1. Spawned /\ (\E i \in 1..Len(list) : list[i] = Root) => os[Root] = "gone"
    <3>1. (\E i \in 1..Len(list) : list[i] = Root) => Root \in Listed
      BY DEF Listed, ToSet, Items
    <3> QED
      BY <1>9, <3>1 DEF ListWait, WaitReturns
  <2> QED
    BY <1>1, <1>9, <2>1 DEF ListWait
<1> HIDE DEF Inv, Places, Singles, Lists, Cursor, Owner, Reaped, Early, BeforeVerdict, Flag, Sampling,
             Children, Spawned, Exposure, world, listVars, history
<1> QED
  BY <1>1, <1>2, <1>3, <1>4, <1>5, <1>6, <1>7, <1>8, <1>9 DEF Inv

\* The table of parents is read.  No process has Root for a child.
LEMMA UpdateReadOK == ASSUME Inv, UpdateRead \/ UpdateReadFails PROVE Inv'
<1>1. UNCHANGED <<scenario, os, ppid, rootProc, list, todo, interrupt, error, received, after>>
  BY DEF UpdateRead, UpdateReadFails, world, history
<1>2. table'[Root] \notin Pid
  BY PidAssumption DEF UpdateRead, UpdateReadFails, Inv, System
<1>3. System'
  BY <1>1, <1>2 DEF Inv, System
<1> USE DEF Inv, Places, Singles, Lists, Cursor, Owner, Reaped, Early, BeforeVerdict, Flag, Sampling,
            Children, Spawned, Exposure, Items, Python
<1>4. CASE UpdateRead
  <2>1. pc = "update" /\ rest' = list /\ pc' = "update_items"
    BY <1>4 DEF UpdateRead
  <2>2. Items' /\ Cursor'
    BY <1>1, <2>1
  <2>3. Places' /\ Owner' /\ Reaped' /\ Early' /\ Flag'
    BY <1>1, <2>1
  <2> QED
    BY <1>3, <2>2, <2>3
<1>5. CASE UpdateReadFails
  <2>1. pc = "update" /\ rest' = rest /\ pc' = after
    BY <1>5 DEF UpdateReadFails
  <2>2. Items' /\ Cursor'
    BY <1>1, <2>1
  <2>3. Places' /\ Owner' /\ Reaped' /\ Early' /\ Flag'
    BY <1>1, <2>1
  <2> QED
    BY <1>3, <2>2, <2>3
<1> HIDE DEF Inv, Places, Singles, Lists, Cursor, Owner, Reaped, Early, BeforeVerdict, Flag, Sampling,
             Children, Spawned, Exposure, Items, Python
<1> QED
  BY <1>4, <1>5

\* The children of a process are processes other than Root.
LEMMA NewChildrenOf == ASSUME Inv, NEW p \in Pid PROVE NewChildren(p) \in SUBSET (Pid \ {Root})
BY DEF NewChildren, Inv, System

\* A loop over the list begins, goes on to the next item, or ends.
LEMMA WalkOK ==
  ASSUME Inv, UpdateItem \/ UpdateEnds \/ SampleFirst \/ SampleItem \/ AddChildrenReturns \/ NoPython
  PROVE  Inv'
<1>1. /\ UNCHANGED <<scenario, os, ppid, rootProc, list, table, interrupt, error, received, after>>
      /\ list \in Seq(Pid) /\ rest \in Seq(Pid) /\ todo \in Seq(SUBSET (Pid \ {Root}))
  BY DEF UpdateItem, UpdateEnds, SampleFirst, SampleItem, AddChildrenReturns, NoPython, world, history,
         Inv, Items, Places
<1>2. System'
  BY <1>1 DEF Inv, System
<1>3. todo' \in Seq(SUBSET (Pid \ {Root}))
  <2>1. CASE UpdateItem
    <3>1. Head(rest) \in Pid
      BY <1>1, <2>1 DEF UpdateItem
    <3>2. NewChildren(Head(rest)) \in SUBSET (Pid \ {Root})
      BY <3>1, NewChildrenOf
    <3> QED
      BY <2>1, <3>2 DEF UpdateItem
  <2>2. CASE AddChildrenReturns
    BY <1>1, <2>2 DEF AddChildrenReturns
  <2>3. CASE NoPython
    <3>1. NewChildren(Root) \in SUBSET (Pid \ {Root})
      BY PidAssumption, NewChildrenOf
    <3> QED
      BY <2>3, <3>1 DEF NoPython
  <2>4. CASE UpdateEnds \/ SampleFirst \/ SampleItem
    BY <1>1, <2>4 DEF UpdateEnds, SampleFirst, SampleItem
  <2> QED
    BY <2>1, <2>2, <2>3, <2>4
<1>4. Items' /\ Cursor'
  <2>1. CASE UpdateItem \/ SampleItem
    <3>1. /\ pc' = pc /\ pc \in {"update_items", "sample"} /\ rest' = Tail(rest) /\ rest # <<>>
      BY <2>1 DEF UpdateItem, SampleItem
    <3>2. /\ rest' \in Seq(Pid) /\ Len(rest') = Len(rest) - 1 /\ Len(rest) \in Nat /\ Len(list) \in Nat
          /\ \A j \in 1..Len(rest') : rest'[j] = rest[j + 1]
      BY <1>1, <3>1
    <3>3. /\ Len(rest) <= Len(list)
          /\ \A j \in 1..Len(rest) : rest[j] = list[Len(list) - Len(rest) + j]
      BY <3>1 DEF Inv, Cursor
    <3>4. \A j \in 1..Len(rest') : rest'[j] = list[Len(list) - Len(rest') + j]
      <4> TAKE j \in 1..Len(rest')
      <4>1. j + 1 \in 1..Len(rest) /\ Len(list) - Len(rest) + (j + 1) = Len(list) - Len(rest') + j
        BY <3>2
      <4> QED
        BY <3>2, <3>3, <4>1
    <3>5. Len(rest') <= Len(list)
      BY <3>2, <3>3
    <3>6. Cursor'
      BY <1>1, <3>1, <3>4, <3>5 DEF Cursor
    <3>7. Items'
      BY <1>1, <3>2 DEF Inv, Items, Python
    <3> QED
      BY <3>6, <3>7
  <2>2. CASE SampleFirst
    <3>1. rest' = list /\ pc' = "sample"
      BY <2>2 DEF SampleFirst
    <3> QED
      BY <1>1, <3>1 DEF Inv, Items, Cursor, Python
  <2>3. CASE UpdateEnds
    <3>1. rest' = rest /\ pc' = after
      BY <2>3 DEF UpdateEnds
    <3> QED
      BY <1>1, <3>1 DEF Inv, Items, Cursor, Places, Python
  <2>4. CASE AddChildrenReturns \/ NoPython
    <3>1. rest' = rest /\ (pc' = pc \/ pc' = "no_python_size")
      BY <2>4 DEF AddChildrenReturns, NoPython
    <3> QED
      BY <1>1, <3>1 DEF Inv, Items, Cursor, Python
  <2> QED
    BY <2>1, <2>2, <2>3, <2>4
<1>5. \/ pc' = pc \/ (pc = "update_items" /\ pc' = after)
      \/ (pc = "sample_first" /\ pc' = "sample") \/ (pc = "no_python" /\ pc' = "no_python_size")
  BY DEF UpdateItem, UpdateEnds, SampleFirst, SampleItem, AddChildrenReturns, NoPython
<1>6. Places' /\ Owner' /\ Reaped' /\ Early' /\ Flag'
  BY <1>1, <1>3, <1>5 DEF Inv, Places, Singles, Lists, Owner, Reaped, Early, BeforeVerdict, Flag, Sampling,
                          Children, Spawned, Exposure
<1> QED
  BY <1>2, <1>4, <1>6 DEF Inv

\* The item the loop has come to is waited for and removed: Root's object is destroyed
\* with it, and only then.
LEMMA DropsOK == ASSUME Inv, UpdateDrops \/ SampleItemWaited PROVE Inv'
<1>1. /\ UNCHANGED <<scenario, os, ppid, table, todo, interrupt, error, received, after>>
      /\ rest # <<>> /\ WaitReturns(Head(rest)) /\ Unlink(Head(rest)) /\ rest' = Tail(rest)
      /\ \/ pc = "update_items" /\ pc' = pc /\ ~Exists(Head(rest))
         \/ pc = "sample_wait" /\ pc' = "sample"
  BY DEF UpdateDrops, SampleItemWaited, world, history, Inv, Cursor
<1>2. /\ Len(rest) <= Len(list)
      /\ \A j \in 1..Len(rest) : rest[j] = list[Len(list) - Len(rest) + j]
  BY <1>1 DEF Inv, Cursor
<1>3. /\ Items' /\ Len(rest') <= Len(list')
      /\ \A j \in 1..Len(rest') : rest'[j] = list'[Len(list') - Len(rest') + j]
      /\ (\E j \in 1..Len(list') : list'[j] = Root)
           <=> Head(rest) # Root /\ \E j \in 1..Len(list) : list[j] = Root
  BY <1>1, <1>2, UnlinkOK DEF Inv
<1>4. rootProc' = IF Head(rest) = Root THEN "destroyed" ELSE rootProc
  BY <1>1 DEF Unlink
<1>5. System' /\ Places'
  BY <1>1 DEF Inv, System, Places, Singles, Lists, Children
<1>6. Cursor'
  BY <1>1, <1>3 DEF Cursor
<1>7. Owner'
  BY <1>1, <1>3, <1>4 DEF Inv, Owner, Lists
<1>8. Reaped'
  BY <1>1, <1>4 DEF Inv, Reaped, Spawned, WaitReturns
<1>9. Early'
  <2>1. ~Exists(Root) => os[Root] = "gone"
    BY PidAssumption DEF Exists, Inv, System
  <2> QED
    BY <1>1, <1>4, <2>1 DEF Inv, Early, BeforeVerdict
<1>10. Flag'
  BY <1>1 DEF Inv, Flag, Sampling, Exposure
<1> QED
  BY <1>3, <1>5, <1>6, <1>7, <1>8, <1>9, <1>10 DEF Inv

\* A child goes to the front of the list, if it is not listed; what is to be visited
\* is still its end.
LEMMA AttachChildOK == ASSUME Inv, NEW c \in Pid, AttachChild(c) PROVE Inv'
<1>1. /\ UNCHANGED <<scenario, os, ppid, table, rest, pc, rootProc, interrupt, error, received, after>>
      /\ todo # <<>> /\ c \in Head(todo)
  BY DEF AttachChild, world, history
<1>2. /\ list \in Seq(Pid) /\ rest \in Seq(Pid) /\ Len(list) \in Nat /\ Len(rest) \in Nat
      /\ todo \in Seq(SUBSET (Pid \ {Root})) /\ Head(todo) \in SUBSET (Pid \ {Root})
  BY <1>1 DEF Inv, Items, Places
<1>3. c # Root
  BY <1>1, <1>2
<1> DEFINE left == [todo EXCEPT ![1] = @ \ {c}]
<1>4. left \in Seq(SUBSET (Pid \ {Root}))
  <2>1. 1 \in 1..Len(todo) /\ todo[1] \in SUBSET (Pid \ {Root}) /\ Len(todo) \in Nat
    BY <1>1, <1>2
  <2> QED
    BY <1>2, <2>1
<1>5. todo' \in Seq(SUBSET (Pid \ {Root}))
  <2>1. CASE todo' = left
    BY <1>4, <2>1
  <2>2. CASE todo' = <<NewChildren(c) \ {c}>> \o left
    <3>1. NewChildren(c) \ {c} \in SUBSET (Pid \ {Root})
      BY NewChildrenOf
    <3>2. <<NewChildren(c) \ {c}>> \in Seq(SUBSET (Pid \ {Root}))
      BY <3>1
    <3> HIDE DEF left
    <3> QED
      BY <1>4, <2>2, <3>2, ConcatProperties
  <2> QED
    BY <2>1, <2>2 DEF AttachChild
<1>6. System' /\ Places'
  BY <1>1, <1>5 DEF Inv, System, Places, Singles, Lists, Children
<1>7. Reaped' /\ Early' /\ Flag'
  BY <1>1 DEF Inv, Reaped, Early, BeforeVerdict, Flag, Sampling, Spawned, Exposure
<1>8. Items' /\ Cursor' /\ Owner'
  <2>1. CASE list' = list
    BY <1>1, <2>1 DEF Inv, Items, Cursor, Owner, Python
  <2>2. CASE list' = <<c>> \o list /\ c \in Python /\ c \notin Listed
    <3>1. /\ list' \in Seq(Pid) /\ Len(list') = Len(list) + 1
          /\ list'[1] = c /\ \A j \in 1..Len(list) : list'[j + 1] = list[j]
      BY <1>2, <2>2
    <3>2. \A j \in 2..Len(list') : list'[j] = list[j - 1] /\ j - 1 \in 1..Len(list)
      <4> TAKE j \in 2..Len(list')
      <4>1. j - 1 \in 1..Len(list) /\ j - 1 + 1 = j
        BY <1>2, <3>1
      <4> QED
        BY <3>1, <4>1
    <3>3. \A j \in 1..Len(list) : list[j] # c
      BY <2>2 DEF Listed, ToSet, Inv, Items
    <3>4. \A i, j \in 1..Len(list') : list'[i] = list'[j] => i = j
      <4> SUFFICES ASSUME NEW i \in 1..Len(list'), NEW j \in 1..Len(list'), list'[i] = list'[j]
                   PROVE  i = j
        OBVIOUS
      <4>1. CASE i = 1 \/ j = 1
        BY <1>2, <3>1, <3>2, <3>3, <4>1
      <4>2. CASE i \in 2..Len(list') /\ j \in 2..Len(list')
        <5>1. i - 1 = j - 1
          BY <3>2, <4>2 DEF Inv, Items
        <5> QED
          BY <5>1
      <4> QED
        BY <1>2, <3>1, <4>1, <4>2
    <3>5. \A i \in 1..Len(list') : list'[i] \in (Python \cup {Root})'
      <4> TAKE i \in 1..Len(list')
      <4>1. CASE i = 1
        BY <1>1, <2>2, <3>1, <4>1 DEF Python
      <4>2. CASE i \in 2..Len(list')
        BY <1>1, <3>2, <4>2 DEF Inv, Items, Python
      <4> QED
        BY <1>2, <3>1, <4>1, <4>2
    <3>6. Items'
      BY <1>1, <1>2, <3>1, <3>4, <3>5 DEF Items
    <3>7. Cursor'
      <4> SUFFICES ASSUME pc \in {"update_items", "sample", "sample_wait"}
                   PROVE  /\ Len(rest) <= Len(list')
                          /\ \A j \in 1..Len(rest) : rest[j] = list'[Len(list') - Len(rest) + j]
        BY <1>1 DEF Cursor, Inv
      <4>1. /\ Len(rest) <= Len(list)
            /\ \A j \in 1..Len(rest) : rest[j] = list[Len(list) - Len(rest) + j]
        BY DEF Inv, Cursor
      <4>2. ASSUME NEW j \in 1..Len(rest)
            PROVE  rest[j] = list'[Len(list') - Len(rest) + j]
        <5>1. /\ Len(list) - Len(rest) + j \in 1..Len(list)
              /\ Len(list) - Len(rest) + j + 1 = Len(list') - Len(rest) + j
          BY <1>2, <3>1, <4>1
        <5> QED
          BY <3>1, <4>1, <5>1
      <4> QED
        BY <1>2, <3>1, <4>1, <4>2
    <3>8. (\E j \in 1..Len(list') : list'[j] = Root) <=> \E j \in 1..Len(list) : list[j] = Root
      <4>1. ASSUME NEW j \in 1..Len(list'), list'[j] = Root PROVE \E k \in 1..Len(list) : list[k] = Root
        <5>1. j \in 2..Len(list')
          BY <1>2, <1>3, <3>1, <4>1
        <5> QED
          BY <3>2, <4>1, <5>1
      <4>2. ASSUME NEW k \in 1..Len(list), list[k] = Root PROVE \E j \in 1..Len(list') : list'[j] = Root
        <5>1. k + 1 \in 1..Len(list')
          BY <1>2, <3>1
        <5> QED
          BY <3>1, <4>2, <5>1
      <4> QED
        BY <4>1, <4>2
    <3>9. Owner'
      BY <1>1, <3>8 DEF Inv, Owner
    <3> QED
      BY <3>6, <3>7, <3>9
  <2> QED
    BY <2>1, <2>2 DEF AttachChild
<1> QED
  BY <1>6, <1>7, <1>8 DEF Inv

\* The list is created with Root in it, and destroyed with all that is in it.
LEMMA ListNewOK == ASSUME Inv, ListNew PROVE Inv'
<1>1. /\ UNCHANGED <<scenario, os, ppid, table, rest, todo, rootProc, interrupt, error, received>>
      /\ pc = "list_new" /\ list' = <<Root>>
      /\ \/ pc' = "loop" /\ after' = "loop"
         \/ pc' = "update" /\ after' = "no_python"
  BY DEF ListNew, world, history
<1>2. System' /\ Places' /\ Reaped' /\ Early' /\ Flag'
  BY <1>1 DEF Inv, System, Places, Singles, Lists, Owner, Reaped, Early, BeforeVerdict, Flag, Sampling,
              Children, Spawned, Exposure
<1>3. list' \in Seq(Pid) /\ Len(list') = 1 /\ list'[1] = Root
  BY <1>1, PidAssumption
<1>4. Items' /\ Cursor' /\ Owner'
  BY <1>1, <1>3 DEF Inv, Items, Cursor, Owner, Lists, Python
<1> QED
  BY <1>2, <1>4 DEF Inv

LEMMA ListDestroyOK == ASSUME Inv, ListDestroy PROVE Inv'
<1>1. /\ UNCHANGED <<scenario, os, ppid, table, rest, todo, interrupt, error, received, after>>
      /\ pc = "destroy" /\ pc' = "done" /\ list' = <<>> /\ rootProc' \in {rootProc, "destroyed"}
  BY DEF ListDestroy, world, history
<1>2. System' /\ Places' /\ Reaped' /\ Early' /\ Flag'
  BY <1>1 DEF Inv, System, Places, Singles, Lists, Reaped, Early, BeforeVerdict, Flag, Sampling,
              Children, Spawned, Exposure
<1>3. list' \in Seq(Pid) /\ Len(list') = 0
  BY <1>1
<1>4. Items' /\ Cursor' /\ Owner'
  BY <1>1, <1>3 DEF Inv, Items, Cursor, Owner, Lists, Python
<1> QED
  BY <1>2, <1>4 DEF Inv

\* Every step keeps the invariant.
LEMMA NextInv == Inv /\ [Next]_vars => Inv'
<1> SUFFICES ASSUME Inv, [Next]_vars PROVE Inv'
  OBVIOUS
<1>1. CASE Main
  BY <1>1, SingleOK, ControlOK, UpdateReadOK, WalkOK, DropsOK, AttachChildOK, ListNewOK, ListDestroyOK
     DEF Main, Many, Update
<1>2. CASE Env
  BY <1>2, EnvOK
<1>3. CASE Tick
  BY <1>3, TickOK
<1>4. CASE \E s \in {SIGINT, SIGTERM} : HandleSignal(s)
  BY <1>4, SignalOK
<1>5. CASE UNCHANGED vars
  BY <1>5 DEF vars, Inv, System, Places, Items, Cursor, Owner, Reaped, Early, BeforeVerdict, Flag,
              Sampling, Children, Python, Spawned, Exposure
<1> QED
  BY <1>1, <1>2, <1>3, <1>4, <1>5 DEF Next, Done

\* The invariant holds in every reachable state.
LEMMA Invariance == Spec => []Inv
BY InitInv, NextInv, PTL DEF Spec

-------------------------------------------------------------------------------
(* The theorems. *)

\* No process is listed twice, and Root's object lives exactly while Root is listed,
\* whichever processes fork, end, and fail to be read meanwhile.
THEOREM ListCorrect == Spec => []ListOK
<1>1. Inv => ListOK
  <2> SUFFICES ASSUME Inv PROVE ListOK
    OBVIOUS
  <2>1. list \in Seq(Pid) /\ DOMAIN list = 1..Len(list)
    BY DEF Inv, Items
  <2>2. IsInjective(list) /\ Listed \subseteq Python \cup {Root}
    BY <2>1 DEF IsInjective, Listed, ToSet, Inv, Items
  <2>3. Root \in Listed <=> \E i \in 1..Len(list) : list[i] = Root
    BY <2>1 DEF Listed, ToSet
  <2>4. pc \notin {"run", "list_new", "done"} /\ Children => pc \in Lists \ {"list_new"}
    BY DEF Inv, Places
  <2> QED
    BY <2>1, <2>2, <2>3, <2>4 DEF ListOK, Inv, Owner, Lists
<1> QED
  BY <1>1, Invariance, PTL

\* The cursor of a loop over the list is never on an item that was freed, and skips
\* and repeats none.
THEOREM CursorCorrect == Spec => []CursorOK
<1>1. Inv => CursorOK
  <2> SUFFICES ASSUME Inv, pc \in {"update_items", "sample", "sample_wait"} PROVE IsSuffix(rest, list)
    BY DEF CursorOK
  <2>1. /\ list \in Seq(Pid) /\ rest \in Seq(Pid) /\ Len(list) \in Nat /\ Len(rest) \in Nat
        /\ Len(rest) <= Len(list)
        /\ \A j \in 1..Len(rest) : rest[j] = list[Len(list) - Len(rest) + j]
    BY DEF Inv, Items, Cursor
  <2> DEFINE r == Reverse(rest)
             l == Reverse(list)
  <2>2. /\ r \in Seq(Pid) /\ Len(r) = Len(rest) /\ \A j \in 1..Len(rest) : r[j] = rest[Len(rest) - j + 1]
        /\ l \in Seq(Pid) /\ Len(l) = Len(list) /\ \A j \in 1..Len(list) : l[j] = list[Len(list) - j + 1]
    BY <2>1 DEF Reverse
  <2> HIDE DEF r, l
  <2>3. ASSUME NEW j \in 1..Len(rest) PROVE r[j] = l[j]
    <3>1. Len(rest) - j + 1 \in 1..Len(rest) /\ j \in 1..Len(list)
      BY <2>1
    <3>2. Len(list) - Len(rest) + (Len(rest) - j + 1) = Len(list) - j + 1
      BY <2>1
    <3> QED
      BY <2>1, <2>2, <3>1, <3>2
  <2>4. SubSeq(r, 1, Len(r)) = SubSeq(l, 1, Len(r))
    BY <2>1, <2>2, <2>3
  <2>5. IsPrefix(r, l)
    BY <2>1, <2>2, <2>4 DEF IsPrefix
  <2> QED
    BY <2>5 DEF IsSuffix, r, l
<1> QED
  BY <1>1, Invariance, PTL

\* Austin never exits before what it started and sampled has ended and been reaped.
THEOREM WaitsForItsOwn == Spec => []NothingLeftBehind
<1>1. Inv => NothingLeftBehind
  BY DEF Inv, Reaped, NothingLeftBehind
<1> QED
  BY <1>1, Invariance, PTL

\* A parent is said to have no Python children only if none is listed.
THEOREM VerdictCorrect == Spec => NoChildrenVerdict
<1>1. Inv /\ [Next]_vars => [error' = "EPROCNOCHILDREN" /\ error # error' =>
                                 Listed \subseteq {Root} \/ (Root \notin Listed /\ ~Exists(Root))]_vars
  <2> SUFFICES ASSUME Inv, Next, error' = "EPROCNOCHILDREN", error # error'
               PROVE  Listed \subseteq {Root} \/ (Root \notin Listed /\ ~Exists(Root))
    OBVIOUS
  <2>1. pc = "no_python_size" /\ Len(list) = 1
    <3>1. NoPythonSize \/ UNCHANGED error \/ error' = "EPROC"
      BY DEF Next, Main, Env, Tick, HandleSignal, Done, RunOK, RunFails, Single, SingleLoop, SingleSampleOK,
             SingleSampleFails, SingleExpire, SingleEnd, SingleWait, Many, ListNew, NoPython, Loop, Update,
             UpdateThrottled, UpdateRead, UpdateReadFails, UpdateItem, UpdateDrops, UpdateEnds, AttachChild,
             AddChildrenReturns, SampleFirst, SampleItem, SampleItemFails, SampleItemWaited, SampleEnds,
             ChildrenExpire, End, ListWait, ListDestroy, vars
    <3>2. NoPythonSize
      BY <3>1
    <3> QED
      BY <3>2 DEF NoPythonSize
  <2>2. Listed = {list[1]}
    BY <2>1 DEF Listed, ToSet, Inv, Items
  <2>3. Root \notin Listed => ~Exists(Root)
    <3>1. Root \notin Listed => rootProc = "destroyed"
      BY <2>1 DEF Listed, ToSet, Inv, Items, Owner, Lists
    <3> QED
      BY <2>1, <3>1 DEF Inv, Early, BeforeVerdict, Exists
  <2> QED
    BY <2>2, <2>3
<1> QED
  BY <1>1, Invariance, PTL DEF Spec, NoChildrenVerdict

\* What is passed on is the signal that was received last, up to the race between the
\* signal handler and the exposure.
THEOREM SignalCorrect == Spec => PassesSignalOn
<1> DEFINE Passes == sent' # sent /\ pc # "no_python_size"
                       => sent' \in IF received # 0 /\ ~Exposure THEN {received}
                                    ELSE {received, received - 1, SIGTERM}
<1>1. Inv /\ [Next]_vars => [Passes]_vars
  <2> SUFFICES ASSUME Inv, Next, sent' # sent, pc # "no_python_size" PROVE Passes
    OBVIOUS
  <2>1. (RunFails /\ sent' = SIGTERM) \/ (sent' = Passed /\ interrupt # 0)
    <3>1. RunFails \/ SingleEnd \/ End \/ NoPythonSize \/ UNCHANGED sent
      BY DEF Next, Main, Env, Tick, HandleSignal, Done, RunOK, Single, SingleLoop, SingleSampleOK,
             SingleSampleFails, SingleExpire, SingleWait, Many, ListNew, NoPython, Loop, Update,
             UpdateThrottled, UpdateRead, UpdateReadFails, UpdateItem, UpdateDrops, UpdateEnds, AttachChild,
             AddChildrenReturns, SampleFirst, SampleItem, SampleItemFails, SampleItemWaited, SampleEnds,
             ChildrenExpire, ListWait, ListDestroy, vars, history
    <3> QED
      BY <3>1 DEF RunFails, SingleEnd, End, NoPythonSize, SignalRoot
  <2>2. ASSUME RunFails, sent' = SIGTERM PROVE Passes
    BY <2>2 DEF RunFails, Inv, Flag
  <2>3. ASSUME sent' = Passed, interrupt # 0 PROVE Passes
    BY <2>3 DEF Passed, Inv, Flag, SIGINT, SIGTERM
  <2> QED
    BY <2>1, <2>2, <2>3
<1> QED
  BY <1>1, Invariance, PTL DEF Spec, PassesSignalOn
===============================================================================

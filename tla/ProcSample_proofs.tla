--------------------------- MODULE ProcSample_proofs ---------------------------
(***************************************************************************)
(* For every number of threads and interpreters, however threads start and *)
(* end, their states are freed and the memory used again, and reads fail.  *)
(* With one interpreter no time is attributed to a thread twice, and all   *)
(* of it once where nothing disturbs the samples; a change of memory is    *)
(* attributed to a thread that has held the GIL, and still holds it if the *)
(* threads are stopped; and no thread that has a state is left stopped by  *)
(* a sample that succeeds.                                                 *)
(*                                                                         *)
(* The argument rests on what Known and Walked say of the states that were *)
(* linked when the walk began: that of the next pointers, also of those    *)
(* that were freed, none leads back, and none leads past a state that is   *)
(* still linked unless Austin has come to one that was freed.              *)
(***************************************************************************)
EXTENDS ProcSample, SequenceTheorems, WellFoundedInduction, TLAPS

--------------------------------------------------------------------------------
(* The list of thread states. *)

\* A set of naturals that is not empty has a least element.
LEMMA Least == ASSUME NEW S \in SUBSET Nat, S # {} PROVE \E m \in S : \A n \in S : m <= n
<1> DEFINE R == {ss \in Nat \X Nat : ss[1] < ss[2]}
<1>1. IsWellFoundedOn(R, Nat)
  BY NatLessThanWellFounded DEF OpToRel
<1>2. \A n, m \in Nat : n < m => <<n, m>> \in R
  OBVIOUS
<1> HIDE DEF R
<1>3. PICK m \in S : \A n \in S : ~(<<n, m>> \in R)
  BY <1>1, WFMin
<1>4. \A n \in S : ~(n < m)
  BY <1>2, <1>3
<1> QED
  BY <1>4

\* There is a youngest state in any set of them.
LEMMA YoungestIn ==
  ASSUME NEW n \in Nat, id \in [Address -> 0..n], NEW S \in SUBSET Address
  PROVE  /\ S = {} => Youngest(S) = NULL
         /\ S # {} => Youngest(S) \in S /\ \A b \in S : id[b] <= id[Youngest(S)]
<1>1. ASSUME S # {} PROVE \E a \in S : \A b \in S : id[b] <= id[a]
  <2> DEFINE T == {n - id[a] : a \in S}
  <2>1. \A a \in S : id[a] \in Nat /\ n - id[a] \in Nat
    BY SMTT(30)
  <2>2. T \in SUBSET Nat /\ T # {}
    BY <1>1, <2>1
  <2>3. PICK m \in T : \A k \in T : m <= k
    BY <2>2, Least
  <2>4. PICK a \in S : m = n - id[a]
    BY <2>3
  <2>5. ASSUME NEW b \in S PROVE id[b] <= id[a]
    <3>1. n - id[b] \in T
      OBVIOUS
    <3> HIDE DEF T
    <3>2. n - id[a] <= n - id[b]
      BY <2>3, <2>4, <3>1
    <3> QED
      BY <2>1, <3>2
  <2> QED
    BY <2>5
<1> QED
  BY <1>1 DEF Youngest

--------------------------------------------------------------------------------
(* Type correctness. *)

Clocks == {clock, timestamp, delta} \subseteq 0..MaxClock

\* Between samples the time since the last one is still to be taken.
Times ==
  /\ timestamp <= clock
  /\ pc # "idle" => timestamp + delta <= clock

Lists ==
  /\ linked \in [1..Interps -> SUBSET Address]
  /\ \A i, j \in 1..Interps : i # j => linked[i] \cap linked[j] = {}
  /\ \A a, b \in Live : id[a] # 0 /\ (id[a] = id[b] => a = b)
  /\ stale \in [Address -> Address \cup {NULL}]

Begun ==
  /\ threads \in 0..MaxThreads
  /\ id \in [Address -> 0..threads]
  /\ {ending, stopped, flagged, held} \subseteq SUBSET (1..threads)
  /\ tid \in 0..threads

Walk ==
  /\ interp \in 1..Interps
  /\ head \in Address \cup {NULL} /\ cur \in Address \cup {NULL}
  /\ next \in Address \cup {NULL, Wild}
  /\ known \subseteq Address /\ strayed \in {"no", "freed", "reused"}

Memory ==
  /\ resident \in 0..MaxMemory /\ last \in -1..MaxMemory
  /\ holder \in Address \cup {NULL} /\ current \in Address \cup {NULL, Unknown}

Others ==
  /\ result \in {"success", "fail"}
  /\ counted \in [1..MaxThreads -> 0..(MaxClock + 1)]

\* TypeOK by the parts the steps disturb.
LEMMA TypeParts == TypeOK <=> Clocks /\ Lists /\ Begun /\ Walk /\ Memory /\ Others
BY DEF TypeOK, Clocks, Lists, Begun, Walk, Memory, Others

\* Whoever has held the GIL is a thread.
Holding == holder \in Address => id[holder] # 0

Types == subject \in Subjects /\ TypeOK /\ Times /\ Holding

\* What is assumed of a process gives the bounds on time, threads and interpreters
\* their types.
LEMMA SubjectTypes ==
  ASSUME subject \in Subjects
  PROVE  MaxClock \in Nat /\ MaxThreads \in Nat /\ Interps \in Nat \ {0}
<1>1. /\ subject.time \in Nat /\ subject.threads \in Nat
      /\ subject.start \in Seq(SUBSET Address) /\ subject.start # <<>>
  BY SubjectsAssumption
<1> QED
  BY <1>1, EmptySeq DEF MaxClock, MaxThreads, Interps

\* The state that comes after another: the youngest of those that are older.
LEMMA SuccessorIn ==
  ASSUME TypeOK, subject \in Subjects, NEW i \in 1..Interps, NEW a \in Address
  PROVE  \/ /\ Successor(i, a) = NULL
            /\ \A b \in linked[i] : ~(id[b] < id[a])
         \/ /\ Successor(i, a) \in linked[i] /\ Successor(i, a) \in Address
            /\ id[Successor(i, a)] < id[a]
            /\ \A b \in linked[i] : id[b] < id[a] => id[b] <= id[Successor(i, a)]
<1> DEFINE S == {b \in linked[i] : id[b] < id[a]}
<1>1. S \in SUBSET Address /\ threads \in Nat /\ id \in [Address -> 0..threads]
  <2>1. MaxThreads \in Nat /\ threads \in 0..MaxThreads /\ id \in [Address -> 0..threads]
    BY SubjectTypes DEF TypeOK
  <2>2. linked[i] \subseteq Address
    BY DEF TypeOK
  <2> QED
    BY <2>1, <2>2
<1>2. /\ S = {} => Youngest(S) = NULL
      /\ S # {} => Youngest(S) \in S /\ \A b \in S : id[b] <= id[Youngest(S)]
  <2> HIDE DEF S
  <2> QED
    BY <1>1, YoungestIn
<1>3. Successor(i, a) = Youngest(S)
  BY DEF Successor
<1> QED
  BY <1>1, <1>2, <1>3

\* What is read of a state: the thread it belongs to and the next state, or what
\* is left of them.
LEMMA FillOKReads ==
  ASSUME Types, NEW t, FillOK(t)
  PROVE  /\ cur' = t /\ t \in Address /\ tid' = id[t] /\ faults' = faults
         /\ next' \in Address \cup {NULL, Wild}
         /\ \A i \in 1..Interps : t \in linked[i] => next' = Successor(i, t)
         /\ t \notin Live => next' \in {stale[t], NULL, Wild}
         /\ strayed' # "reused" => strayed # "reused" /\ t \in known
         /\ strayed' = "no" => strayed = "no" /\ t \in linked[interp]
         /\ strayed' \in {"freed", "reused", strayed}
<1>1. cur' = t /\ t \in Address /\ tid' = id[t] /\ faults' = faults
  BY DEF FillOK
<1>2. /\ strayed' # "reused" => strayed # "reused" /\ t \in known
      /\ strayed' = "no" => strayed = "no" /\ t \in linked[interp]
      /\ strayed' \in {"freed", "reused", strayed}
  BY DEF FillOK
<1>3. ASSUME t \notin Live
      PROVE  next' \in {stale[t], NULL, Wild} /\ next' \in Address \cup {NULL, Wild}
  BY <1>1, <1>3 DEF FillOK, Types, TypeOK
<1>4. ASSUME t \in Live
      PROVE  \E i \in 1..Interps : t \in linked[i] /\ next' = Successor(i, t)
  BY <1>4 DEF FillOK
<1>5. ASSUME NEW i \in 1..Interps, t \in linked[i]
      PROVE  next' = Successor(i, t) /\ next' \in Address \cup {NULL}
  <2>1. t \in Live
    BY <1>5 DEF Live
  <2>2. PICK j \in 1..Interps : t \in linked[j] /\ next' = Successor(j, t)
    BY <1>4, <2>1
  <2>3. j = i
    BY <1>5, <2>2 DEF Types, TypeOK
  <2> QED
    BY <1>1, <2>2, <2>3, SuccessorIn DEF Types
<1>6. next' \in Address \cup {NULL, Wild}
  BY <1>3, <1>4, <1>5
<1> QED
  BY <1>1, <1>2, <1>3, <1>5, <1>6

\* The process leaves the sample alone, ...
LEMMA ProcessLeaves ==
  ASSUME Process
  PROVE  /\ UNCHANGED <<subject, pc, interp, head, cur, tid, next, strayed, result, timestamp, delta>>
         /\ UNCHANGED <<counted, stopped, flagged, last, offset, current, faults>>
BY DEF Process, Tick, Allocate, SwitchGIL, ThreadStarts, Unlink, ThreadEnds,
       target, ptraced, thread, walk, time, gil, memory

\* ... and the sample the process.
LEMMA SampleLeaves ==
  ASSUME Sample \/ Failed
  PROVE  UNCHANGED <<subject, clock, linked, threads, id, stale, ending, resident, holder>>
BY DEF Sample, Begin, ReadInterp, NoThread, ReadInterpFails, NextInterp, SampleFirst,
       SampleFirstFails, Emit, Refill, SampleNext, SampleNextFails, ReadHolder, ReadHolderFails,
       FindOffset, LeaveOut, ReadHolderAgain, Attribute, InterruptFirst, Interrupt,
       InterruptNext, InterruptFails, ResumeFirst, Resume, ResumeNext, ResumeFails, Failed, vars,
       target, gil, memory

\* The times are set when a sample begins and ends, and when all threads are stopped; ...
LEMMA TimesSet ==
  ASSUME Sample \/ Failed
  PROVE  \/ Begin \/ NextInterp \/ InterruptNext
         \/ UNCHANGED <<timestamp, delta>> /\ pc # "idle"
BY DEF Sample, Begin, ReadInterp, NoThread, ReadInterpFails, SampleFirst,
       SampleFirstFails, Emit, Refill, SampleNext, SampleNextFails, ReadHolder, ReadHolderFails,
       FindOffset, LeaveOut, ReadHolderAgain, Attribute, InterruptFirst, Interrupt,
       InterruptFails, ResumeFirst, Resume, ResumeNext, ResumeFails, Failed, vars, time

Reads == SampleFirst \/ Refill \/ SampleNext \/ InterruptFirst \/ InterruptNext
           \/ ResumeFirst \/ ResumeNext

\* ... a thread is read as a whole, or not at all; ...
LEMMA WalkSet ==
  ASSUME Sample \/ Failed
  PROVE  \/ Begin \/ ReadInterp \/ NextInterp
         \/ /\ UNCHANGED <<interp, head, known>>
            /\ UNCHANGED thread \/ (Reads /\ \E t : FillOK(t) /\ t \in {head, cur, next})
<1> DEFINE stays == NoThread \/ ReadInterpFails \/ SampleFirstFails \/ Emit \/ SampleNextFails
                      \/ ReadHolder \/ ReadHolderFails \/ FindOffset \/ LeaveOut
                      \/ ReadHolderAgain \/ Attribute \/ Interrupt \/ InterruptFails
                      \/ Resume \/ ResumeFails \/ Failed
<1>1. Begin \/ ReadInterp \/ NextInterp \/ Reads \/ stays
  BY DEF Sample, Reads
<1>2. Reads => UNCHANGED <<interp, head, known>>
  BY DEF Reads, SampleFirst, Refill, SampleNext, InterruptFirst, InterruptNext, ResumeFirst, ResumeNext
<1>3. Reads => FillOK(head) \/ FillOK(cur) \/ FillOK(next) \/ UNCHANGED thread
  BY DEF Reads, SampleFirst, Refill, SampleNext, InterruptFirst, InterruptNext, ResumeFirst, ResumeNext
<1>4. ASSUME FillOK(head) \/ FillOK(cur) \/ FillOK(next)
      PROVE  \E t : FillOK(t) /\ t \in {head, cur, next}
  <2>1. PICK x, y, z : x = head /\ y = cur /\ z = next
    OBVIOUS
  <2>2. FillOK(x) \/ FillOK(y) \/ FillOK(z)
    BY <1>4, <2>1 DEF FillOK
  <2> QED
    BY <2>1, <2>2
<1>5. stays => UNCHANGED <<interp, head, known>> /\ UNCHANGED thread
  BY DEF NoThread, ReadInterpFails, SampleFirstFails, Emit, SampleNextFails, ReadHolder,
       ReadHolderFails, FindOffset, LeaveOut, ReadHolderAgain, Attribute, Interrupt,
       InterruptFails, Resume, ResumeFails, Failed, FillFails, vars, walk, thread
<1> HIDE DEF stays
<1> QED
  BY <1>1, <1>2, <1>3, <1>4, <1>5

\* ... time is counted by Emit; the rest is set in few places, too.
LEMMA OthersSet ==
  ASSUME Sample \/ Failed
  PROVE  /\ Emit \/ counted' = counted
         /\ Interrupt \/ Resume \/ UNCHANGED <<stopped, flagged>>
         /\ result' \in {"success", "fail", result}
BY DEF Sample, Begin, ReadInterp, NoThread, ReadInterpFails, NextInterp, SampleFirst,
       SampleFirstFails, Emit, Refill, SampleNext, SampleNextFails, ReadHolder, ReadHolderFails,
       FindOffset, LeaveOut, ReadHolderAgain, Attribute, InterruptFirst, Interrupt,
       InterruptNext, InterruptFails, ResumeFirst, Resume, ResumeNext, ResumeFails, Failed, vars,
       SampleReturns, ptraced, time

\* Which steps of a sample write what memory mode looks at.
LEMMA MemorySet ==
  ASSUME Sample \/ Failed
  PROVE  /\ Attribute \/ last' = last
         /\ ReadHolder \/ ReadHolderFails \/ ReadHolderAgain \/ current' = current
         /\ Begin \/ held' = held
BY DEF Sample, Begin, ReadInterp, NoThread, ReadInterpFails, NextInterp, SampleFirst,
       SampleFirstFails, Emit, Refill, SampleNext, SampleNextFails, ReadHolder, ReadHolderFails,
       FindOffset, LeaveOut, ReadHolderAgain, Attribute, InterruptFirst, Interrupt,
       InterruptNext, InterruptFails, ResumeFirst, Resume, ResumeNext, ResumeFails, Failed, vars,
       gil, memory

\* Every step keeps the types of the clocks and that the timestamp is not ahead.
LEMMA ClocksStep == ASSUME Types, Next PROVE Clocks' /\ Times'
<1>1. /\ MaxClock \in Nat /\ subject' = subject
      /\ clock \in 0..MaxClock /\ timestamp \in 0..MaxClock /\ delta \in 0..MaxClock
  BY SubjectTypes, ProcessLeaves, SampleLeaves DEF Types, TypeOK, Next
<1>2. CASE Process
  <2>1. clock' = clock \/ (clock < MaxClock /\ clock' = clock + 1)
    BY <1>2 DEF Process, Tick, Allocate, SwitchGIL, ThreadStarts, Unlink, ThreadEnds
  <2> QED
    BY <1>1, <1>2, <2>1, ProcessLeaves DEF Types, Clocks, Times, MaxClock
<1>3. CASE Sample \/ Failed
  <2>1. CASE Begin
    BY <1>1, <2>1 DEF Begin, Types, Clocks, Times, MaxClock
  <2>2. CASE NextInterp
    BY <1>1, <2>2 DEF NextInterp, Types, Clocks, Times, MaxClock
  <2>3. CASE InterruptNext
    BY <1>1, <2>3 DEF InterruptNext, Types, Clocks, Times, MaxClock
  <2>4. CASE UNCHANGED <<timestamp, delta>> /\ pc # "idle"
    BY <1>1, <1>3, <2>4, SampleLeaves DEF Types, Clocks, Times, MaxClock
  <2> QED
    BY <1>3, <2>1, <2>2, <2>3, <2>4, TimesSet
<1> QED
  BY <1>2, <1>3 DEF Next

\* What a thread that starts does to the lists ...
LEMMA StartsLists ==
  ASSUME Types, NEW a \in Address, NEW i \in 1..Interps, ThreadStarts(a, i)
  PROVE  /\ Lists' /\ Live' = Live \cup {a} /\ a \notin Live
         /\ linked' = [linked EXCEPT ![i] = linked[i] \cup {a}]
         /\ threads' = threads + 1 /\ threads' \in 0..MaxThreads /\ threads \in Nat
         /\ id' = [id EXCEPT ![a] = threads + 1] /\ id \in [Address -> 0..threads]
         /\ stale' = [stale EXCEPT ![a] = NULL]
         /\ known' = known \ {a}
<1>1. /\ a \notin Live /\ threads < MaxThreads
      /\ linked' = [linked EXCEPT ![i] = linked[i] \cup {a}]
      /\ threads' = threads + 1 /\ id' = [id EXCEPT ![a] = threads + 1]
      /\ stale' = [stale EXCEPT ![a] = NULL] /\ known' = known \ {a}
  BY DEF ThreadStarts
<1>2. MaxThreads \in Nat /\ Lists /\ threads \in 0..MaxThreads /\ id \in [Address -> 0..threads]
  BY TypeParts, SubjectTypes DEF Types, Begun
<1>3. threads \in Nat /\ threads' \in 0..MaxThreads
  BY <1>1, <1>2
<1>4. subject' = subject /\ Interps' = Interps
  BY DEF ThreadStarts, Interps
<1>5. /\ linked' \in [1..Interps -> SUBSET Address]
      /\ \A j \in 1..Interps : linked'[j] = IF j = i THEN linked[j] \cup {a} ELSE linked[j]
  BY <1>1, <1>2 DEF Lists
<1>6. Live' = Live \cup {a}
  BY <1>4, <1>5 DEF Live
<1>7. \A j, k \in 1..Interps : j # k => linked'[j] \cap linked'[k] = {}
  BY <1>1, <1>2, <1>5 DEF Lists, Live
<1>8. Live \subseteq Address
  BY <1>2 DEF Lists, Live
<1>9. \A x \in Live : id'[x] = id[x] /\ id[x] \in 0..threads /\ x # a
  BY <1>1, <1>2, <1>8
<1>10. ASSUME NEW x \in Live', NEW y \in Live' PROVE id'[x] # 0 /\ (id'[x] = id'[y] => x = y)
  <2>1. id'[a] = threads + 1
    BY <1>1, <1>2
  <2> QED
    BY <1>2, <1>3, <1>6, <1>9, <1>10, <2>1 DEF Lists
<1>11. stale' \in [Address -> Address \cup {NULL}]
  BY <1>1, <1>2 DEF Lists
<1> QED
  BY <1>1, <1>2, <1>3, <1>4, <1>5, <1>6, <1>7, <1>10, <1>11 DEF Lists

\* ... and one that unlinks its state.
LEMMA UnlinkLists ==
  ASSUME Types, NEW a \in Address, NEW i \in 1..Interps, Unlink(a, i)
  PROVE  /\ Lists' /\ Live' = Live \ {a} /\ a \in linked[i] /\ a \in Live
         /\ linked' = [linked EXCEPT ![i] = linked[i] \ {a}]
         /\ stale' = [stale EXCEPT ![a] = Successor(i, a)]
         /\ UNCHANGED <<id, threads, known>>
<1>1. /\ a \in linked[i] /\ UNCHANGED <<id, threads, known>>
      /\ linked' = [linked EXCEPT ![i] = linked[i] \ {a}]
      /\ stale' = [stale EXCEPT ![a] = Successor(i, a)]
  BY DEF Unlink
<1>2. Lists
  BY TypeParts DEF Types
<1>3. subject' = subject /\ Interps' = Interps
  BY DEF Unlink, Interps
<1>4. /\ linked' \in [1..Interps -> SUBSET Address]
      /\ \A j \in 1..Interps : linked'[j] = IF j = i THEN linked[j] \ {a} ELSE linked[j]
  BY <1>1, <1>2 DEF Lists
<1>5. Live' = Live \ {a}
  BY <1>1, <1>2, <1>3, <1>4 DEF Live, Lists
<1>6. Successor(i, a) \in Address \cup {NULL}
  BY SuccessorIn DEF Types
<1>7. stale' \in [Address -> Address \cup {NULL}]
  BY <1>1, <1>2, <1>6 DEF Lists
<1>8. a \in Live
  BY <1>1 DEF Live
<1> QED
  BY <1>1, <1>2, <1>3, <1>4, <1>5, <1>7, <1>8 DEF Lists

\* The other steps leave the lists alone.
LEMMA ListsSet ==
  ASSUME Next
  PROVE  \/ \E i \in 1..Interps, a \in Address : ThreadStarts(a, i) \/ Unlink(a, i)
         \/ UNCHANGED <<linked, threads, id, stale>>
<1>1. CASE Process
  BY <1>1 DEF Process, Tick, Allocate, SwitchGIL, ThreadEnds, target
<1>2. CASE Sample \/ Failed
  BY <1>2, SampleLeaves
<1> QED
  BY <1>1, <1>2 DEF Next

\* Every step keeps the lists of thread states sound.
LEMMA ListsStep == ASSUME Types, Next PROVE Lists'
<1>1. CASE UNCHANGED <<linked, threads, id, stale>>
  <2>1. Interps' = Interps
    BY ProcessLeaves, SampleLeaves DEF Next, Interps
  <2>2. Live' = Live
    BY <1>1, <2>1 DEF Live
  <2> QED
    BY <1>1, <2>1, <2>2, TypeParts DEF Types, Lists
<1> QED
  BY <1>1, ListsSet, StartsLists, UnlinkLists

\* Every step keeps the types of the threads that are told by their numbers.
LEMMA BegunStep == ASSUME Types, Next PROVE Begun'
<1>1. Begun /\ Lists /\ Walk /\ MaxThreads \in Nat /\ threads \in Nat
  BY TypeParts, SubjectTypes DEF Types, Begun
<1>2. MaxThreads' = MaxThreads
  BY ProcessLeaves, SampleLeaves DEF Next, MaxThreads
<1>3. /\ ending \subseteq 1..threads /\ stopped \subseteq 1..threads
      /\ flagged \subseteq 1..threads /\ held \subseteq 1..threads
  BY <1>1 DEF Begun
<1>4. \A a \in Live : a \in Address /\ id[a] \in 1..threads
  <2>1. \A a \in Live : a \in Address /\ id[a] # 0
    BY <1>1 DEF Lists, Live
  <2> QED
    BY <1>1, <2>1 DEF Begun
<1>5. ASSUME threads' = threads, id' = id, tid' \in 0..threads, ending' \subseteq 1..threads,
             stopped' \subseteq 1..threads, flagged' \subseteq 1..threads, held' \subseteq 1..threads
      PROVE  Begun'
  BY <1>1, <1>2, <1>5 DEF Begun
<1>6. CASE Process
  <2>1. UNCHANGED <<tid, stopped, flagged>>
    BY <1>6, ProcessLeaves
  <2>2. CASE Tick \/ Allocate
    BY <1>1, <1>2, <2>2 DEF Tick, Allocate, Begun, target, ptraced, memory, gil, walk, thread
  <2>3. ASSUME NEW a \in Address \cup {NULL}, SwitchGIL(a) PROVE Begun'
    <3>1. UNCHANGED <<threads, id, ending>> /\ held' \subseteq 1..threads
      BY <1>3, <1>4, <2>3 DEF SwitchGIL, target, Running
    <3> QED
      BY <1>1, <1>3, <1>5, <2>1, <3>1 DEF Begun
  <2>4. ASSUME NEW i \in 1..Interps, NEW a \in Address, ThreadStarts(a, i) PROVE Begun'
    <3>1. /\ threads' = threads + 1 /\ threads' \in 0..MaxThreads
          /\ id' = [id EXCEPT ![a] = threads + 1] /\ id \in [Address -> 0..threads]
      BY <2>4, StartsLists
    <3>2. UNCHANGED <<ending, held>>
      BY <2>4 DEF ThreadStarts, memory, gil
    <3>3. id' \in [Address -> 0..threads']
      BY <1>1, <3>1
    <3>4. 1..threads \subseteq 1..threads' /\ 0..threads \subseteq 0..threads'
      BY <1>1, <3>1
    <3> QED
      BY <1>1, <1>2, <1>3, <2>1, <3>1, <3>2, <3>3, <3>4 DEF Begun
  <2>5. ASSUME NEW i \in 1..Interps, NEW a \in Address, Unlink(a, i) PROVE Begun'
    <3>1. UNCHANGED <<threads, id, held>> /\ ending' \subseteq ending \cup {id[a]} /\ a \in linked[i]
      BY <2>5 DEF Unlink, memory, gil
    <3>2. a \in Live
      BY <3>1 DEF Live
    <3> QED
      BY <1>1, <1>3, <1>4, <1>5, <2>1, <3>1, <3>2 DEF Begun
  <2>6. ASSUME NEW t, ThreadEnds(t) PROVE Begun'
    <3>1. UNCHANGED <<threads, id, held>> /\ ending' \subseteq ending
      BY <2>6 DEF ThreadEnds, memory, gil
    <3> QED
      BY <1>1, <1>3, <1>5, <2>1, <3>1 DEF Begun
  <2> QED
    BY <1>6, <2>2, <2>3, <2>4, <2>5, <2>6 DEF Process
<1>7. CASE Sample \/ Failed
  <2>1. UNCHANGED <<threads, id, ending>>
    BY <1>7, SampleLeaves
  <2>2. tid' \in 0..threads
    <3>1. UNCHANGED thread \/ \E t : FillOK(t)
      BY <1>7, WalkSet DEF Begin, ReadInterp, NextInterp, thread
    <3> QED
      BY <1>1, <3>1, FillOKReads DEF Begun, thread
  <2>3. held' \subseteq 1..threads
    <3>1. CASE Begin
      <4>1. holder \in Address \cup {NULL} /\ (holder \in Address => id[holder] # 0)
        BY DEF Types, TypeOK, Holding
      <4>2. holder \in Address => id[holder] \in 1..threads
        BY <1>1, <4>1 DEF Begun
      <4> QED
        BY <3>1, <4>1, <4>2 DEF Begin
    <3> QED
      BY <1>3, <1>7, <3>1, MemorySet
  <2>4. stopped' \subseteq 1..threads /\ flagged' \subseteq 1..threads
    <3>1. CASE Interrupt
      <4>1. tid \in 1..threads
        BY <1>3, <1>4, <3>1 DEF Interrupt, Alive
      <4> QED
        BY <1>3, <3>1, <4>1 DEF Interrupt
    <3>2. CASE Resume
      BY <1>3, <3>2 DEF Resume
    <3> QED
      BY <1>3, <1>7, <3>1, <3>2, OthersSet
  <2> QED
    BY <1>3, <1>5, <2>1, <2>2, <2>3, <2>4
<1> QED
  BY <1>6, <1>7 DEF Next

\* Every step keeps the types of the position in the lists.
LEMMA WalkStep == ASSUME Types, Next PROVE Walk'
<1>1. Walk /\ Interps \in Nat \ {0}
  BY TypeParts, SubjectTypes DEF Types
<1>2. CASE Process
  <2>1. known' \subseteq known
    BY <1>2 DEF Process, Tick, Allocate, SwitchGIL, ThreadStarts, Unlink, ThreadEnds
  <2> QED
    BY <1>1, <1>2, <2>1, ProcessLeaves DEF Walk, Interps
<1>3. CASE Sample \/ Failed
  <2>1. Interps' = Interps
    BY <1>3, SampleLeaves DEF Interps
  <2>2. CASE Begin
    BY <1>1, <2>1, <2>2 DEF Begin, Walk, thread
  <2>3. CASE ReadInterp
    <3> DEFINE S == linked[interp]
    <3>1. S \subseteq Address /\ threads \in Nat /\ id \in [Address -> 0..threads]
      <4>1. MaxThreads \in Nat /\ threads \in 0..MaxThreads /\ id \in [Address -> 0..threads]
        BY SubjectTypes DEF Types, TypeOK
      <4>2. linked[interp] \subseteq Address
        BY DEF Types, TypeOK
      <4> QED
        BY <4>1, <4>2
    <3>2. head' = Youngest(S) /\ S # {} /\ known' = S
      BY <2>3 DEF ReadInterp
    <3> HIDE DEF S
    <3>3. head' \in Address
      BY <3>1, <3>2, YoungestIn
    <3> QED
      BY <1>1, <2>1, <2>3, <3>1, <3>2, <3>3 DEF ReadInterp, Walk, thread
  <2>4. CASE NextInterp
    BY <1>1, <2>1, <2>4 DEF NextInterp, Walk, thread
  <2>5. CASE UNCHANGED <<interp, head, known>> /\ (UNCHANGED thread \/ \E t : FillOK(t))
    BY <1>1, <2>1, <2>5, FillOKReads DEF Walk, thread
  <2> QED
    BY <1>3, <2>2, <2>3, <2>4, <2>5, WalkSet
<1> QED
  BY <1>2, <1>3 DEF Next

\* Every step keeps the types of what memory mode looks at.
LEMMA MemoryStep == ASSUME Types, Next PROVE Memory' /\ Holding'
<1>1. Memory /\ MaxMemory \in Nat /\ Holding
  BY TypeParts, BoundAssumption DEF Types
<1>2. CASE Process
  <2>1. CASE Tick \/ Allocate \/ \E t \in 1..MaxThreads : ThreadEnds(t)
    BY <1>1, <2>1 DEF Tick, Allocate, ThreadEnds, Memory, Holding, memory, gil, target
  <2>2. ASSUME NEW a \in Address \cup {NULL}, SwitchGIL(a) PROVE Memory' /\ Holding'
    <3>1. holder' = a /\ UNCHANGED <<id, resident, last, current>> /\ (a = NULL \/ a \in Live)
      BY <2>2 DEF SwitchGIL, Running, target
    <3>2. \A x \in Live : id[x] # 0
      BY DEF Types, TypeOK
    <3> QED
      BY <1>1, <3>1, <3>2, NullAssumption DEF Memory, Holding
  <2>3. ASSUME NEW i \in 1..Interps, NEW a \in Address, ThreadStarts(a, i) PROVE Memory' /\ Holding'
    <3>1. /\ id' = [id EXCEPT ![a] = threads + 1] /\ id \in [Address -> 0..threads] /\ threads \in Nat
      BY <2>3, StartsLists
    <3>2. UNCHANGED memory
      BY <2>3 DEF ThreadStarts
    <3> QED
      BY <1>1, <3>1, <3>2 DEF Memory, Holding, memory, gil
  <2>4. ASSUME NEW i \in 1..Interps, NEW a \in Address, Unlink(a, i) PROVE Memory' /\ Holding'
    BY <1>1, <2>4 DEF Unlink, Memory, Holding, memory, gil
  <2> QED
    BY <1>2, <2>1, <2>2, <2>3, <2>4 DEF Process
<1>3. CASE Sample \/ Failed
  <2>1. UNCHANGED <<resident, holder, id>>
    BY <1>3, SampleLeaves
  <2>2. last' \in -1..MaxMemory
    BY <1>1, <1>3, MemorySet DEF Attribute, Memory
  <2>3. current' \in Address \cup {NULL, Unknown}
    BY <1>1, <1>3, MemorySet DEF ReadHolder, ReadHolderFails, ReadHolderAgain, Memory
  <2> QED
    BY <1>1, <2>1, <2>2, <2>3 DEF Memory, Holding
<1> QED
  BY <1>2, <1>3 DEF Next

\* Every step keeps the types of the remaining variables.
LEMMA OthersStep == ASSUME Types, Next PROVE Others'
<1>1. Others /\ Clocks /\ MaxClock \in Nat
  BY TypeParts, SubjectTypes DEF Types
<1>2. MaxClock' = MaxClock /\ MaxThreads' = MaxThreads
  BY ProcessLeaves, SampleLeaves DEF Next, MaxClock, MaxThreads
<1>3. CASE Process
  BY <1>1, <1>2, <1>3, ProcessLeaves DEF Others
<1>4. CASE Sample \/ Failed
  <2>1. counted' \in [1..MaxThreads -> 0..(MaxClock + 1)]
    <3>1. \A t \in 1..MaxThreads : counted[t] \in 0..(MaxClock + 1)
      BY <1>1 DEF Others
    <3>2. delta \in Nat
      BY <1>1 DEF Clocks
    <3>3. CASE Emit
      <4>1. \/ counted' = counted
            \/ counted' = [counted EXCEPT ![tid] = IF counted[tid] + delta > MaxClock
                                                   THEN MaxClock + 1 ELSE counted[tid] + delta]
        BY <3>3 DEF Emit
      <4>2. ASSUME NEW t \in 1..MaxThreads PROVE counted'[t] \in 0..(MaxClock + 1)
        <5>1. CASE t = tid
          <6>1. counted[t] \in 0..(MaxClock + 1) /\ counted[t] \in Nat
            BY <1>1, <3>1
          <6>2. \/ counted'[t] = counted[t]
                \/ counted'[t] = IF counted[t] + delta > MaxClock
                                 THEN MaxClock + 1 ELSE counted[t] + delta
            BY <1>1, <4>1, <5>1 DEF Others
          <6> QED
            BY <1>1, <3>2, <6>1, <6>2
        <5>2. CASE t # tid
          BY <1>1, <3>1, <4>1, <5>2 DEF Others
        <5> QED
          BY <5>1, <5>2
      <4> QED
        BY <1>1, <4>1, <4>2 DEF Others
    <3> QED
      BY <1>1, <1>4, <3>3, OthersSet DEF Others
  <2>2. result' \in {"success", "fail"}
    BY <1>1, <1>4, OthersSet DEF Others
  <2> QED
    BY <1>2, <2>1, <2>2 DEF Others
<1> QED
  BY <1>3, <1>4 DEF Next

\* The types hold initially.
LEMMA InitTypes == Init => Types
<1> SUFFICES ASSUME Init PROVE Types
  OBVIOUS
<1>1. /\ subject \in Subjects /\ MaxClock \in Nat /\ MaxThreads \in Nat /\ Interps \in Nat \ {0}
      /\ subject.begun \in Nat /\ subject.begun <= MaxThreads
      /\ subject.id \in [Address -> 0..subject.begun]
  BY SubjectTypes, SubjectsAssumption DEF Init, MaxThreads
<1>2. Clocks /\ Walk /\ Memory /\ Others /\ Times
  BY <1>1, BoundAssumption DEF Init, Clocks, Walk, Memory, Others, Times
<1>3. linked = subject.start /\ linked \in Seq(SUBSET Address) /\ Interps = Len(linked)
  BY <1>1, SubjectsAssumption DEF Init, Interps
<1>4. linked \in [1..Interps -> SUBSET Address]
  BY <1>3, LenProperties
<1>5. /\ \A i, j \in 1..Interps : i # j => linked[i] \cap linked[j] = {}
      /\ \A i, j \in 1..Interps : \A a \in linked[i], b \in linked[j] :
           subject.id[a] # 0 /\ (subject.id[a] = subject.id[b] => a = b)
  <2>1. /\ \A i, j \in 1..Len(subject.start) : i # j => subject.start[i] \cap subject.start[j] = {}
        /\ \A i, j \in 1..Len(subject.start) : \A a \in subject.start[i], b \in subject.start[j] :
             subject.id[a] # 0 /\ (subject.id[a] = subject.id[b] => a = b)
    BY <1>1, SubjectsAssumption
  <2> QED
    BY <1>3, <2>1
<1>6. id = subject.id /\ stale = [a \in Address |-> NULL]
  BY DEF Init
<1>7. \A a, b \in Live : id[a] # 0 /\ (id[a] = id[b] => a = b)
  BY <1>5, <1>6 DEF Live
<1>8. Lists
  BY <1>4, <1>5, <1>6, <1>7 DEF Lists
<1>9. Begun
  BY <1>1, <1>6 DEF Begun, Init
<1>10. Holding
  BY NullAssumption DEF Init, Holding
<1> QED
  BY <1>1, <1>2, <1>8, <1>9, <1>10, TypeParts DEF Types

\* The types are an inductive invariant.
LEMMA TypesStep == Types /\ [Next]_vars => Types'
<1> SUFFICES ASSUME Types, [Next]_vars PROVE Types'
  OBVIOUS
<1>1. CASE Next
  <2>1. subject' = subject
    BY <1>1, ProcessLeaves, SampleLeaves DEF Next
  <2>2. TypeOK'
    BY <1>1, ClocksStep, ListsStep, BegunStep, WalkStep, MemoryStep, OthersStep
    DEF TypeOK, Clocks, Lists, Begun, Walk, Memory, Others
  <2> QED
    BY <1>1, <2>1, <2>2, ClocksStep, MemoryStep DEF Types
<1>2. CASE UNCHANGED vars
  <2>1. /\ Interps' = Interps /\ MaxClock' = MaxClock /\ MaxThreads' = MaxThreads
        /\ subject' = subject /\ linked' = linked
    BY <1>2 DEF vars, Interps, MaxClock, MaxThreads
  <2>2. Live' = Live
    BY <2>1 DEF Live
  <2>3. Clocks' /\ Lists' /\ Begun' /\ Walk' /\ Memory' /\ Others'
    BY <1>2, <2>1, <2>2, TypeParts DEF vars, Types, Clocks, Lists, Begun, Walk, Memory, Others
  <2>4. TypeOK'
    BY <2>3 DEF TypeOK, Clocks, Lists, Begun, Walk, Memory, Others
  <2> QED
    BY <1>2, <2>1, <2>4 DEF vars, Types, Times, Holding
<1> QED
  BY <1>1, <1>2

\* Type correctness, for every number of threads and interpreters; and no two thread
\* states are of one thread.
THEOREM TypeCorrect == Spec => []TypeOK
<1>1. Types => TypeOK
  BY DEF Types
<1> QED
  BY <1>1, InitTypes, TypesStep, PTL DEF Spec

--------------------------------------------------------------------------------
(* The states that were linked when the walk began. *)

\* They are of one thread each, and head is the youngest of them; one that was freed
\* has not been changed, and its pointer is not to one that is younger.
Known ==
  /\ pc \in {"idle", "read"} => known = {}
  /\ \A a \in known : id[a] # 0 /\ (a \in Live => a \in linked[interp])
  /\ \A a, b \in known \cup Live : id[a] = id[b] => a = b
  /\ \A a \in known \ Live : stale[a] \in known => id[stale[a]] < id[a]
  /\ head \in known => \A a \in known : id[a] <= id[head]

Walking == {"gil", "memory", "gil_again", "attribute", "emit", "refill", "sample_next",
            "interrupt", "interrupt_next", "resume", "resume_next"}

\* Austin has come to the thread tid, and the next one is older.  If it has followed no
\* pointer to a state that was freed, no state that is still linked lies between them.
Walked ==
  pc \in Walking =>
    /\ cur \in Address /\ (cur \in known => id[cur] = tid)
    /\ strayed # "reused" =>
         /\ next \in known => id[next] < tid
         /\ \A a \in known \cup Live : id[a] = tid => a = cur /\ a \in known
    /\ strayed = "no" =>
         \A a \in known \cap Live : id[a] < tid =>
           next # NULL /\ (next \in known => id[a] <= id[next])

\* What the process leaves of the states, and what becomes of those that change.
LEMMA ProcessKeeps ==
  ASSUME Types, Process
  PROVE  /\ known' \subseteq known /\ known \ known' \subseteq Live' \ Live
         /\ \A a \in known' \cup (Live' \cap Live) : id'[a] = id[a]
         /\ \A a \in known' : a \in Live' => a \in Live
         /\ \A a \in Live' \ Live : id'[a] = threads + 1
         /\ \A a, b \in Live' \ Live : a = b
         /\ \A i \in 1..Interps : \A a \in Live' : a \in linked[i] => a \in linked'[i]
         /\ \A a \in known' \ Live : stale'[a] = stale[a]
         /\ \A a \in Live \ Live' : \E i \in 1..Interps : stale'[a] = Successor(i, a)
         /\ \A a \in Live \ Live' : Running(a)
         /\ threads \in Nat /\ id \in [Address -> 0..threads] /\ Live \subseteq Address
         /\ known \subseteq Address
<1>1. Lists /\ known \subseteq Address /\ Live \subseteq Address
  BY TypeParts DEF Types, Lists, Live, Walk
<1>2. threads \in Nat /\ id \in [Address -> 0..threads]
  BY TypeParts, SubjectTypes DEF Types, Begun
<1>3. Interps' = Interps
  BY ProcessLeaves DEF Interps
<1>4. CASE UNCHANGED <<linked, id, stale, known>>
  <2>1. Live' = Live
    BY <1>3, <1>4 DEF Live
  <2> QED
    BY <1>1, <1>2, <1>4, <2>1
<1>5. ASSUME NEW i \in 1..Interps, NEW a \in Address, ThreadStarts(a, i)
      PROVE  /\ Live' = Live \cup {a} /\ a \notin Live
             /\ \A j \in 1..Interps : linked[j] \subseteq linked'[j]
             /\ \A b \in Address : id'[b] = IF b = a THEN threads + 1 ELSE id[b]
             /\ \A b \in Address : b # a => stale'[b] = stale[b]
             /\ known' = known \ {a}
  <2>1. /\ Live' = Live \cup {a} /\ a \notin Live /\ known' = known \ {a}
        /\ linked' = [linked EXCEPT ![i] = linked[i] \cup {a}]
        /\ id' = [id EXCEPT ![a] = threads + 1]
        /\ stale' = [stale EXCEPT ![a] = NULL]
    BY <1>5, StartsLists
  <2>2. \A j \in 1..Interps : linked[j] \subseteq linked'[j]
    BY <1>1, <2>1 DEF Lists
  <2>3. \A b \in Address : id'[b] = IF b = a THEN threads + 1 ELSE id[b]
    BY <1>2, <2>1
  <2>4. \A b \in Address : b # a => stale'[b] = stale[b]
    BY <1>1, <2>1 DEF Lists
  <2> QED
    BY <2>1, <2>2, <2>3, <2>4
<1>6. ASSUME NEW i \in 1..Interps, NEW a \in Address, Unlink(a, i)
      PROVE  /\ Live' = Live \ {a} /\ a \in Live /\ Running(a)
             /\ \A j \in 1..Interps : linked[j] \ {a} \subseteq linked'[j]
             /\ \A b \in Address : stale'[b] = IF b = a THEN Successor(i, a) ELSE stale[b]
             /\ id' = id /\ known' = known
  <2>1. Running(a)
    BY <1>6 DEF Unlink
  <2>2. /\ Live' = Live \ {a} /\ a \in Live /\ id' = id /\ known' = known
        /\ linked' = [linked EXCEPT ![i] = linked[i] \ {a}]
        /\ stale' = [stale EXCEPT ![a] = Successor(i, a)]
    BY <1>6, UnlinkLists
  <2>3. \A j \in 1..Interps : linked[j] \ {a} \subseteq linked'[j]
    BY <1>1, <2>2 DEF Lists
  <2>4. \A b \in Address : stale'[b] = IF b = a THEN Successor(i, a) ELSE stale[b]
    BY <1>1, <2>2 DEF Lists
  <2> QED
    BY <2>1, <2>2, <2>3, <2>4
<1>7. CASE \E i \in 1..Interps, a \in Address : ThreadStarts(a, i)
  BY <1>1, <1>2, <1>5, <1>7
<1>8. CASE \E i \in 1..Interps, a \in Address : Unlink(a, i)
  <2>1. PICK i \in 1..Interps, a \in Address : Unlink(a, i)
    BY <1>8
  <2> QED
    BY <1>1, <1>2, <1>6, <2>1
<1> QED
  BY <1>4, <1>7, <1>8 DEF Process, Tick, Allocate, SwitchGIL, ThreadEnds, target

\* Whatever starts and ends, what is known of the states stays true.
LEMMA KnownProcess == ASSUME Types, Known, Process PROVE Known'
<1>1. UNCHANGED <<pc, interp, head>>
  BY ProcessLeaves
<1>2. /\ known' \subseteq known /\ known \subseteq Address /\ Live \subseteq Address
      /\ \A a \in known' \cup (Live' \cap Live) : id'[a] = id[a]
      /\ \A a \in known' : a \in Live' => a \in Live
      /\ \A a \in Live' \ Live : id'[a] = threads + 1
      /\ \A a, b \in Live' \ Live : a = b
      /\ threads \in Nat /\ id \in [Address -> 0..threads]
  BY ProcessKeeps
<1>3. \A a \in known' : id'[a] # 0 /\ (a \in Live' => a \in linked'[interp])
  <2>1. interp \in 1..Interps
    BY DEF Types, TypeOK
  <2> QED
    BY <1>2, <2>1, ProcessKeeps DEF Known
<1>4. ASSUME NEW a \in known' \cup Live', NEW b \in known' \cup Live', id'[a] = id'[b] PROVE a = b
  <2>1. \A c \in known' \cup Live' :
          \/ c \in known \cup Live /\ id'[c] = id[c] /\ id[c] <= threads
          \/ c \in Live' \ Live /\ id'[c] = threads + 1
    BY <1>2
  <2> QED
    BY <1>2, <1>4, <2>1 DEF Known
<1>5. ASSUME NEW a \in known' \ Live', stale'[a] \in known' PROVE id'[stale'[a]] < id'[a]
  <2>1. id'[a] = id[a] /\ id'[stale'[a]] = id[stale'[a]] /\ a \in known /\ stale'[a] \in known
    BY <1>2, <1>5
  <2>2. CASE a \notin Live
    <3>1. stale'[a] = stale[a]
      BY <1>5, <2>2, ProcessKeeps
    <3> QED
      BY <2>1, <2>2, <3>1 DEF Known
  <2>3. CASE a \in Live
    <3>1. PICK i \in 1..Interps : stale'[a] = Successor(i, a)
      BY <1>5, <2>3, ProcessKeeps
    <3>2. Successor(i, a) = NULL \/ id[Successor(i, a)] < id[a]
      BY <1>2, <2>1, SuccessorIn DEF Types
    <3> QED
      BY <1>2, <2>1, <3>1, <3>2, NullAssumption
  <2> QED
    BY <2>2, <2>3
<1>6. ASSUME head' \in known' PROVE \A a \in known' : id'[a] <= id'[head']
  BY <1>1, <1>2, <1>6 DEF Known
<1> QED
  BY <1>1, <1>2, <1>3, <1>4, <1>5, <1>6 DEF Known

\* A sample gets to know the states of an interpreter when it reads its head.
LEMMA KnownSample == ASSUME Types, Known, Sample \/ Failed PROVE Known'
<1>1. UNCHANGED <<linked, id, stale>> /\ Live' = Live
  BY SampleLeaves DEF Live, Interps
<1>2. CASE Begin
  BY <1>1, <1>2 DEF Begin, Known
<1>3. CASE ReadInterp
  <2> DEFINE S == linked[interp]
  <2>1. interp \in 1..Interps /\ S \subseteq Live /\ threads \in Nat /\ id \in [Address -> 0..threads]
        /\ S \in SUBSET Address
    <3>1. Begun /\ Lists /\ Walk /\ MaxThreads \in Nat
      BY TypeParts, SubjectTypes DEF Types
    <3> QED
      BY <3>1 DEF Begun, Lists, Walk, Live
  <2>2. \A a, b \in Live : id[a] # 0 /\ (id[a] = id[b] => a = b)
    BY DEF Types, TypeOK
  <2>3. head' = Youngest(S) /\ known' = S /\ interp' = interp /\ pc' \notin {"idle", "read"}
    BY <1>3 DEF ReadInterp
  <2>4. \A a \in S : id[a] <= id[head']
    <3> HIDE DEF S
    <3> QED
      BY <2>1, <2>3, YoungestIn
  <2> QED
    BY <1>1, <2>1, <2>2, <2>3, <2>4 DEF Known
<1>4. CASE NextInterp
  <2>1. known' = {}
    BY <1>4 DEF NextInterp
  <2> QED
    BY <1>1, <2>1 DEF Known
<1>5. CASE UNCHANGED <<interp, head, known>> /\ (pc \in {"idle", "read"} \/ pc' \notin {"idle", "read"})
  BY <1>1, <1>5 DEF Known
<1>6. Begin \/ NextInterp \/ (pc \in {"idle", "read"} \/ pc' \notin {"idle", "read"})
  BY DEF Sample, ReadInterp, NoThread, ReadInterpFails, SampleFirst,
       SampleFirstFails, Emit, Refill, SampleNext, SampleNextFails, ReadHolder, ReadHolderFails,
       FindOffset, LeaveOut, ReadHolderAgain, Attribute, InterruptFirst, Interrupt,
       InterruptNext, InterruptFails, ResumeFirst, Resume, ResumeNext, ResumeFails, Failed, vars,
       SampleReturns
<1> QED
  BY <1>2, <1>3, <1>4, <1>5, <1>6, WalkSet

\* Whatever starts and ends, the next state stays behind the thread, and what is
\* linked between them is less.
LEMMA WalkedProcess == ASSUME Types, Known, Walked, Process PROVE Walked'
<1>1. UNCHANGED <<pc, cur, tid, next, strayed>>
  BY ProcessLeaves
<1> SUFFICES ASSUME pc \in Walking PROVE Walked'
  BY <1>1 DEF Walked
<1>2. /\ cur \in Address /\ (cur \in known => id[cur] = tid)
      /\ strayed # "reused" =>
           /\ next \in known => id[next] < tid
           /\ \A a \in known \cup Live : id[a] = tid => a = cur /\ a \in known
      /\ strayed = "no" => \A a \in known \cap Live : id[a] < tid =>
           next # NULL /\ (next \in known => id[a] <= id[next])
  BY DEF Walked
<1>3. /\ known' \subseteq known
      /\ \A a \in known' \cup (Live' \cap Live) : id'[a] = id[a]
      /\ \A a \in known' : a \in Live' => a \in Live
      /\ \A a \in Live' \ Live : id'[a] = threads + 1
      /\ threads \in Nat /\ tid \in 0..threads
  <2>1. tid \in 0..threads
    BY DEF Types, TypeOK
  <2> QED
    BY <2>1, ProcessKeeps
<1>4. ASSUME strayed # "reused", NEW a \in known' \cup Live', id'[a] = tid PROVE a = cur /\ a \in known'
  <2>1. tid # threads + 1
    BY <1>3
  <2>2. a \in known \cup Live /\ id[a] = tid
    BY <1>3, <1>4, <2>1
  <2>3. a = cur /\ a \in known
    BY <1>2, <1>4, <2>2
  <2>4. a \in known'
    <3>1. known \ known' \subseteq Live' \ Live
      BY ProcessKeeps
    <3> QED
      BY <1>3, <1>4, <2>1, <2>3, <3>1
  <2> QED
    BY <2>3, <2>4
<1>5. ASSUME strayed = "no", NEW a \in known' \cap Live', id'[a] < tid
      PROVE  next # NULL /\ (next \in known' => id'[a] <= id'[next])
  BY <1>2, <1>3, <1>5
<1> QED
  BY <1>1, <1>2, <1>3, <1>4, <1>5 DEF Walked

\* What was known is followed along the pointers, and read with what it says.
LEMMA ReadWalked ==
  ASSUME Types, Known, NEW t, FillOK(t), strayed' # "reused"
  PROVE  /\ cur' \in known /\ id[cur'] = tid' /\ strayed # "reused"
         /\ next' \in known => id[next'] < tid'
         /\ \A a \in known \cup Live : id[a] = tid' => a = cur'
         /\ strayed' = "no" =>
              /\ strayed = "no" /\ cur' \in Live
              /\ \A a \in known \cap Live : id[a] < tid' =>
                   next' # NULL /\ (next' \in known => id[a] <= id[next'])
<1>1. /\ cur' = t /\ t \in Address /\ tid' = id[t] /\ t \in known /\ strayed # "reused"
      /\ t \in linked[interp] => next' = Successor(interp, t)
      /\ t \notin Live => next' \in {stale[t], NULL, Wild}
      /\ strayed' = "no" => strayed = "no" /\ t \in linked[interp]
      /\ interp \in 1..Interps /\ known \subseteq Address
  <2>1. interp \in 1..Interps /\ known \subseteq Address
    BY DEF Types, TypeOK
  <2> QED
    BY <2>1, FillOKReads
<1>2. /\ \A a \in known \cap Live : a \in linked[interp]
      /\ linked[interp] \subseteq Live
      /\ \A a, b \in known \cup Live : id[a] = id[b] => a = b
  BY <1>1 DEF Known, Live
<1>3. CASE t \in linked[interp]
  <2>1. next' = Successor(interp, t)
    BY <1>1, <1>3
  <2>2. \/ /\ next' = NULL
           /\ \A b \in linked[interp] : ~(id[b] < id[t])
        \/ /\ next' \in Address
           /\ id[next'] < id[t]
           /\ \A b \in linked[interp] : id[b] < id[t] => id[b] <= id[next']
    BY <1>1, <2>1, SuccessorIn DEF Types
  <2> QED
    BY <1>1, <1>2, <1>3, <2>2, NullAssumption
<1>4. CASE t \notin linked[interp]
  <2>1. t \notin Live /\ strayed' # "no"
    BY <1>1, <1>2, <1>4
  <2>2. next' \in known => next' = stale[t]
    BY <1>1, <2>1, NullAssumption
  <2>3. next' \in known => id[next'] < id[t]
    BY <1>1, <2>1, <2>2 DEF Known
  <2> QED
    BY <1>1, <1>2, <2>1, <2>3
<1> QED
  BY <1>3, <1>4

\* A walk begins with a state that is read.
LEMMA WalkBegins ==
  ASSUME Sample \/ Failed, pc' \in Walking, pc \notin Walking
  PROVE  \E t : FillOK(t)
<1>1. SampleFirst \/ InterruptFirst \/ ResumeFirst
  BY DEF Sample, Begin, ReadInterp, NoThread, ReadInterpFails, NextInterp,
       SampleFirstFails, Emit, Refill, SampleNext, SampleNextFails, ReadHolder, ReadHolderFails,
       FindOffset, LeaveOut, ReadHolderAgain, Attribute, Interrupt,
       InterruptNext, InterruptFails, Resume, ResumeNext, ResumeFails, Failed, vars,
       SampleReturns, Walking
<1>2. PICK t : t = head
  OBVIOUS
<1>3. FillOK(t)
  BY <1>1, <1>2 DEF SampleFirst, InterruptFirst, ResumeFirst, FillOK
<1> QED
  BY <1>3

\* The walk goes from one state to the next.
LEMMA WalkedSample == ASSUME Types, Known, Walked, Sample \/ Failed PROVE Walked'
<1>1. UNCHANGED <<linked, id>> /\ Live' = Live
  BY SampleLeaves DEF Live, Interps
<1> SUFFICES ASSUME pc' \in Walking PROVE Walked'
  BY DEF Walked
<1>2. ~Begin /\ ~ReadInterp /\ ~NextInterp
  BY DEF Begin, ReadInterp, NextInterp, Walking
<1>3. UNCHANGED known /\ (UNCHANGED thread \/ \E t : FillOK(t))
  BY <1>2, WalkSet
<1>4. CASE UNCHANGED thread /\ pc \in Walking
  BY <1>1, <1>3, <1>4 DEF Walked, thread
<1>5. CASE \E t : FillOK(t)
  <2>1. PICK t : FillOK(t)
    BY <1>5
  <2>2. ASSUME strayed' # "reused"
        PROVE  /\ cur' \in known
               /\ next' \in known => id[next'] < tid'
               /\ \A a \in known \cup Live : id[a] = tid' => a = cur'
               /\ strayed' = "no" =>
                    \A a \in known \cap Live : id[a] < tid' =>
                       next' # NULL /\ (next' \in known => id[a] <= id[next'])
    BY <2>1, <2>2, ReadWalked
  <2>3. cur' \in Address /\ id[cur'] = tid'
    BY <2>1, FillOKReads
  <2> QED
    BY <1>1, <1>3, <2>2, <2>3 DEF Walked
<1> QED
  BY <1>3, <1>4, <1>5, WalkBegins

Course == Types /\ Known /\ Walked

\* What is known of the states and of the walk is an invariant with the types.
LEMMA CourseInit == Init => Course
<1> SUFFICES ASSUME Init PROVE Known /\ Walked
  BY InitTypes DEF Course
<1>1. \A a, b \in Live : id[a] = id[b] => a = b
  BY InitTypes DEF Types, TypeOK
<1> QED
  BY <1>1 DEF Init, Known, Walked, Walking

LEMMA CourseStep == Course /\ [Next]_vars => Course'
<1> SUFFICES ASSUME Course, [Next]_vars PROVE Course'
  OBVIOUS
<1>1. Types /\ Known /\ Walked
  BY DEF Course
<1>2. CASE Next
  BY <1>1, <1>2, TypesStep, KnownProcess, KnownSample, WalkedProcess, WalkedSample DEF Next, Course
<1>3. CASE UNCHANGED vars
  <2>1. Live' = Live
    BY <1>3 DEF vars, Live, Interps
  <2>2. Known'
    BY <1>1, <1>3, <2>1 DEF vars, Known
  <2>3. Walked'
    BY <1>1, <1>3, <2>1 DEF vars, Walked
  <2> QED
    BY <1>1, <2>2, <2>3, TypesStep DEF Course
<1> QED
  BY <1>2, <1>3

--------------------------------------------------------------------------------
(* The change of memory is that of a holder of the GIL. *)

AtThread == {"gil", "memory", "gil_again", "attribute", "emit"}
Asked == {"memory", "gil_again", "attribute", "emit", "refill", "sample_next"}

\* Whoever holds the GIL, or was found to, has held it since the sample began.
Holders ==
  /\ holder \in Address => WithMemory /\ id[holder] \in held
  /\ pc \in AtThread \ {"emit"} => WithMemory
  /\ pc \in Asked /\ WithMemory => (current \in known => id[current] \in held)

\* Who comes to a thread, and goes on from there.
LEMMA ThreadSteps ==
  ASSUME Sample \/ Failed, pc' \in {"gil"} \cup Asked
  PROVE  /\ \/ SampleFirst \/ Emit \/ Refill \/ SampleNext
            \/ ReadHolder \/ ReadHolderFails \/ FindOffset \/ LeaveOut \/ ReadHolderAgain \/ Attribute
         /\ UNCHANGED <<known, held>>
<1>1. \/ SampleFirst \/ Emit \/ Refill \/ SampleNext
      \/ ReadHolder \/ ReadHolderFails \/ FindOffset \/ LeaveOut \/ ReadHolderAgain \/ Attribute
  BY DEF Sample, Begin, ReadInterp, NoThread, ReadInterpFails, NextInterp, SampleFirstFails,
       SampleNextFails, InterruptFirst, Interrupt, InterruptFails, ResumeFirst, Resume,
       ResumeNext, ResumeFails, Failed, vars, SampleReturns, Asked, InterruptNext
<1>2. UNCHANGED <<known, held>>
  BY <1>1 DEF SampleFirst, Emit, Refill, SampleNext, ReadHolder, ReadHolderFails, FindOffset,
       LeaveOut, ReadHolderAgain, Attribute, gil, memory
<1> QED
  BY <1>1, <1>2

\* The threads that have held the GIL are those, whatever the process does ...
LEMMA HoldersProcess == ASSUME Types, Holders, Process PROVE Holders'
<1>1. UNCHANGED <<pc, current>> /\ WithMemory' = WithMemory
  BY ProcessLeaves DEF WithMemory
<1>2. /\ known' \subseteq known
      /\ \A a \in known' : id'[a] = id[a]
  BY ProcessKeeps
<1>3. held \subseteq held' /\ (holder' \in Address => WithMemory /\ id'[holder'] \in held')
  <2>1. CASE UNCHANGED <<holder, held, id>>
    BY <2>1 DEF Holders
  <2>2. ASSUME NEW a \in Address \cup {NULL}, SwitchGIL(a)
        PROVE  held \subseteq held' /\ (holder' \in Address => WithMemory /\ id'[holder'] \in held')
    BY <2>2, NullAssumption DEF SwitchGIL, target
  <2>3. ASSUME NEW i \in 1..Interps, NEW a \in Address, ThreadStarts(a, i)
        PROVE  held \subseteq held' /\ (holder' \in Address => WithMemory /\ id'[holder'] \in held')
    <3>1. UNCHANGED <<holder, held>>
      BY <2>3 DEF ThreadStarts, memory, gil
    <3>2. a \notin Live /\ id' = [id EXCEPT ![a] = threads + 1] /\ id \in [Address -> 0..threads]
      BY <2>3, StartsLists
    <3>3. WithMemory => holder \in Live
      BY <2>3 DEF ThreadStarts, Running
    <3> QED
      BY <3>1, <3>2, <3>3 DEF Holders
  <2> QED
    BY <2>1, <2>2, <2>3 DEF Process, Tick, Allocate, Unlink, ThreadEnds, memory, gil, target
<1> QED
  BY <1>1, <1>2, <1>3 DEF Holders

\* ... and Austin.
LEMMA HoldersSample == ASSUME Types, Holders, Sample \/ Failed PROVE Holders'
<1>1. UNCHANGED <<holder, id>> /\ WithMemory' = WithMemory
  BY SampleLeaves DEF WithMemory
<1>2. holder' \in Address => WithMemory' /\ id'[holder'] \in held'
  BY <1>1, MemorySet, NullAssumption DEF Begin, Holders
<1>3. pc' \in AtThread \ {"emit"} => WithMemory'
  <2> SUFFICES ASSUME pc' \in AtThread \ {"emit"} PROVE WithMemory
    BY <1>1
  <2>1. pc' \in {"gil"} \cup Asked
    BY DEF AtThread, Asked
  <2> QED
    BY <2>1, ThreadSteps
    DEF SampleFirst, Emit, Refill, SampleNext, ReadHolder, ReadHolderFails, FindOffset,
        LeaveOut, ReadHolderAgain, Attribute, SampleReturns, Holders, AtThread
<1>4. ASSUME pc' \in Asked, WithMemory, current' \in known' PROVE id'[current'] \in held'
  <2>1. UNCHANGED <<known, held>> /\ known \subseteq Address
    BY <1>4, ThreadSteps DEF Types, TypeOK
  <2>2. current' = holder \/ (current' = current /\ pc \in Asked)
    BY <1>4, <2>1, ThreadSteps, NullAssumption
    DEF SampleFirst, Emit, Refill, SampleNext, ReadHolder, ReadHolderFails, FindOffset,
        LeaveOut, ReadHolderAgain, Attribute, SampleReturns, Asked, memory
  <2> QED
    BY <1>1, <1>4, <2>1, <2>2 DEF Holders
<1> QED
  BY <1>1, <1>2, <1>3, <1>4 DEF Holders

\* The holders of the GIL are an invariant with the course of the walk.
LEMMA HoldersInvariant == Spec => [](Course /\ Holders)
<1>1. Init => Holders
  BY NullAssumption DEF Init, Holders, AtThread, Asked
<1>2. Holders /\ UNCHANGED vars => Holders'
  BY DEF vars, Holders, WithMemory
<1>3. Course /\ Holders /\ [Next]_vars => Course' /\ Holders'
  BY <1>2, CourseStep, HoldersProcess, HoldersSample DEF Next, Course
<1> QED
  BY <1>1, <1>3, CourseInit, PTL DEF Spec

\* A change of memory is attributed to a thread that has held the GIL since the sample
\* began, unless the memory of the state has been taken by another: for every number of
\* threads, whoever holds it when, whichever end or start, and whichever reads fail.
THEOREM MemoryCorrect == Spec => MemoryOfHolder
<1>1. ASSUME Course, Holders, Next, last' # last, cur \in known PROVE tid \in held
  <2>1. Attribute
    BY <1>1, MemorySet, ProcessLeaves DEF Next
  <2>2. cur = current /\ pc \in {"memory", "attribute"}
    BY <1>1, <2>1 DEF Attribute
  <2>3. id[cur] \in held
    BY <1>1, <2>2 DEF Holders, AtThread, Asked
  <2>4. id[cur] = tid
    BY <1>1, <2>2 DEF Course, Walked, Walking
  <2> QED
    BY <2>3, <2>4
<1>2. Course /\ Holders /\ [Next]_vars => [last' # last /\ cur \in known => tid \in held]_vars
  BY <1>1
<1> QED
  BY <1>2, HoldersInvariant, PTL DEF Spec, MemoryOfHolder

--------------------------------------------------------------------------------
(* No time is attributed to a thread twice: the walk goes from each thread to one     *)
(* that is older, so that those older than it have not been sampled.                  *)

Before == {"idle", "read", "interrupt_first", "interrupt", "interrupt_next", "sample_first"}

Counts ==
  /\ \A t \in 1..MaxThreads : counted[t] <= IF pc \in Before THEN timestamp ELSE timestamp + delta
  /\ pc \in AtThread => \A t \in 1..MaxThreads : t <= tid => counted[t] <= timestamp
  /\ pc \in {"refill", "sample_next"} => \A t \in 1..MaxThreads : t < tid => counted[t] <= timestamp

\* With one interpreter, as long as the walk has met none of the states that have taken
\* the memory of others.
Counted == Interps = 1 /\ strayed # "reused" => Counts

\* All other steps count nothing, and leave a thread or a sample but do not enter one.
LEMMA QuietSteps ==
  ASSUME Sample \/ Failed
  PROVE  \/ Begin \/ NextInterp \/ SampleFirst \/ Emit \/ Refill \/ SampleNext \/ InterruptNext
         \/ /\ UNCHANGED <<counted, timestamp, delta>>
            /\ pc' \in Before => pc \in Before
            /\ pc' \in AtThread \cup {"sample_next"} => pc \in AtThread /\ UNCHANGED tid
            /\ pc' # "refill"
BY DEF Sample, ReadInterp, NoThread, ReadInterpFails, SampleFirstFails,
       SampleNextFails, ReadHolder, ReadHolderFails, FindOffset, LeaveOut, ReadHolderAgain,
       Attribute, InterruptFirst, Interrupt, InterruptFails, ResumeFirst, Resume, ResumeNext,
       ResumeFails, Failed, vars, SampleReturns, AtThread, Before, time, walk, thread

\* A step of a sample keeps what is counted of each thread.
LEMMA CountsSample ==
  ASSUME Course, Interps = 1, Counts, strayed' # "reused", Sample \/ Failed
  PROVE  Counts'
<1>1. UNCHANGED <<id, clock>> /\ MaxThreads' = MaxThreads
  BY SampleLeaves DEF MaxThreads
<1>2. /\ clock \in Nat /\ timestamp \in Nat /\ delta \in Nat /\ timestamp <= clock /\ clock <= MaxClock
      /\ pc # "idle" => timestamp + delta <= clock
      /\ \A t \in 1..MaxThreads : counted[t] \in Nat
      /\ tid \in Nat /\ MaxClock \in Nat /\ MaxThreads \in Nat
  <2>1. MaxClock \in Nat /\ MaxThreads \in Nat /\ Clocks /\ Others /\ Begun /\ Times
    BY TypeParts, SubjectTypes DEF Course, Types
  <2> QED
    BY <2>1 DEF Clocks, Others, Begun, Times
<1>3. CASE Begin
  BY <1>1, <1>3 DEF Begin, Counts, Before, AtThread
<1>4. CASE NextInterp
  <2>1. pc' \in {"idle", "failed"}
    BY <1>4 DEF NextInterp, Course, Types, TypeOK
  <2>2. \A t \in 1..MaxThreads :
          counted'[t] <= IF pc' = "idle" THEN timestamp' ELSE timestamp' + delta'
    BY <1>2, <1>4, <2>1 DEF NextInterp, Counts, Before
  <2> QED
    BY <1>1, <1>4, <2>1, <2>2 DEF Counts, Before, AtThread
<1>5. CASE SampleFirst
  <2>1. pc' \in AtThread /\ pc' \notin Before \cup {"refill", "sample_next"}
        /\ UNCHANGED <<counted, timestamp, delta>>
    BY <1>5 DEF SampleFirst, AtThread, Before, time
  <2>2. \A t \in 1..MaxThreads : counted[t] <= timestamp
    BY <1>5 DEF SampleFirst, Counts, Before
  <2> QED
    BY <1>1, <1>2, <2>1, <2>2 DEF Counts
<1>6. CASE Emit
  <2>1. /\ pc = "emit" /\ pc' \in {"refill", "sample_next"} /\ UNCHANGED <<tid, timestamp, delta>>
        /\ \A t \in 1..MaxThreads : counted[t] <= timestamp + delta /\ (t <= tid => counted[t] <= timestamp)
    BY <1>6 DEF Emit, walk, thread, Counts, AtThread, Before
  <2>2. ASSUME NEW t \in 1..MaxThreads
        PROVE  /\ counted'[t] <= timestamp + delta
               /\ t < tid => counted'[t] <= timestamp
    <3>1. counted \in [1..MaxThreads -> 0..(MaxClock + 1)]
      BY DEF Course, Types, TypeOK
    <3>2. CASE t # tid
      <4>1. counted'[t] = counted[t]
        BY <1>6, <3>1, <3>2 DEF Emit
      <4> QED
        BY <1>2, <2>1, <4>1
    <3>3. CASE t = tid
      <4>1. counted[t] \in Nat /\ counted[t] <= timestamp /\ timestamp + delta <= MaxClock
        BY <1>2, <2>1, <3>3
      <4>2. ~(counted[t] + delta > MaxClock)
        BY <1>2, <4>1
      <4>3. counted'[t] = counted[t] \/ counted'[t] = counted[t] + delta
        BY <1>6, <3>1, <3>3, <4>2 DEF Emit
      <4> QED
        BY <1>2, <3>3, <4>1, <4>3
    <3> QED
      BY <3>2, <3>3
  <2> QED
    BY <1>1, <2>1, <2>2 DEF Counts, Before, AtThread
<1>7. CASE Refill \/ SampleNext
  <2>1. UNCHANGED <<counted, timestamp, delta>> /\ pc \in {"refill", "sample_next"}
    BY <1>7 DEF Refill, SampleNext, time
  <2>2. /\ \A t \in 1..MaxThreads : counted[t] <= timestamp + delta
        /\ \A t \in 1..MaxThreads : t < tid => counted[t] <= timestamp
    BY <2>1 DEF Counts, Before
  <2>3. CASE SampleNext /\ next = NULL
    BY <1>1, <2>1, <2>2, <2>3 DEF SampleNext, SampleReturns, Counts, Before, AtThread
  <2>4. CASE SampleNext /\ next # NULL
    <3>1. PICK t : t = next
      OBVIOUS
    <3>2. FillOK(t) /\ pc' \in {"memory", "emit"}
      BY <2>4, <3>1 DEF SampleNext, FillOK
    <3>3. tid' < tid
      <4>1. tid' = id[next] /\ next \in known /\ strayed # "reused"
        BY <3>1, <3>2, FillOKReads DEF Course
      <4> QED
        BY <2>1, <4>1 DEF Course, Walked, Walking
    <3>4. tid' \in Nat
      <4>1. Begun' /\ MaxThreads' \in Nat
        BY <1>1, <1>2, BegunStep DEF Next, Course
      <4> QED
        BY <4>1 DEF Begun
    <3>5. \A t1 \in 1..MaxThreads : t1 <= tid' => counted[t1] <= timestamp
      BY <1>2, <2>2, <3>3, <3>4
    <3> QED
      BY <1>1, <2>1, <2>2, <3>2, <3>5 DEF Counts, Before, AtThread
  <2>5. CASE Refill
    <3>1. PICK t : t = cur
      OBVIOUS
    <3>2. FillOK(t) /\ pc' = "sample_next"
      BY <2>5, <3>1 DEF Refill, FillOK
    <3>3. tid' = tid
      <4>1. tid' = id[cur] /\ cur \in known /\ strayed # "reused"
        BY <3>1, <3>2, FillOKReads DEF Course
      <4> QED
        BY <2>1, <4>1 DEF Course, Walked, Walking
    <3> QED
      BY <1>1, <2>1, <2>2, <3>2, <3>3 DEF Counts, Before, AtThread
  <2> QED
    BY <1>7, <2>3, <2>4, <2>5
<1>8. CASE InterruptNext
  BY <1>1, <1>8 DEF InterruptNext, Counts, Before, AtThread
<1>9. CASE /\ UNCHANGED <<counted, timestamp, delta>>
           /\ pc' \in Before => pc \in Before
           /\ pc' \in AtThread \cup {"sample_next"} => pc \in AtThread /\ UNCHANGED tid
           /\ pc' # "refill"
  <2>1. \A t \in 1..MaxThreads : counted'[t] <= IF pc' \in Before THEN timestamp' ELSE timestamp' + delta'
    BY <1>2, <1>9 DEF Counts
  <2>2. pc' \in AtThread \cup {"sample_next"} =>
          \A t \in 1..MaxThreads : t <= tid' => counted'[t] <= timestamp'
    BY <1>9 DEF Counts
  <2>3. tid' \in Nat
    <3>1. Begun' /\ MaxThreads' \in Nat
      BY <1>1, <1>2, BegunStep DEF Next, Course
    <3> QED
      BY <3>1 DEF Begun
  <2> QED
    BY <1>1, <1>2, <1>9, <2>1, <2>2, <2>3 DEF Counts
<1> QED
  BY <1>3, <1>4, <1>5, <1>6, <1>7, <1>8, <1>9, QuietSteps

\* With one interpreter no time is attributed to a thread twice: for every number of
\* threads, whichever start and end while others are sampled and whatever fails, also
\* if states are read that have been freed; but for those that have been taken by others.
THEOREM TimeCorrect == Spec => []NoTimeCountedTwice
<1> DEFINE Inv == Course /\ Counted
<1>1. Init => Inv
  <2> SUFFICES ASSUME Init PROVE Counts
    BY CourseInit DEF Counted
  <2>1. MaxThreads \in Nat
    BY SubjectTypes DEF Init
  <2> QED
    BY <2>1 DEF Init, Counts, Before, AtThread
<1>2. Inv /\ [Next]_vars => Inv'
  <2> SUFFICES ASSUME Inv, [Next]_vars, Interps' = 1, strayed' # "reused" PROVE Counts'
    BY CourseStep DEF Counted
  <2>1. Interps' = Interps /\ MaxThreads' = MaxThreads
    BY ProcessLeaves, SampleLeaves DEF Next, vars, Interps, MaxThreads
  <2>2. strayed # "reused"
    <3>1. CASE UNCHANGED vars \/ Process
      BY <3>1, ProcessLeaves DEF vars
    <3>2. CASE Sample \/ Failed
      <4>1. UNCHANGED thread \/ \E t : FillOK(t)
        BY <3>2, WalkSet DEF Begin, ReadInterp, NextInterp
      <4> QED
        BY <4>1, FillOKReads DEF thread, Course
    <3> QED
      BY <3>1, <3>2 DEF Next
  <2>3. Counts
    BY <2>1, <2>2 DEF Counted
  <2>4. CASE UNCHANGED vars \/ Process
    BY <2>1, <2>3, <2>4, ProcessLeaves DEF vars, Counts
  <2>5. CASE Sample \/ Failed
    BY <2>1, <2>3, <2>5, CountsSample
  <2> QED
    BY <2>4, <2>5 DEF Next
<1>3. Inv => NoTimeCountedTwice
  <2> SUFFICES ASSUME Inv, Interps = 1, strayed # "reused", NEW t \in 1..MaxThreads
      PROVE  counted[t] <= clock
    BY DEF NoTimeCountedTwice
  <2>1. MaxClock \in Nat /\ Clocks /\ Others
    BY TypeParts, SubjectTypes DEF Course, Types
  <2>2. timestamp \in Nat /\ delta \in Nat /\ clock \in Nat /\ counted[t] \in Nat
    BY <2>1 DEF Clocks, Others
  <2> QED
    BY <2>2 DEF Course, Types, Times, Counted, Counts, Before
<1> QED
  BY <1>1, <1>2, <1>3, PTL DEF Spec

--------------------------------------------------------------------------------
(* No thread is left stopped.  A thread that is stopped and still has a state was     *)
(* known when the walk began, is no younger than head, and cannot unlink its state;   *)
(* so it is reached from there again when they are resumed.                           *)

Stopping == {"interrupt_first", "interrupt", "interrupt_next"}
Resuming == {"resume_first", "resume", "resume_next"}
Sampling == {"gil", "sample_first"} \cup Asked

Stops ==
  /\ flagged = stopped /\ (~Native => stopped = {})
  /\ pc \in Stopping \cup Resuming => Native
  /\ strayed = "no" /\ pc # "failed" =>
       /\ pc \in {"idle", "read", "interrupt_first", "sampled"} => LeftStopped = {}
       /\ LeftStopped \subseteq known
       /\ pc = "resume" => \A a \in LeftStopped : id[a] <= tid
       /\ pc = "resume_next" => \A a \in LeftStopped : id[a] < tid

\* Austin does not get back on course.
LEMMA StaysStrayed ==
  ASSUME Types, Sample \/ Failed, strayed' = "no"
  PROVE  strayed = "no"
<1>1. UNCHANGED thread \/ \E t : FillOK(t)
  BY WalkSet DEF Begin, ReadInterp, NextInterp
<1> QED
  BY <1>1, FillOKReads DEF thread

\* A stopped thread keeps its state, and the process stops none.
LEMMA StopsProcess == ASSUME Course, Stops, Process PROVE Stops'
<1>1. UNCHANGED <<subject, pc, tid, strayed, stopped, flagged>> /\ Native' = Native
  BY ProcessLeaves DEF Native
<1>2. /\ known \ known' \subseteq Live' \ Live
      /\ \A a \in Live' \cap Live : id'[a] = id[a]
      /\ \A a \in Live' \ Live : id'[a] = threads + 1
      /\ threads \in Nat
  BY ProcessKeeps DEF Course
<1>3. stopped \subseteq 1..threads
  BY DEF Course, Types, TypeOK
<1>4. ASSUME NEW a \in LeftStopped'
      PROVE  a \in LeftStopped /\ id'[a] = id[a] /\ (a \in known => a \in known')
  <2>1. a \in Live' /\ id'[a] \in stopped
    BY <1>1, <1>4 DEF LeftStopped
  <2>2. a \in Live
    <3>1. threads + 1 \notin stopped
      BY <1>2, <1>3
    <3> QED
      BY <1>2, <2>1, <3>1
  <2> QED
    BY <1>2, <2>1, <2>2 DEF LeftStopped
<1> QED
  BY <1>1, <1>4 DEF Stops

\* What the steps of a sample that neither stop nor resume a thread do to the walk.
LEMMA RestSteps ==
  ASSUME Sample \/ Failed
  PROVE  \/ Begin \/ ReadInterp \/ NextInterp
         \/ InterruptFirst \/ Interrupt \/ InterruptNext \/ ResumeFirst \/ Resume \/ ResumeNext
         \/ pc' = "failed"
         \/ pc = "read" /\ pc' = "idle"
         \/ /\ pc \in Sampling
            /\ pc' \in Sampling \cup {"resume_first", "sampled"}
            /\ pc' = "resume_first" => Native
            /\ pc' = "sampled" => ~Native
BY DEF Sample, NoThread, ReadInterpFails, SampleFirst, SampleFirstFails, Emit, Refill, SampleNext,
       SampleNextFails, ReadHolder, ReadHolderFails, FindOffset, LeaveOut, ReadHolderAgain,
       Attribute, InterruptFails, ResumeFails, Failed, vars, SampleReturns, Asked, Sampling

\* The threads are stopped and resumed as the list is walked.
LEMMA StopsSample == ASSUME Course, Stops, Sample \/ Failed PROVE Stops'
<1>1. UNCHANGED <<subject, id, linked>> /\ Native' = Native /\ Live' = Live
  BY SampleLeaves DEF Native, Live, Interps
<1>2. strayed' = "no" => strayed = "no"
  BY StaysStrayed DEF Course
<1>3. ASSUME UNCHANGED stopped PROVE LeftStopped' = LeftStopped
  BY <1>1, <1>3 DEF LeftStopped
<1>4. LeftStopped \subseteq Live /\ \A a \in LeftStopped : id[a] \in Nat
  <2>1. \A a \in Live : a \in Address
    BY DEF Live, Course, Types, TypeOK
  <2>2. id \in [Address -> 0..threads] /\ threads \in 0..MaxThreads /\ MaxThreads \in Nat
    BY SubjectTypes DEF Course, Types, TypeOK
  <2> QED
    BY <2>1, <2>2 DEF LeftStopped
<1>5. ~Native => LeftStopped = {}
  BY DEF Stops, LeftStopped
<1>6. CASE Begin \/ ReadInterp \/ NextInterp
  <2>1. UNCHANGED <<stopped, flagged>>
    BY <1>6 DEF Begin, ReadInterp, NextInterp, ptraced
  <2>2. strayed = "no" => LeftStopped = {}
    BY <1>6 DEF Begin, ReadInterp, NextInterp, Stops
  <2>3. pc' \notin {"interrupt", "interrupt_next"} \cup Resuming
        /\ (pc' = "interrupt_first" => Native)
    BY <1>6 DEF Begin, ReadInterp, NextInterp, Resuming
  <2> QED
    BY <1>1, <1>2, <1>3, <2>1, <2>2, <2>3 DEF Stops, Stopping, Resuming
<1>7. CASE Interrupt
  <2>1. /\ pc = "interrupt" /\ pc' = "interrupt_next" /\ stopped' = stopped \cup {tid}
        /\ flagged' = flagged \cup {tid} /\ UNCHANGED <<known, strayed>>
    BY <1>7 DEF Interrupt, walk, thread
  <2>2. strayed = "no" => \A a \in Live : id[a] = tid => a \in known
    BY <2>1 DEF Course, Walked, Walking
  <2>3. strayed = "no" => LeftStopped' \subseteq known
    BY <1>1, <2>1, <2>2 DEF LeftStopped, Stops
  <2> QED
    BY <1>1, <2>1, <2>3 DEF Stops, Stopping
<1>8. CASE Resume
  <2>1. /\ pc = "resume" /\ pc' = "resume_next" /\ stopped' = stopped \ {tid}
        /\ flagged' = flagged \ {tid} /\ UNCHANGED <<known, strayed, tid>>
    BY <1>8 DEF Resume, walk, thread, Stops
  <2>2. \A a \in LeftStopped' : a \in LeftStopped /\ id[a] # tid
    BY <1>1, <2>1 DEF LeftStopped
  <2>3. tid \in Nat
    BY SubjectTypes DEF Course, Types, TypeOK
  <2>4. strayed = "no" => \A a \in LeftStopped' : id[a] < tid
    BY <1>4, <2>1, <2>2, <2>3 DEF Stops
  <2> QED
    BY <1>1, <2>1, <2>2, <2>4 DEF Stops, Resuming
<1>9. CASE InterruptFirst \/ InterruptNext
  <2>1. /\ UNCHANGED <<stopped, flagged, known>> /\ Native
        /\ pc \in Stopping /\ pc' \in {"interrupt", "sample_first"}
    BY <1>9 DEF InterruptFirst, InterruptNext, ptraced, Stops, Stopping
  <2> QED
    BY <1>1, <1>2, <1>3, <2>1 DEF Stops, Stopping, Resuming
<1>10. CASE ResumeFirst
  <2>1. /\ UNCHANGED <<stopped, flagged, known>> /\ Native
        /\ pc = "resume_first" /\ pc' = "resume"
    BY <1>10 DEF ResumeFirst, ptraced, Stops, Resuming
  <2>2. PICK t : t = head
    OBVIOUS
  <2>3. FillOK(t)
    BY <1>10, <2>2 DEF ResumeFirst, FillOK
  <2>4. strayed' = "no" => strayed = "no" /\ head \in known /\ tid' = id[head]
    BY <2>2, <2>3, FillOKReads DEF Course
  <2>5. strayed' = "no" => \A a \in LeftStopped : id[a] <= tid'
    BY <2>1, <2>4 DEF Stops, Course, Known
  <2> QED
    BY <1>1, <1>2, <1>3, <2>1, <2>5 DEF Stops, Resuming
<1>11. CASE ResumeNext
  <2>1. /\ UNCHANGED <<stopped, flagged, known>> /\ Native /\ pc = "resume_next"
        /\ pc' = IF next = NULL THEN "sampled" ELSE "resume"
    BY <1>11 DEF ResumeNext, ptraced, Stops, Resuming
  <2>2. strayed = "no" =>
          \A a \in LeftStopped : next # NULL /\ (next \in known => id[a] <= id[next])
    BY <1>4, <2>1 DEF Stops, Course, Walked, Walking
  <2>3. CASE next = NULL
    <3>1. strayed = "no" => LeftStopped = {}
      BY <2>2, <2>3
    <3> QED
      BY <1>1, <1>2, <1>3, <2>1, <2>3, <3>1 DEF Stops, Stopping, Resuming
  <2>4. CASE next # NULL
    <3>1. PICK t : t = next
      OBVIOUS
    <3>2. FillOK(t)
      BY <1>11, <2>4, <3>1 DEF ResumeNext, FillOK
    <3>3. strayed' = "no" => strayed = "no" /\ next \in known /\ tid' = id[next]
      BY <3>1, <3>2, FillOKReads DEF Course
    <3>4. strayed' = "no" => \A a \in LeftStopped : id[a] <= tid'
      BY <2>2, <3>3
    <3> QED
      BY <1>1, <1>2, <1>3, <2>1, <2>4, <3>4 DEF Stops, Resuming
  <2> QED
    BY <2>3, <2>4
<1>12. CASE /\ ~(Begin \/ ReadInterp \/ NextInterp \/ Interrupt \/ Resume)
            /\ \/ pc' = "failed"
               \/ pc = "read" /\ pc' = "idle"
               \/ /\ pc \in Sampling
                  /\ pc' \in Sampling \cup {"resume_first", "sampled"}
                  /\ pc' = "resume_first" => Native
                  /\ pc' = "sampled" => ~Native
  <2>1. UNCHANGED <<known, stopped, flagged>>
    BY <1>12, WalkSet, OthersSet
  <2>2. pc' \notin {"interrupt_first", "interrupt", "interrupt_next", "resume", "resume_next"}
    BY <1>12 DEF Sampling, Asked
  <2> QED
    BY <1>1, <1>2, <1>3, <1>5, <1>12, <2>1, <2>2 DEF Stops, Stopping, Resuming, Sampling, Asked
<1> QED
  BY <1>6, <1>7, <1>8, <1>9, <1>10, <1>11, <1>12, RestSteps

\* Which threads are stopped is an invariant with the course of the walk.
LEMMA StopsInvariant == Spec => [](Course /\ Stops)
<1>1. Init => Stops
  <2> SUFFICES ASSUME Init PROVE Stops
    OBVIOUS
  <2>1. LeftStopped = {} /\ stopped = {} /\ flagged = {} /\ pc = "idle"
    BY DEF Init, LeftStopped
  <2> QED
    BY <2>1 DEF Stops, Stopping, Resuming
<1>2. Course /\ Stops /\ [Next]_vars => Course' /\ Stops'
  <2> SUFFICES ASSUME Course, Stops, [Next]_vars PROVE Stops'
    BY CourseStep
  <2>1. CASE UNCHANGED vars
    <3>1. Native' = Native /\ LeftStopped' = LeftStopped
      BY <2>1 DEF vars, Native, LeftStopped, Live, Interps
    <3> QED
      BY <2>1, <3>1 DEF vars, Stops
  <2>2. CASE Next
    BY <2>2, StopsProcess, StopsSample DEF Next
  <2> QED
    BY <2>1, <2>2
<1> QED
  BY <1>1, <1>2, CourseInit, PTL DEF Spec

\* Threads that Austin has stopped and that have a state run again after every sample,
\* but for failures to stop or to resume one: for every number of threads and interpreters,
\* whichever threads start, end or cannot be read meanwhile, as long as Austin follows no
\* pointer to a state that has been freed.
THEOREM StoppedCorrect == Spec => NoneLeftStopped
<1>1. ASSUME Sample \/ Failed, pc # "failed", pc' = "failed"
      PROVE  /\ pc \in {"read", "sampled", "interrupt_first", "interrupt", "interrupt_next",
                        "resume_first", "resume", "resume_next"}
             /\ UNCHANGED <<id, linked, subject, stopped>>
  <2>1. ~Interrupt /\ ~Resume
    BY <1>1 DEF Interrupt, Resume
  <2>2. UNCHANGED <<id, linked, subject, stopped>>
    BY <1>1, <2>1, SampleLeaves, OthersSet
  <2> QED
    BY <1>1, <2>2 DEF Sample, Begin, ReadInterp, NoThread, ReadInterpFails, NextInterp, SampleFirst,
       SampleFirstFails, Emit, Refill, SampleNext, SampleNextFails, ReadHolder, ReadHolderFails,
       FindOffset, LeaveOut, ReadHolderAgain, Attribute, InterruptFirst, Interrupt,
       InterruptNext, InterruptFails, ResumeFirst, Resume, ResumeNext, ResumeFails, Failed,
       SampleReturns
<1>2. ASSUME Course, Stops, [Next]_vars, pc # "failed", pc' = "failed", LeftStopped' # {},
             strayed' = "no"
      PROVE  pc \in {"interrupt_first", "interrupt", "interrupt_next",
                     "resume_first", "resume", "resume_next"}
  <2>1. Sample \/ Failed
    BY <1>2, ProcessLeaves DEF Next, vars
  <2>2. LeftStopped' = LeftStopped
    BY <1>1, <1>2, <2>1 DEF LeftStopped, Live, Interps
  <2>3. strayed = "no"
    BY <1>2, <2>1, StaysStrayed DEF Course
  <2> QED
    BY <1>1, <1>2, <2>1, <2>2, <2>3 DEF Stops
<1>3. ASSUME Stops', strayed' = "no", pc' = "idle" PROVE LeftStopped' = {}
  BY <1>3 DEF Stops
<1>4. Course /\ Stops /\ Course' /\ Stops' /\ [Next]_vars =>
        [strayed' = "no" =>
           /\ pc' = "idle" => LeftStopped' = {}
           /\ pc # "failed" /\ pc' = "failed" /\ LeftStopped' # {} =>
                pc \in {"interrupt_first", "interrupt", "interrupt_next",
                        "resume_first", "resume", "resume_next"}]_vars
  BY <1>2, <1>3
<1> QED
  BY <1>4, StopsInvariant, PTL DEF Spec, NoneLeftStopped

--------------------------------------------------------------------------------
(* All the time is attributed to every thread.  If nothing disturbs a sample, the     *)
(* lists stay as they are, and the walk goes from each state to the next, and from    *)
(* the last one to the next interpreter.                                              *)

Even == {"idle", "read", "sample_first", "gil", "memory", "emit", "sample_next", "sampled"}

\* The states of an interpreter that have been sampled: those that are younger than the
\* one being sampled, or about to be.
Done(a) ==
  \/ pc \in AtThread /\ id[a] > tid
  \/ pc = "sample_next" /\ id[a] >= tid
  \/ pc = "sampled"

Accounted ==
  /\ pc \in Even /\ result = "success"
  /\ pc = "sample_first" => head = Youngest(linked[interp])
  /\ pc \in AtThread \cup {"sample_next"} =>
       cur \in linked[interp] /\ tid = id[cur] /\ next = Successor(interp, cur)
  /\ \A i \in 1..Interps : \A a \in linked[i] :
       counted[id[a]] = IF pc # "idle" /\ (i < interp \/ (i = interp /\ Done(a)))
                        THEN timestamp + delta ELSE timestamp

Accounts == faults \in Nat /\ (Undisturbed => Accounted)

\* A step of a sample fails at most once.
LEMMA FaultsSet == ASSUME Sample \/ Failed PROVE faults' = faults \/ faults' = faults + 1
BY DEF Sample, Begin, ReadInterp, NoThread, ReadInterpFails, NextInterp, SampleFirst,
       SampleFirstFails, Emit, Refill, SampleNext, SampleNextFails, ReadHolder, ReadHolderFails,
       FindOffset, LeaveOut, ReadHolderAgain, Attribute, InterruptFirst, Interrupt,
       InterruptNext, InterruptFails, ResumeFirst, Resume, ResumeNext, ResumeFails, Failed, vars,
       FillOK, FillFails, Fault

\* Without a failure, the steps of a sample that nothing disturbs are few.
LEMMA UndisturbedSteps ==
  ASSUME Sample \/ Failed, Undisturbed, interp \in 1..Interps, faults' = faults, pc \in Even
  PROVE  \/ Begin \/ ReadInterp \/ NextInterp \/ SampleFirst \/ Emit \/ SampleNext
         \/ ReadHolder \/ (pc = "memory" /\ Attribute)
         \/ pc = "sample_first" /\ head \notin Live
         \/ pc = "sample_next" /\ next # NULL /\ next \notin Live
<1>1. faults' # faults + 1
  BY DEF Undisturbed
<1>2. ~NoThread /\ ~ReadInterpFails /\ ~ReadHolderFails
  BY <1>1 DEF NoThread, ReadInterpFails, ReadHolderFails, Fault, Undisturbed
<1>3. ~FindOffset /\ ~LeaveOut
  BY DEF FindOffset, LeaveOut, Searching, Undisturbed
<1>4. /\ ~ReadHolderAgain /\ ~InterruptFirst /\ ~Interrupt /\ ~InterruptNext /\ ~InterruptFails
      /\ ~ResumeFirst /\ ~Resume /\ ~ResumeNext /\ ~ResumeFails /\ ~Failed /\ ~Refill
  BY DEF ReadHolderAgain, InterruptFirst, Interrupt, InterruptNext, InterruptFails,
         ResumeFirst, Resume, ResumeNext, ResumeFails, Failed, Refill, Even
<1>5. SampleFirstFails => pc = "sample_first" /\ head \notin Live
  BY <1>1 DEF SampleFirstFails, FillFails, Fault
<1>6. SampleNextFails => pc = "sample_next" /\ next # NULL /\ next \notin Live
  BY <1>1 DEF SampleNextFails, FillFails, Fault, Even
<1>7. Attribute => pc = "memory"
  BY DEF Attribute, Even
<1>8. \/ Begin \/ ReadInterp \/ NextInterp \/ SampleFirst \/ Emit \/ SampleNext
      \/ ReadHolder \/ Attribute \/ SampleFirstFails \/ SampleNextFails
  BY <1>2, <1>3, <1>4 DEF Sample
<1> QED
  BY <1>5, <1>6, <1>7, <1>8

\* The process adds nothing to what is counted, nor takes a thread away.
LEMMA AccountsProcess == ASSUME Types, Accounts, Process PROVE Accounts'
<1>1. /\ UNCHANGED <<subject, pc, interp, head, cur, tid, next, result, timestamp, delta>>
      /\ UNCHANGED <<counted, faults>>
  BY ProcessLeaves
<1>2. Interps' = Interps /\ Native' = Native /\ Churn' = Churn
  BY <1>1 DEF Interps, Native, Churn
<1>3. CASE Churn
  BY <1>1, <1>2, <1>3 DEF Accounts, Undisturbed
<1>4. CASE ~Churn
  <2>1. UNCHANGED <<linked, id>>
    BY <1>4 DEF Process, Tick, Allocate, SwitchGIL, ThreadStarts, Unlink, ThreadEnds, target
  <2>2. Undisturbed' => Undisturbed
    BY <1>1, <1>2, <2>1 DEF Undisturbed
  <2>3. Accounted => Accounted'
    BY <1>1, <1>2, <2>1 DEF Accounted, Done, Youngest, Successor
  <2> QED
    BY <1>1, <2>2, <2>3 DEF Accounts
<1> QED
  BY <1>3, <1>4

\* A sample counts the threads one after the other.
LEMMA AccountsSample == ASSUME Types, Accounts, Sample \/ Failed PROVE Accounts'
<1> DEFINE list == linked[interp]
<1>1. UNCHANGED <<subject, clock, linked, id>>
  BY SampleLeaves
<1>2. Interps' = Interps /\ Native' = Native /\ Churn' = Churn
  BY <1>1 DEF Interps, Native, Churn
<1>3. faults' = faults \/ faults' = faults + 1
  BY FaultsSet
<1>4. faults \in Nat /\ faults' \in Nat
  BY <1>3 DEF Accounts
<1>5. SUFFICES ASSUME Undisturbed' PROVE Accounted'
  BY <1>4 DEF Accounts
<1>6. Undisturbed /\ faults' = faults
  BY <1>1, <1>2, <1>3, <1>4, <1>5 DEF Undisturbed
<1>7. /\ pc \in Even /\ result = "success"
      /\ pc = "sample_first" => head = Youngest(list)
      /\ pc \in AtThread \cup {"sample_next"} =>
           cur \in list /\ tid = id[cur] /\ next = Successor(interp, cur)
      /\ \A i \in 1..Interps : \A a \in linked[i] :
           counted[id[a]] = IF pc # "idle" /\ (i < interp \/ (i = interp /\ Done(a)))
                            THEN timestamp + delta ELSE timestamp
  BY <1>6 DEF Accounts, Accounted
<1>8. /\ Interps \in Nat \ {0} /\ interp \in 1..Interps /\ threads \in Nat /\ threads <= MaxThreads
      /\ timestamp \in Nat /\ delta \in Nat /\ clock \in Nat /\ tid \in Nat
      /\ MaxClock \in Nat /\ clock <= MaxClock /\ MaxThreads \in Nat
      /\ id \in [Address -> 0..threads]
      /\ counted \in [1..MaxThreads -> 0..(MaxClock + 1)]
  <2>1. MaxClock \in Nat /\ MaxThreads \in Nat /\ Interps \in Nat \ {0}
        /\ Clocks /\ Begun /\ Walk /\ Others
    BY TypeParts, SubjectTypes DEF Types
  <2> QED
    BY <2>1 DEF Clocks, Begun, Walk, Others
<1>9. /\ \A i \in 1..Interps : \A a \in linked[i] :
           a \in Address /\ a \in Live /\ id[a] \in 1..MaxThreads /\ id[a] \in 0..threads
      /\ \A i, j \in 1..Interps : \A a \in linked[i], b \in linked[j] :
           id[a] = id[b] => a = b /\ i = j
  <2>1. Lists
    BY TypeParts DEF Types
  <2>2. \A i \in 1..Interps : linked[i] \subseteq Live /\ linked[i] \subseteq Address
    BY <2>1 DEF Lists, Live
  <2>3. \A a \in Live : id[a] # 0
    BY <2>1 DEF Lists
  <2>4. \A i \in 1..Interps : \A a \in linked[i] : id[a] \in 0..threads /\ id[a] \in 1..MaxThreads
    BY <1>8, <2>2, <2>3
  <2>5. \A i, j \in 1..Interps : \A a \in linked[i], b \in linked[j] :
           id[a] = id[b] => a = b /\ i = j
    BY <2>1, <2>2 DEF Lists
  <2> QED
    BY <2>2, <2>4, <2>5
<1>10. list # {} /\ list \in SUBSET Address /\ Youngest(list) \in list
       /\ \A b \in list : id[b] <= id[Youngest(list)]
  <2>1. list # {} /\ list \in SUBSET Address
    BY <1>6, <1>8, <1>9 DEF Undisturbed
  <2> HIDE DEF list
  <2> QED
    BY <1>8, <2>1, YoungestIn
<1>11. CASE Begin
  <2>1. pc = "idle" /\ pc' = "read" /\ interp' = 1 /\ UNCHANGED <<result, timestamp, counted>>
    BY <1>11 DEF Begin
  <2>2. \A a : ~Done(a)'
    BY <2>1 DEF Done, AtThread
  <2>3. \A i \in 1..Interps : \A a \in linked[i] : counted[id[a]] = timestamp
    BY <1>7, <2>1
  <2>4. \A i \in 1..Interps : \A a \in linked[i] :
          counted'[id'[a]] = IF pc' # "idle" /\ (i < interp' \/ (i = interp' /\ Done(a)'))
                             THEN timestamp' + delta' ELSE timestamp'
    BY <1>1, <1>8, <2>1, <2>2, <2>3
  <2> QED
    BY <1>1, <1>2, <1>7, <2>1, <2>4 DEF Accounted, Done, Even, AtThread
<1>12. CASE ReadInterp
  <2>1. /\ pc = "read" /\ pc' = "sample_first" /\ head' = Youngest(list)
        /\ UNCHANGED <<interp, result, timestamp, delta, counted>>
    BY <1>6, <1>12 DEF ReadInterp, Undisturbed, time, list
  <2>2. \A a : ~Done(a) /\ ~Done(a)'
    BY <2>1 DEF Done, AtThread
  <2>3. head' = Youngest(linked[interp])'
    BY <1>1, <2>1 DEF Youngest
  <2>4. \A i \in 1..Interps : \A a \in linked[i] :
          counted'[id'[a]] = IF pc' # "idle" /\ (i < interp' \/ (i = interp' /\ Done(a)'))
                             THEN timestamp' + delta' ELSE timestamp'
    BY <1>1, <1>7, <2>1, <2>2
  <2> QED
    BY <1>1, <1>2, <1>7, <2>1, <2>3, <2>4 DEF Accounted, Done, Even, AtThread
<1>13. ASSUME NEW t, FillOK(t), t \in list
       PROVE  /\ cur' = t /\ tid' = id[t] /\ next' = Successor(interp, t)
  BY <1>8, <1>13, FillOKReads
<1>14. ASSUME UNCHANGED <<interp, result, timestamp, delta, counted>>, pc' \in AtThread, pc # "idle",
              pc' \in Even,
              NEW t, FillOK(t), t \in list, \A a \in list : Done(a) <=> id[a] > id[t]
       PROVE  Accounted'
  <2>1. cur' = t /\ tid' = id[t] /\ next' = Successor(interp, t)
    BY <1>13, <1>14
  <2>2. next' = Successor(interp, cur)'
    BY <1>1, <1>14, <2>1 DEF Successor, Youngest
  <2>3. \A a \in list : Done(a)' <=> Done(a)
    BY <1>1, <1>14, <2>1 DEF Done, AtThread
  <2>4. \A i \in 1..Interps : \A a \in linked[i] :
          counted'[id'[a]] = IF pc' # "idle" /\ (i < interp' \/ (i = interp' /\ Done(a)'))
                             THEN timestamp' + delta' ELSE timestamp'
    BY <1>1, <1>7, <1>14, <2>3 DEF AtThread
  <2> QED
    BY <1>1, <1>2, <1>7, <1>14, <2>1, <2>2, <2>4 DEF Accounted, AtThread
<1>15. CASE SampleFirst
  <2>1. /\ pc = "sample_first" /\ pc' \in {"gil", "emit"}
        /\ UNCHANGED <<interp, result, timestamp, delta, counted>>
    BY <1>15 DEF SampleFirst, time
  <2>2. PICK t : t = head
    OBVIOUS
  <2>3. FillOK(t) /\ t = Youngest(list)
    BY <1>7, <1>15, <2>1, <2>2 DEF SampleFirst, FillOK
  <2>4. t \in list /\ \A a \in list : ~(id[a] > id[t]) /\ ~Done(a)
    <3>1. \A a \in list : id[a] \in Nat /\ id[a] <= id[t]
      BY <1>8, <1>9, <1>10, <2>3
    <3> QED
      BY <1>10, <2>1, <2>3, <3>1 DEF Done, AtThread
  <2> QED
    BY <1>14, <2>1, <2>3, <2>4 DEF AtThread, Even
<1>16. CASE ReadHolder \/ (pc = "memory" /\ Attribute)
  <2>1. /\ pc \in AtThread /\ pc' \in {"memory", "emit"} /\ pc' \in AtThread /\ pc # "idle"
        /\ UNCHANGED <<interp, cur, tid, next, result, counted, timestamp, delta>>
    BY <1>16 DEF ReadHolder, Attribute, time, walk, thread, AtThread
  <2>2. \A a : Done(a)' <=> Done(a)
    BY <1>1, <2>1 DEF Done, AtThread
  <2>3. Successor(interp, cur)' = Successor(interp, cur)
    BY <1>1, <2>1 DEF Successor, Youngest
  <2>4. \A i \in 1..Interps : \A a \in linked[i] :
          counted'[id'[a]] = IF pc' # "idle" /\ (i < interp' \/ (i = interp' /\ Done(a)'))
                             THEN timestamp' + delta' ELSE timestamp'
    BY <1>1, <1>7, <2>1, <2>2 DEF AtThread
  <2> QED
    BY <1>1, <1>2, <1>7, <2>1, <2>3, <2>4 DEF Accounted, Even, AtThread
<1>17. CASE Emit
  <2>1. /\ pc = "emit" /\ pc' = "sample_next"
        /\ UNCHANGED <<interp, cur, tid, next, result, timestamp, delta>>
    BY <1>6, <1>17 DEF Emit, walk, thread, Undisturbed, Native
  <2>2. cur \in list /\ tid = id[cur] /\ next = Successor(interp, cur) /\ tid \in 1..MaxThreads
    BY <1>7, <1>8, <1>9, <2>1 DEF AtThread
  <2>3. \A a : (Done(a) <=> id[a] > tid) /\ (Done(a)' <=> id[a] >= tid)
    BY <1>1, <2>1 DEF Done, AtThread
  <2>4. counted[tid] = timestamp
    <3>1. ~Done(cur)
      BY <1>8, <2>2, <2>3
    <3> QED
      BY <1>7, <1>8, <2>2, <3>1
  <2>5. counted'[tid] = timestamp + delta
    <3>1. timestamp + delta <= MaxClock
      BY <1>8, <2>1 DEF Types, Times
    <3>2. ~(timestamp + delta > MaxClock)
      BY <1>8, <3>1
    <3>3. \/ counted' = [counted EXCEPT ![tid] = IF counted[tid] + delta > MaxClock
                                                 THEN MaxClock + 1 ELSE counted[tid] + delta]
          \/ counted' = counted /\ delta = 0
      BY <1>6, <1>17 DEF Emit, Undisturbed
    <3> QED
      BY <1>8, <2>2, <2>4, <3>2, <3>3
  <2>6. \A t \in 1..MaxThreads : t # tid => counted'[t] = counted[t]
    BY <1>8, <1>17 DEF Emit
  <2>7. ASSUME NEW i \in 1..Interps, NEW a \in linked[i]
        PROVE  counted'[id[a]] = IF i < interp \/ (i = interp /\ id[a] >= tid)
                                 THEN timestamp + delta ELSE timestamp
    <3>1. CASE id[a] = tid
      <4>1. i = interp
        BY <1>8, <1>9, <2>2, <3>1
      <4> QED
        BY <1>8, <2>5, <3>1, <4>1
    <3>2. CASE id[a] # tid
      <4>1. counted'[id[a]] = counted[id[a]]
        BY <1>9, <2>6, <3>2
      <4>2. id[a] \in Nat
        BY <1>9
      <4> QED
        BY <1>7, <1>8, <2>1, <2>3, <3>2, <4>1, <4>2
    <3> QED
      BY <3>1, <3>2
  <2>8. Successor(interp, cur)' = Successor(interp, cur)
    BY <1>1, <2>1 DEF Successor, Youngest
  <2>9. \A i \in 1..Interps : \A a \in linked[i] :
          counted'[id'[a]] = IF pc' # "idle" /\ (i < interp' \/ (i = interp' /\ Done(a)'))
                             THEN timestamp' + delta' ELSE timestamp'
    BY <1>1, <2>1, <2>3, <2>7
  <2> QED
    BY <1>1, <1>2, <1>7, <2>1, <2>2, <2>8, <2>9 DEF Accounted, Even, AtThread
<1>18. CASE SampleNext
  <2>1. pc = "sample_next" /\ UNCHANGED <<interp, timestamp, delta, counted>>
    BY <1>18 DEF SampleNext, time
  <2>2. cur \in list /\ tid = id[cur] /\ next = Successor(interp, cur)
    BY <1>7, <2>1
  <2>3. \A a : Done(a) <=> id[a] >= tid
    BY <2>1 DEF Done, AtThread
  <2>4. \/ /\ next = NULL
           /\ \A b \in list : ~(id[b] < tid)
        \/ /\ next \in list /\ next \in Address
           /\ id[next] < tid
           /\ \A b \in list : id[b] < tid => id[b] <= id[next]
    BY <1>8, <1>9, <2>2, SuccessorIn DEF Types
  <2>5. \A a \in list : id[a] \in Nat
    BY <1>8, <1>9
  <2>6. CASE next = NULL
    <3>1. pc' = "sampled" /\ result' = "success"
      BY <1>6, <1>18, <2>6 DEF SampleNext, SampleReturns, Undisturbed
    <3>2. \A a \in list : Done(a) /\ Done(a)'
      <4>1. \A a \in list : id[a] >= tid
        BY <1>8, <2>4, <2>5, <2>6, NullAssumption
      <4> QED
        BY <2>3, <3>1, <4>1 DEF Done
    <3>3. \A i \in 1..Interps : \A a \in linked[i] :
            counted'[id'[a]] = IF pc' # "idle" /\ (i < interp' \/ (i = interp' /\ Done(a)'))
                               THEN timestamp' + delta' ELSE timestamp'
      BY <1>1, <1>7, <2>1, <3>1, <3>2
    <3> QED
      BY <1>1, <1>2, <1>7, <2>1, <3>1, <3>3 DEF Accounted, Even, AtThread
  <2>7. CASE next # NULL
    <3>1. PICK t : t = next
      OBVIOUS
    <3>2. FillOK(t) /\ pc' \in {"memory", "emit"} /\ result' = result
      BY <1>18, <2>7, <3>1 DEF SampleNext, FillOK
    <3>3. t \in list /\ \A a \in list : Done(a) <=> id[a] > id[t]
      BY <1>8, <2>3, <2>4, <2>5, <2>7, <3>1
    <3> QED
      BY <1>14, <2>1, <3>2, <3>3 DEF AtThread, Even
  <2> QED
    BY <2>6, <2>7
<1>19. CASE NextInterp
  <2>1. pc = "sampled" /\ result' = result /\ UNCHANGED <<delta, counted>>
    BY <1>19 DEF NextInterp
  <2>2. \A a : Done(a)
    BY <2>1 DEF Done
  <2>3. CASE interp < Interps
    <3>1. pc' = "read" /\ interp' = interp + 1 /\ timestamp' = timestamp
      BY <1>7, <1>19, <2>3 DEF NextInterp
    <3>2. \A a : ~Done(a)'
      BY <3>1 DEF Done, AtThread
    <3>3. \A i \in 1..Interps : (i < interp' <=> (i < interp \/ i = interp))
      BY <1>8, <3>1
    <3>4. \A i \in 1..Interps : \A a \in linked[i] :
            counted'[id'[a]] = IF pc' # "idle" /\ (i < interp' \/ (i = interp' /\ Done(a)'))
                               THEN timestamp' + delta' ELSE timestamp'
      BY <1>1, <1>7, <2>1, <2>2, <3>1, <3>2, <3>3
    <3> QED
      BY <1>1, <1>2, <1>7, <2>1, <3>1, <3>4 DEF Accounted, Even, AtThread
  <2>4. CASE ~(interp < Interps)
    <3>1. pc' = "idle" /\ timestamp' = timestamp + delta
      BY <1>6, <1>7, <1>19, <2>4 DEF NextInterp, Undisturbed
    <3>2. \A i \in 1..Interps : i < interp \/ i = interp
      BY <1>8, <2>4
    <3>3. \A i \in 1..Interps : \A a \in linked[i] : counted'[id'[a]] = timestamp'
      BY <1>1, <1>7, <2>1, <2>2, <3>1, <3>2
    <3> QED
      BY <1>1, <1>2, <1>7, <2>1, <3>1, <3>3 DEF Accounted, Even, AtThread
  <2> QED
    BY <2>3, <2>4
<1>20. ~(pc = "sample_first" /\ head \notin Live)
  BY <1>7, <1>8, <1>9, <1>10
<1>21. ~(pc = "sample_next" /\ next # NULL /\ next \notin Live)
  BY <1>7, <1>8, <1>9, SuccessorIn DEF Types
<1> QED
  BY <1>6, <1>7, <1>8, <1>11, <1>12, <1>15, <1>16, <1>17, <1>18, <1>19, <1>20, <1>21, UndisturbedSteps

\* Between samples all the time up to the last one has been attributed to each thread,
\* if nothing has disturbed them: for every number of threads and interpreters.
THEOREM AllTimeCorrect == Spec => []AllTimeCounted
<1> DEFINE Inv == Types /\ Accounts
<1>1. Init => Inv
  <2> SUFFICES ASSUME Init PROVE Accounts
    BY InitTypes
  <2>1. Types
    BY InitTypes
  <2>2. \A i \in 1..Interps : \A a \in linked[i] : id[a] \in 1..MaxThreads
    <3>1. /\ \A i \in 1..Interps : linked[i] \subseteq Live /\ linked[i] \subseteq Address
          /\ \A a \in Live : id[a] # 0
      BY <2>1 DEF Types, TypeOK, Live
    <3>2. id \in [Address -> 0..threads] /\ threads \in 0..MaxThreads /\ MaxThreads \in Nat
      BY <2>1, SubjectTypes DEF Types, TypeOK
    <3> QED
      BY <3>1, <3>2
  <2> QED
    BY <2>2 DEF Init, Accounts, Accounted, Even, AtThread
<1>2. Inv /\ [Next]_vars => Inv'
  <2> SUFFICES ASSUME Inv, [Next]_vars PROVE Accounts'
    BY TypesStep
  <2>1. CASE UNCHANGED vars
    <3>1. Interps' = Interps /\ Native' = Native /\ Churn' = Churn
      BY <2>1 DEF vars, Interps, Native, Churn
    <3>2. Accounted' <=> Accounted
      BY <2>1, <3>1 DEF vars, Accounted, Done, Youngest, Successor
    <3>3. Undisturbed' <=> Undisturbed
      BY <2>1, <3>1 DEF vars, Undisturbed
    <3> QED
      BY <2>1, <3>2, <3>3 DEF vars, Accounts
  <2>2. CASE Next
    BY <2>2, AccountsProcess, AccountsSample DEF Next
  <2> QED
    BY <2>1, <2>2
<1>3. Inv => AllTimeCounted
  BY DEF Accounts, Accounted, AllTimeCounted, Live
<1> QED
  BY <1>1, <1>2, <1>3, PTL DEF Spec

--------------------------------------------------------------------------------
(* If the threads are stopped, the one that holds the GIL keeps it.  All that were    *)
(* known and still have a state are stopped one after the other, as the walk leaves   *)
(* none of them out, and they are still when they are sampled.                        *)

Halted ==
  Native /\ strayed = "no" =>
    /\ pc = "interrupt" => \A a \in known \cap Live : id[a] > tid => id[a] \in stopped
    /\ pc = "interrupt_next" => \A a \in known \cap Live : id[a] >= tid => id[a] \in stopped
    /\ pc \in Sampling => known \cap Live \subseteq LeftStopped
    /\ pc \in AtThread \ {"emit"} => cur \in known \cap Live
    /\ pc \in Asked /\ subject.gil = "runtime" => (current \in known \cap Live => current = holder)

\* The process leaves the threads that are stopped, and the GIL with them.
LEMMA HaltedProcess == ASSUME Course, Halted, Process PROVE Halted'
<1>1. UNCHANGED <<subject, pc, cur, tid, strayed, stopped, current>> /\ Native' = Native
  BY ProcessLeaves DEF Native
<1>2. /\ known' \subseteq known /\ known \ known' \subseteq Live' \ Live
      /\ \A a \in known' \cup (Live' \cap Live) : id'[a] = id[a]
      /\ \A a \in known' : a \in Live' => a \in Live
      /\ \A a \in Live \ Live' : Running(a)
      /\ known \subseteq Address
  BY ProcessKeeps DEF Course
<1> SUFFICES ASSUME Native, strayed = "no" PROVE Halted'
  BY <1>1 DEF Halted
<1>3. /\ pc = "interrupt" => \A a \in known \cap Live : id[a] > tid => id[a] \in stopped
      /\ pc = "interrupt_next" => \A a \in known \cap Live : id[a] >= tid => id[a] \in stopped
      /\ pc \in Sampling => \A a \in known \cap Live : id[a] \in stopped
      /\ pc \in AtThread \ {"emit"} => cur \in known \cap Live
      /\ pc \in Asked /\ subject.gil = "runtime" => (current \in known \cap Live => current = holder)
  BY DEF Halted, LeftStopped
<1>4. /\ pc = "interrupt" => \A a \in known' \cap Live' : id'[a] > tid => id'[a] \in stopped
      /\ pc = "interrupt_next" => \A a \in known' \cap Live' : id'[a] >= tid => id'[a] \in stopped
      /\ pc \in Sampling => \A a \in known' \cap Live' : id'[a] \in stopped
  BY <1>2, <1>3
<1>5. ASSUME pc \in AtThread \ {"emit"} PROVE cur \in known' \cap Live'
  <2>1. cur \in known \cap Live /\ id[cur] \in stopped
    BY <1>3, <1>5 DEF AtThread, Sampling, Asked
  <2> QED
    BY <1>2, <2>1 DEF Running
<1>6. ASSUME pc \in Asked, subject.gil = "runtime", current \in known' \cap Live'
      PROVE  current = holder'
  <2>1. current \in known \cap Live /\ current = holder
    BY <1>2, <1>3, <1>6
  <2>2. holder \in Address /\ id[holder] \in stopped
    BY <1>2, <1>3, <1>6, <2>1 DEF Sampling
  <2>3. holder' = holder
    BY <1>6, <2>2 DEF Process, Tick, Allocate, SwitchGIL, ThreadStarts, Unlink, ThreadEnds, memory, gil
  <2> QED
    BY <2>1, <2>3
<1> QED
  BY <1>1, <1>4, <1>5, <1>6 DEF Halted, LeftStopped

\* The sample stops one thread after the other, and samples only threads it has stopped.
LEMMA HaltedSample == ASSUME Course, Stops, Halted, Sample \/ Failed PROVE Halted'
<1>1. UNCHANGED <<subject, id, holder>> /\ Native' = Native /\ Live' = Live
  BY SampleLeaves DEF Native, Live, Interps
<1> SUFFICES ASSUME Native, strayed' = "no" PROVE Halted'
  BY <1>1 DEF Halted
<1>2. strayed = "no"
  BY StaysStrayed DEF Course
<1>3. /\ pc = "interrupt" => \A a \in known \cap Live : id[a] > tid => id[a] \in stopped
      /\ pc = "interrupt_next" => \A a \in known \cap Live : id[a] >= tid => id[a] \in stopped
      /\ pc \in Sampling => known \cap Live \subseteq LeftStopped
      /\ pc \in AtThread \ {"emit"} => cur \in known \cap Live
      /\ pc \in Asked /\ subject.gil = "runtime" => (current \in known \cap Live => current = holder)
  BY <1>2 DEF Halted
<1>4. /\ tid \in Nat /\ known \subseteq Address
      /\ \A a \in known : id[a] \in Nat
  <2>1. Begun /\ Walk /\ MaxThreads \in Nat
    BY TypeParts, SubjectTypes DEF Course, Types
  <2> QED
    BY <2>1 DEF Begun, Walk
<1>5. ASSUME NEW t, FillOK(t)
      PROVE  cur' = t /\ t \in known \cap Live /\ tid' = id[t]
  BY <1>5, FillOKReads, ReadWalked DEF Course
<1>6. CASE pc' \notin {"interrupt", "interrupt_next"} \cup Sampling
  BY <1>6 DEF Halted, Sampling, AtThread, Asked
<1>7. CASE pc' = "interrupt"
  <2>1. InterruptFirst \/ InterruptNext
    BY <1>7 DEF Sample, Begin, ReadInterp, NoThread, ReadInterpFails, NextInterp, SampleFirst,
       SampleFirstFails, Emit, Refill, SampleNext, SampleNextFails, ReadHolder, ReadHolderFails,
       FindOffset, LeaveOut, ReadHolderAgain, Attribute, Interrupt, InterruptFails,
       ResumeFirst, Resume, ResumeNext, ResumeFails, Failed, vars, SampleReturns
  <2>2. UNCHANGED <<known, stopped>>
    BY <2>1 DEF InterruptFirst, InterruptNext, ptraced
  <2>3. \A a \in known \cap Live : id[a] > tid' => id[a] \in stopped
    <3>1. CASE InterruptFirst
      <4>1. PICK t : t = head
        OBVIOUS
      <4>2. FillOK(t)
        BY <3>1, <4>1 DEF InterruptFirst, FillOK
      <4>3. tid' = id[head] /\ head \in known
        BY <1>5, <4>1, <4>2
      <4>4. \A a \in known : id[a] <= id[head]
        BY <4>3 DEF Course, Known
      <4> QED
        BY <1>4, <4>3, <4>4
    <3>2. CASE InterruptNext
      <4>1. pc = "interrupt_next" /\ next # NULL
        BY <1>7, <3>2 DEF InterruptNext
      <4>2. PICK t : t = next
        OBVIOUS
      <4>3. FillOK(t)
        BY <3>2, <4>1, <4>2 DEF InterruptNext, FillOK
      <4>4. tid' = id[next] /\ next \in known
        BY <1>5, <4>2, <4>3
      <4>5. \A a \in known \cap Live : id[a] < tid => id[a] <= id[next]
        BY <1>2, <4>1, <4>4 DEF Course, Walked, Walking
      <4> QED
        BY <1>3, <1>4, <4>1, <4>4, <4>5
    <3> QED
      BY <2>1, <3>1, <3>2
  <2> QED
    BY <1>1, <1>7, <2>2, <2>3 DEF Halted, Sampling, AtThread, Asked
<1>8. CASE pc' = "interrupt_next"
  <2>1. Interrupt
    BY <1>8 DEF Sample, Begin, ReadInterp, NoThread, ReadInterpFails, NextInterp, SampleFirst,
       SampleFirstFails, Emit, Refill, SampleNext, SampleNextFails, ReadHolder, ReadHolderFails,
       FindOffset, LeaveOut, ReadHolderAgain, Attribute, InterruptFirst, InterruptNext, InterruptFails,
       ResumeFirst, Resume, ResumeNext, ResumeFails, Failed, vars, SampleReturns
  <2>2. pc = "interrupt" /\ stopped' = stopped \cup {tid} /\ UNCHANGED <<known, tid>>
    BY <2>1 DEF Interrupt, walk, thread
  <2>3. \A a \in known \cap Live : id[a] >= tid => id[a] \in stopped'
    BY <1>3, <1>4, <2>2
  <2> QED
    BY <1>1, <1>8, <2>2, <2>3 DEF Halted, Sampling, AtThread, Asked
<1>9. CASE pc' = "sample_first"
  <2>1. InterruptNext /\ pc = "interrupt_next" /\ next = NULL /\ UNCHANGED <<known, stopped>>
    BY <1>9 DEF Sample, Begin, ReadInterp, NoThread, ReadInterpFails, NextInterp, SampleFirst,
       SampleFirstFails, Emit, Refill, SampleNext, SampleNextFails, ReadHolder, ReadHolderFails,
       FindOffset, LeaveOut, ReadHolderAgain, Attribute, InterruptFirst, Interrupt, InterruptNext,
       InterruptFails, ResumeFirst, Resume, ResumeNext, ResumeFails, Failed, vars, SampleReturns,
       ptraced
  <2>2. \A a \in known \cap Live : ~(id[a] < tid)
    BY <1>2, <2>1 DEF Course, Walked, Walking
  <2>3. \A a \in known \cap Live : id[a] \in stopped
    BY <1>3, <1>4, <2>1, <2>2
  <2> QED
    BY <1>1, <1>9, <2>1, <2>3 DEF Halted, LeftStopped, AtThread, Asked
<1>10. CASE pc' \in {"gil"} \cup Asked
  <2>1. /\ \/ SampleFirst \/ Emit \/ Refill \/ SampleNext
           \/ ReadHolder \/ ReadHolderFails \/ FindOffset \/ LeaveOut \/ ReadHolderAgain \/ Attribute
        /\ UNCHANGED known
    BY <1>10, ThreadSteps
  <2>2. pc \in Sampling /\ UNCHANGED stopped
    BY <2>1 DEF SampleFirst, Emit, Refill, SampleNext, ReadHolder, ReadHolderFails, FindOffset,
       LeaveOut, ReadHolderAgain, Attribute, Sampling, Asked, ptraced
  <2>3. known' \cap Live' \subseteq LeftStopped'
    BY <1>1, <1>3, <2>1, <2>2 DEF LeftStopped
  <2>4. ASSUME pc' \in AtThread \ {"emit"} PROVE cur' \in known' \cap Live'
    <3>1. CASE SampleFirst \/ (SampleNext /\ next # NULL)
      <4>1. PICK x, y : x = head /\ y = next
        OBVIOUS
      <4>2. FillOK(x) \/ FillOK(y)
        BY <3>1, <4>1 DEF SampleFirst, SampleNext, FillOK
      <4> QED
        BY <1>1, <1>5, <2>1, <4>2
    <3>2. CASE ReadHolder \/ ReadHolderFails \/ FindOffset \/ ReadHolderAgain
      BY <1>1, <1>3, <2>1, <3>2
      DEF ReadHolder, ReadHolderFails, FindOffset, ReadHolderAgain, AtThread, walk, thread
    <3>3. CASE Emit \/ Refill \/ LeaveOut \/ Attribute \/ (SampleNext /\ next = NULL)
      BY <2>4, <3>3 DEF Emit, Refill, LeaveOut, Attribute, SampleNext, SampleReturns, AtThread
    <3> QED
      BY <2>1, <3>1, <3>2, <3>3
  <2>5. ASSUME pc' \in Asked, subject.gil = "runtime", current' \in known' \cap Live'
        PROVE  current' = holder
    <3>1. current' = holder \/ (current' = current /\ pc \in Asked)
      BY <1>4, <2>1, <2>5, NullAssumption
      DEF SampleFirst, Emit, Refill, SampleNext, ReadHolder, ReadHolderFails, FindOffset,
          LeaveOut, ReadHolderAgain, Attribute, SampleReturns, Asked, memory, WithMemory
    <3> QED
      BY <1>1, <1>3, <2>1, <2>5, <3>1
  <2> QED
    BY <1>1, <1>10, <2>3, <2>4, <2>5 DEF Halted, Asked
<1> QED
  BY <1>6, <1>7, <1>8, <1>9, <1>10 DEF Sampling

\* If the threads are stopped and the field of the runtime tells who holds the GIL, a
\* change of memory is attributed to the thread that holds it at that moment: for every
\* number of threads and interpreters, also if threads start or end while others are
\* stopped, as long as Austin follows no pointer to a state that has been freed.
THEOREM StoppedMemoryCorrect == Spec => MemoryOfStopped
<1> DEFINE Inv == Course /\ Stops /\ Halted
<1>1. Init => Halted
  BY DEF Init, Halted, Sampling, AtThread, Asked
<1>2. Inv /\ [Next]_vars => Halted'
  <2> SUFFICES ASSUME Inv, [Next]_vars PROVE Halted'
    OBVIOUS
  <2>1. CASE UNCHANGED vars
    <3>1. Native' = Native /\ LeftStopped' = LeftStopped /\ Live' = Live
      BY <2>1 DEF vars, Native, LeftStopped, Live, Interps
    <3> QED
      BY <2>1, <3>1 DEF vars, Halted
  <2>2. CASE Next
    BY <2>2, HaltedProcess, HaltedSample DEF Next
  <2> QED
    BY <2>1, <2>2
<1>3. ASSUME Inv, Next, last' # last, Native, subject.gil = "runtime", strayed = "no"
      PROVE  cur = holder
  <2>1. Attribute
    BY <1>3, MemorySet, ProcessLeaves DEF Next
  <2>2. cur = current /\ pc \in {"memory", "attribute"}
    BY <1>3, <2>1 DEF Attribute
  <2> QED
    BY <1>3, <2>2 DEF Halted, AtThread, Asked
<1>4. Inv /\ [Next]_vars =>
        [last' # last /\ Native /\ subject.gil = "runtime" /\ strayed = "no" => cur = holder]_vars
  BY <1>3
<1> HIDE DEF Halted
<1> QED
  BY <1>1, <1>2, <1>4, StopsInvariant, PTL DEF Spec, MemoryOfStopped
================================================================================

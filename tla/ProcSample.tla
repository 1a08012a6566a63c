------------------------------ MODULE ProcSample ------------------------------
(***************************************************************************)
(* One process sampled again and again: py_proc__sample (py_proc.c) walks  *)
(* the interpreters and, in each, the linked list of thread states, and    *)
(* attributes to every thread the time since the last sample.  The build   *)
(* with NATIVE (austinp) stops the threads of an interpreter with ptrace   *)
(* before it samples them and resumes them afterwards.  Threads start and  *)
(* end meanwhile, unless they are stopped, and their states are freed and  *)
(* the memory used again, while Austin holds pointers to them.             *)
(*                                                                         *)
(* With -m and -f the change of the resident memory is attributed to the   *)
(* thread that holds the GIL, which is looked up before the threads are    *)
(* walked.  What is done with one thread (the stack it has) is in Sampler. *)
(***************************************************************************)
EXTENDS Integers, Sequences

CONSTANTS Address,   \* where a thread state may be
          NULL,
          Wild,      \* any other value of a pointer: nothing can be read there
          Subjects,  \* the processes, and the builds that sample them
          Unknown,   \* (void *) -1
          MaxMemory, \* bound: the resident memory of a process
          MaxFaults  \* bound: reads and ptrace calls that fail by themselves

(* When Austin attaches: the thread states each interpreter has and the thread  *)
(* of each, numbered in the order they have started.  Whether the build is      *)
(* austinp; whether threads start and end; whether threads may be left out of   *)
(* the output (-e, -s, -m); where its memory is not of interest (""), or which  *)
(* thread holds the GIL is told: by a field of the interpreter (3.12), or of    *)
(* the runtime at an offset to be found, or nowhere (without the symbol of the  *)
(* runtime).  As bounds, how many threads there may have been at last and how   *)
(* long the process is observed.                                                *)
ASSUME SubjectsAssumption ==
  \A s \in Subjects :
    /\ s.start \in Seq(SUBSET Address) /\ s.start # <<>>
    /\ \A i, j \in 1..Len(s.start) : i # j => s.start[i] \cap s.start[j] = {}
    /\ s.id \in [Address -> 0..s.begun] /\ s.begun \in Nat
    /\ \A i, j \in 1..Len(s.start) : \A a \in s.start[i], b \in s.start[j] :
         s.id[a] # 0 /\ (s.id[a] = s.id[b] => a = b)
    /\ {s.native, s.churn, s.partial} \subseteq BOOLEAN
    /\ s.gil \in {"", "interpreter", "runtime", "nowhere"}
    /\ s.threads \in Nat /\ s.begun <= s.threads /\ s.time \in Nat
ASSUME NullAssumption ==
  NULL \notin Address /\ Wild \notin Address \cup {NULL} /\ Unknown \notin Address \cup {NULL}
ASSUME BoundAssumption == MaxMemory \in Nat /\ MaxFaults \in Nat

VARIABLES
  subject,   \* the process and the build, which never change
  clock,     \* gettime(), from the moment Austin attached
  linked,    \* the thread states of each interpreter
  threads,   \* how many threads have started
  id,        \* the thread each state belongs to, or belonged to when it was freed
  stale,     \* the pointer to the next state that a state had when it was unlinked
  ending,    \* threads that have no state any more and have not ended
  stopped,   \* threads in a ptrace stop
  pc,
  interp,    \* the interpreter being sampled
  head,      \* tstate_head as read from it
  cur,       \* py_thread.raddr
  tid,       \* py_thread.tid
  next,      \* py_thread.next_raddr
  known,     \* history: the states that were linked when the head was read, but for
             \* those whose memory another state has taken
  strayed,   \* history: whether Austin has followed a pointer to a state that was freed,
             \* and whether one to a state whose memory another has taken
  flagged,   \* _tids_int: threads Austin has marked as interrupted
  result,    \* what _py_proc__sample_interpreter returned
  timestamp, \* self->timestamp
  delta,     \* time_delta
  counted,   \* history: the time attributed to each thread so far
  resident,  \* the resident memory of the process
  holder,    \* the state that its GIL fields point to
  last,      \* self->last_resident_memory
  offset,    \* whether self->tstate_current_offset has been found
  current,   \* current_thread
  held,      \* history: the threads that have held the GIL since the sample began
  faults

target == <<subject, linked, threads, id, stale, ending>>
ptraced == <<stopped, flagged>>
thread == <<cur, tid, next, strayed>>
walk == <<interp, head, thread>>
time == <<timestamp, delta, counted>>
gil == <<holder, held>>
memory == <<resident, gil, last, offset, current>>
vars == <<subject, clock, linked, threads, id, stale, ending, stopped, pc, interp, head, cur, tid, next,
          known, strayed, flagged, result, timestamp, delta, counted, resident, holder, last, offset,
          current, held, faults>>

Interps == Len(subject.start)
Native  == subject.native
Churn   == subject.churn
MaxClock == subject.time
MaxThreads == subject.threads
WithMemory == subject.gil # ""

Live == UNION {linked[i] : i \in 1..Interps}
Alive(t) == t \in ending \/ \E a \in Live : id[a] = t
Running(a) == a \in Live /\ id[a] \notin stopped

(* New states are linked at the head, so that the list runs from the youngest  *)
(* thread to the oldest.                                                       *)
Youngest(S) == IF S = {} THEN NULL ELSE CHOOSE a \in S : \A b \in S : id[b] <= id[a]
Successor(i, a) == Youngest({b \in linked[i] : id[b] < id[a]})

Init ==
  /\ subject \in Subjects
  /\ clock = 0 /\ timestamp = 0 /\ delta = 0
  /\ linked = subject.start /\ id = subject.id /\ threads = subject.begun
  /\ stale = [a \in Address |-> NULL] /\ ending = {}
  /\ stopped = {} /\ flagged = {}
  /\ pc = "idle" /\ interp = 1
  /\ head = NULL /\ cur = NULL /\ tid = 0 /\ next = NULL
  /\ known = {} /\ strayed = "no"
  /\ result = "success"
  /\ counted = [t \in 1..MaxThreads |-> 0]
  /\ resident = 0 /\ last = 0 /\ offset = FALSE /\ current = NULL
  /\ holder = NULL /\ held = {}
  /\ faults = 0

-------------------------------------------------------------------------------
(* The process. *)

Tick ==
  /\ clock < MaxClock
  /\ clock' = clock + 1
  /\ UNCHANGED <<target, known, ptraced, pc, walk, result, time, faults, memory>>

\* A running thread, with the GIL, starts another one, whose state becomes the head; it
\* may be where one was that has been freed.
ThreadStarts(a, i) ==
  /\ Churn /\ threads < MaxThreads
  /\ a \in Address \ Live
  /\ \E b \in linked[i] : Running(b) /\ (WithMemory => b = holder)
  /\ linked' = [linked EXCEPT ![i] = @ \cup {a}]
  /\ threads' = threads + 1
  /\ id' = [id EXCEPT ![a] = threads'] /\ stale' = [stale EXCEPT ![a] = NULL]
  /\ known' = known \ {a}
  /\ UNCHANGED <<subject, clock, ending, ptraced, pc, walk, result, time, faults, memory>>

\* A running thread, with the GIL, unlinks and frees its state, which is left as it was.
\* (Only austinp cares what becomes of a thread without a state.)
Unlink(a, i) ==
  /\ Churn
  /\ a \in linked[i] /\ Running(a)
  /\ WithMemory => holder = a
  /\ linked' = [linked EXCEPT ![i] = @ \ {a}]
  /\ stale' = [stale EXCEPT ![a] = Successor(i, a)]
  /\ ending' = IF Native THEN ending \cup {id[a]} ELSE ending
  /\ UNCHANGED <<subject, clock, threads, id, known, ptraced, pc, walk, result, time, faults, memory>>

\* It ends.
ThreadEnds(t) ==
  /\ t \in ending \ stopped
  /\ ending' = ending \ {t}
  /\ UNCHANGED <<subject, clock, linked, threads, id, stale, known, ptraced, pc, walk, result, time,
                 faults, memory>>

\* The GIL is released, which the field of the runtime shows, or taken.  In 3.12 the
\* field has the last thread that held it, which may be stopped without it.
SwitchGIL(a) ==
  /\ WithMemory
  /\ Running(a) \/ (a = NULL /\ subject.gil = "runtime")
  /\ a # holder
  /\ holder \in Address /\ id[holder] \in stopped => subject.gil = "interpreter"
  /\ holder' = a
  /\ held' = IF a = NULL THEN held ELSE held \cup {id[a]}
  /\ UNCHANGED <<clock, target, known, ptraced, pc, walk, result, time, faults,
                 resident, last, offset, current>>

Allocate ==
  /\ WithMemory /\ \E a \in Live : Running(a)
  /\ resident' \in 0..MaxMemory \ {resident}
  /\ UNCHANGED <<clock, target, known, ptraced, pc, walk, result, time, faults,
                 gil, last, offset, current>>

-------------------------------------------------------------------------------
(* Reading thread states. *)

Fault == faults < MaxFaults /\ faults' = faults + 1

\* py_thread__fill_from_raddr copies memory.  A state that has been freed is read like
\* any other; where it has the pointer to the next one, there may be something else.
FillOK(a) ==
  /\ a \in Address
  /\ cur' = a /\ tid' = id[a]
  /\ next' \in IF a \in Live THEN {Successor(i, a) : i \in {j \in 1..Interps : a \in linked[j]}}
               ELSE {stale[a], NULL, Wild}
  /\ strayed' = IF a \notin known THEN "reused"
                ELSE IF a \notin linked[interp] /\ strayed = "no" THEN "freed"
                ELSE strayed
  /\ UNCHANGED faults

\* It fails: there is nothing, or nothing of a thread any more, to be read or seized; or
\* the read or the seizing fails.
FillFails(a) ==
  /\ \/ a \notin Live /\ UNCHANGED faults
     \/ Fault
  /\ UNCHANGED thread

-------------------------------------------------------------------------------
(* py_proc__sample. *)

Begin ==
  /\ pc = "idle"
  /\ delta' = clock - timestamp
  /\ interp' = 1
  /\ held' = IF holder = NULL THEN {} ELSE {id[holder]}
  /\ pc' = "read"
  /\ UNCHANGED <<clock, target, known, ptraced, head, thread, result, timestamp, counted, faults,
                 resident, holder, last, offset, current>>

\* The interpreter state is read and has a thread.
ReadInterp ==
  /\ pc = "read"
  /\ linked[interp] # {}
  /\ head' = Youngest(linked[interp])
  /\ known' = linked[interp]
  /\ pc' = IF Native THEN "interrupt_first" ELSE "sample_first"
  /\ UNCHANGED <<clock, target, ptraced, interp, thread, result, time, faults, memory>>

\* It has none, or is being changed: the sample ends at once, as a success, and
\* the timestamp stays.
NoThread ==
  /\ pc = "read"
  /\ \/ linked[interp] = {} /\ UNCHANGED faults
     \/ Fault
  /\ pc' = "idle"
  /\ UNCHANGED <<clock, target, known, ptraced, walk, result, time, memory>>

ReadInterpFails ==
  /\ pc = "read"
  /\ Fault
  /\ pc' = "failed"
  /\ UNCHANGED <<clock, target, known, ptraced, walk, result, time, memory>>

\* Mutant: the timestamp is the time at which the sample ends, or stays.
NextInterpNow ==
  /\ pc = "sampled"
  /\ known' = {}
  /\ UNCHANGED <<clock, target, ptraced, head, thread, result, delta, counted, faults, memory>>
  /\ IF result # "success"
       THEN pc' = "failed" /\ UNCHANGED <<interp, timestamp>>
     ELSE IF interp < Interps
       THEN pc' = "read" /\ interp' = interp + 1 /\ UNCHANGED timestamp
     ELSE pc' = "idle" /\ timestamp' = clock /\ UNCHANGED interp

NextInterpNever ==
  /\ pc = "sampled"
  /\ known' = {}
  /\ UNCHANGED <<clock, target, ptraced, head, thread, result, time, faults, memory>>
  /\ IF result # "success"
       THEN pc' = "failed" /\ UNCHANGED interp
     ELSE IF interp < Interps
       THEN pc' = "read" /\ interp' = interp + 1
     ELSE pc' = "idle" /\ UNCHANGED interp

\* _py_proc__sample_interpreter returned and, with NATIVE, the threads have been
\* resumed: on to the next interpreter, if there is one.
NextInterp ==
  /\ pc = "sampled"
  /\ known' = {}
  /\ UNCHANGED <<clock, target, ptraced, head, thread, result, delta, counted, faults, memory>>
  /\ IF result # "success"
       THEN pc' = "failed" /\ UNCHANGED <<interp, timestamp>>
     ELSE IF interp < Interps
       THEN pc' = "read" /\ interp' = interp + 1 /\ UNCHANGED timestamp
     ELSE /\ pc' = "idle"
          /\ timestamp' = IF Native THEN clock ELSE timestamp + delta
          /\ UNCHANGED interp

-------------------------------------------------------------------------------
(* _py_proc__sample_interpreter. *)

SampleFirst ==
  /\ pc = "sample_first"
  /\ FillOK(head)
  /\ pc' = IF WithMemory THEN "gil" ELSE "emit"
  /\ UNCHANGED <<clock, target, known, ptraced, interp, head, result, time, memory>>

SampleReturns(outcome) ==
  /\ result' = outcome
  /\ pc' = IF Native THEN "resume_first" ELSE "sampled"

\* Only a fatal error counts when the first thread state cannot be read.
SampleFirstFails ==
  /\ pc = "sample_first"
  /\ FillFails(head)
  /\ \E outcome \in {"success", "fail"} : SampleReturns(outcome)
  /\ UNCHANGED <<clock, target, known, ptraced, interp, head, time, memory>>

\* py_thread__emit_collapsed_stack: the time is attributed to the thread (the history
\* stops above MaxClock), and austinp reads the state once more; or the thread is left
\* out.
Emit ==
  /\ pc = "emit"
  /\ \/ /\ counted' = [counted EXCEPT ![tid] = IF @ + delta > MaxClock THEN MaxClock + 1 ELSE @ + delta]
        /\ pc' = IF Native THEN "refill" ELSE "sample_next"
     \/ /\ subject.partial \/ delta = 0
        /\ UNCHANGED counted
        /\ pc' = "sample_next"
  /\ UNCHANGED <<clock, target, known, ptraced, walk, result, timestamp, delta, faults, memory>>

Refill ==
  /\ pc = "refill"
  /\ FillOK(cur)
  /\ pc' = "sample_next"
  /\ UNCHANGED <<clock, target, known, ptraced, interp, head, result, time, memory>>

\* py_thread__next
SampleNext ==
  /\ pc = "sample_next"
  /\ IF next = NULL
       THEN SampleReturns("success") /\ UNCHANGED <<thread, faults>>
       ELSE FillOK(next) /\ pc' = (IF WithMemory THEN "memory" ELSE "emit") /\ UNCHANGED result
  /\ UNCHANGED <<clock, target, known, ptraced, interp, head, time, memory>>

\* There is no next thread either if the state could not be read once more.
SampleNextFails ==
  /\ \/ pc = "sample_next" /\ next # NULL /\ FillFails(next)
     \/ pc = "refill" /\ FillFails(cur)
  /\ SampleReturns("fail")
  /\ UNCHANGED <<clock, target, known, ptraced, interp, head, time, memory>>

-------------------------------------------------------------------------------
(* -m and -f: who holds the GIL. *)

\* Mutant: the thread that was found once is kept.
ReadHolderOnce ==
  /\ pc = "gil"
  /\ current' = IF current \in Address THEN current
                ELSE IF subject.gil = "interpreter" \/ (subject.gil = "runtime" /\ offset) THEN holder
                ELSE Unknown
  /\ pc' = "memory"
  /\ UNCHANGED <<clock, target, known, ptraced, walk, result, time, faults, resident, gil, last, offset>>

ReadHolder ==
  /\ pc = "gil"
  /\ current' = IF subject.gil = "interpreter" \/ (subject.gil = "runtime" /\ offset) THEN holder
                ELSE Unknown
  /\ pc' = "memory"
  /\ UNCHANGED <<clock, target, known, ptraced, walk, result, time, faults, resident, gil, last, offset>>

\* The interpreter has no GIL yet, which ends its sample, or it cannot be read; the
\* field of the runtime cannot be.
ReadHolderFails ==
  /\ pc = "gil" /\ Fault
  /\ \/ /\ subject.gil = "interpreter"
        /\ \E outcome \in {"success", "fail"} : SampleReturns(outcome)
        /\ UNCHANGED current
     \/ /\ subject.gil = "runtime" /\ offset
        /\ current' = Unknown
        /\ pc' = "memory"
        /\ UNCHANGED result
  /\ UNCHANGED <<clock, target, known, ptraced, walk, time, resident, gil, last, offset>>

Searching == subject.gil = "runtime" /\ current = Unknown

\* The offset is that of the second pointer to the current thread in the runtime;
\* there are two if it is the thread that holds the GIL.
FindOffset ==
  /\ pc = "memory" /\ Searching
  /\ holder = cur
  /\ offset' = TRUE
  /\ pc' = "gil_again"
  /\ UNCHANGED <<clock, target, known, ptraced, walk, result, time, faults, resident, gil, last, current>>

\* There are not: on to the next thread, without a sample of this one.
LeaveOut ==
  /\ pc = "memory" /\ Searching
  /\ \/ holder # cur /\ UNCHANGED faults
     \/ Fault
  /\ pc' = "sample_next"
  /\ UNCHANGED <<clock, target, known, ptraced, walk, result, time, memory>>

ReadHolderAgain ==
  /\ pc = "gil_again"
  /\ \/ current' = holder /\ UNCHANGED faults
     \/ current' = Unknown /\ Fault
  /\ pc' = "attribute"
  /\ UNCHANGED <<clock, target, known, ptraced, walk, result, time, resident, gil, last, offset>>

\* The thread is the holder as read, and gets the change of the memory since this was
\* last asked (-1 if statm cannot be read), or it does not.
Attribute ==
  /\ pc = "attribute" \/ (pc = "memory" /\ ~Searching)
  /\ IF cur = current
       THEN \/ last' = resident /\ UNCHANGED faults
            \/ last' = -1 /\ Fault
       ELSE UNCHANGED <<last, faults>>
  /\ pc' = "emit"
  /\ UNCHANGED <<clock, target, known, ptraced, walk, result, time, resident, gil, offset, current>>

-------------------------------------------------------------------------------
(* NATIVE: _py_proc__interrupt_threads ... *)

InterruptFirst ==
  /\ pc = "interrupt_first"
  /\ FillOK(head)
  /\ pc' = "interrupt"
  /\ UNCHANGED <<clock, target, known, ptraced, interp, head, result, time, memory>>

Interrupt ==
  /\ pc = "interrupt"
  /\ Alive(tid)
  /\ stopped' = stopped \cup {tid}
  /\ flagged' = flagged \cup {tid}
  /\ pc' = "interrupt_next"
  /\ UNCHANGED <<clock, target, known, walk, result, time, faults, memory>>

\* The time is taken again once all threads are stopped.
InterruptNext ==
  /\ pc = "interrupt_next"
  /\ IF next = NULL
       THEN /\ delta' = clock - timestamp
            /\ pc' = "sample_first"
            /\ UNCHANGED <<thread, faults>>
       ELSE /\ FillOK(next)
            /\ pc' = "interrupt"
            /\ UNCHANGED delta
  /\ UNCHANGED <<clock, target, known, ptraced, interp, head, result, timestamp, counted, memory>>

\* Mutant: a thread that cannot be stopped is left for the next sample.
InterruptFailsSoftly ==
  /\ \/ pc = "interrupt_first" /\ FillFails(head)
     \/ /\ pc = "interrupt"
        /\ \/ ~Alive(tid) /\ UNCHANGED faults
           \/ Fault
        /\ UNCHANGED thread
     \/ pc = "interrupt_next" /\ next # NULL /\ FillFails(next)
  /\ pc' = "idle"
  /\ UNCHANGED <<clock, target, known, ptraced, interp, head, result, time, memory>>

\* A thread cannot be read, or has ended before it could be interrupted (or its
\* idle state cannot be told): the sample fails there and then.
InterruptFails ==
  /\ \/ pc = "interrupt_first" /\ FillFails(head)
     \/ /\ pc = "interrupt"
        /\ \/ ~Alive(tid) /\ UNCHANGED faults
           \/ Fault
        /\ UNCHANGED thread
     \/ pc = "interrupt_next" /\ next # NULL /\ FillFails(next)
  /\ pc' = "failed"
  /\ UNCHANGED <<clock, target, known, ptraced, interp, head, result, time, memory>>

(* ... and _py_proc__resume_threads. *)

ResumeFirst ==
  /\ pc = "resume_first"
  /\ FillOK(head)
  /\ pc' = "resume"
  /\ UNCHANGED <<clock, target, known, ptraced, interp, head, result, time, memory>>

Resume ==
  /\ pc = "resume"
  /\ stopped' = IF tid \in flagged THEN stopped \ {tid} ELSE stopped
  /\ flagged' = flagged \ {tid}
  /\ pc' = "resume_next"
  /\ UNCHANGED <<clock, target, known, walk, result, time, faults, memory>>

ResumeNext ==
  /\ pc = "resume_next"
  /\ IF next = NULL
       THEN pc' = "sampled" /\ UNCHANGED <<thread, faults>>
       ELSE FillOK(next) /\ pc' = "resume"
  /\ UNCHANGED <<clock, target, known, ptraced, interp, head, result, time, memory>>

ResumeFails ==
  /\ \/ pc = "resume_first" /\ FillFails(head)
     \/ pc = "resume" /\ tid \in flagged /\ Fault /\ UNCHANGED thread
     \/ pc = "resume_next" /\ next # NULL /\ FillFails(next)
  /\ pc' = "failed"
  /\ UNCHANGED <<clock, target, known, ptraced, interp, head, result, time, memory>>

\* The caller gives the process up.
Failed == pc = "failed" /\ UNCHANGED vars

Process ==
  \/ Tick
  \/ Allocate
  \/ \E a \in Address \cup {NULL} : SwitchGIL(a)
  \/ \E t \in 1..MaxThreads : ThreadEnds(t)
  \/ \E i \in 1..Interps, a \in Address : ThreadStarts(a, i) \/ Unlink(a, i)

Sample ==
  \/ Begin \/ ReadInterp \/ NoThread \/ ReadInterpFails \/ NextInterp
  \/ SampleFirst \/ SampleFirstFails \/ Emit \/ Refill \/ SampleNext \/ SampleNextFails
  \/ ReadHolder \/ ReadHolderFails \/ FindOffset \/ LeaveOut \/ ReadHolderAgain \/ Attribute
  \/ InterruptFirst \/ Interrupt \/ InterruptNext \/ InterruptFails
  \/ ResumeFirst \/ Resume \/ ResumeNext \/ ResumeFails

Next == Process \/ Sample \/ Failed

Spec == Init /\ [][Next]_vars

-------------------------------------------------------------------------------
(* Properties. *)

\* Types; thread states are of one interpreter and of one thread each.
TypeOK ==
  /\ {clock, timestamp, delta} \subseteq 0..MaxClock
  /\ linked \in [1..Interps -> SUBSET Address]
  /\ \A i, j \in 1..Interps : i # j => linked[i] \cap linked[j] = {}
  /\ threads \in 0..MaxThreads
  /\ id \in [Address -> 0..threads]
  /\ \A a, b \in Live : id[a] # 0 /\ (id[a] = id[b] => a = b)
  /\ stale \in [Address -> Address \cup {NULL}]
  /\ {ending, stopped, flagged, held} \subseteq SUBSET (1..threads)
  /\ interp \in 1..Interps
  /\ head \in Address \cup {NULL} /\ cur \in Address \cup {NULL}
  /\ next \in Address \cup {NULL, Wild}
  /\ tid \in 0..threads
  /\ known \subseteq Address /\ strayed \in {"no", "freed", "reused"}
  /\ result \in {"success", "fail"}
  /\ counted \in [1..MaxThreads -> 0..(MaxClock + 1)]
  /\ resident \in 0..MaxMemory /\ last \in -1..MaxMemory
  /\ holder \in Address \cup {NULL} /\ current \in Address \cup {NULL, Unknown}

\* "Time delta since last sample" (py_proc.c): no moment is attributed to the
\* same thread twice, so the metrics of a thread add up to no more than the time
\* that has passed, though Austin may walk along states that have been freed; not if
\* the memory of one has become the state of another thread, whose list begins before
\* those Austin has been at.  With several interpreters this is not so either: one
\* without a thread ends the sample after others have been sampled and before the
\* timestamp moves.
NoTimeCountedTwice ==
  Interps = 1 /\ strayed # "reused" => \A t \in 1..MaxThreads : counted[t] <= clock

\* What keeps a sample from all the threads there are, once each: austinp leaves out
\* the time for which it keeps the threads stopped; threads come and go; some are to be
\* left out; up to 3.11 the search for the thread that holds the GIL leaves out all
\* others; reads fail; and an interpreter without a thread ends the sample.
Undisturbed ==
  /\ ~Native /\ ~Churn /\ ~subject.partial /\ subject.gil # "runtime" /\ faults = 0
  /\ \A i \in 1..Interps : linked[i] # {}

\* Between samples, as long as nothing disturbed them, all the time up to the last
\* sample has been attributed to each thread.
AllTimeCounted == pc = "idle" /\ Undisturbed => \A a \in Live : counted[id[a]] = timestamp

\* After a sample that succeeded no thread that has a state is left stopped, whichever
\* threads started, ended or could not be read while the others were being stopped; and
\* one that fails resumes the threads it has stopped ("ensure that threads are resumed
\* by austinp when an error occurs during the sampling process", ChangeLog, v3.6.0),
\* unless what fails is to interrupt or to resume one of them.  A thread that has
\* unlinked its state before it is stopped (PTRACE_INTERRUPT asks for the thread alone)
\* is not met again and stays stopped; and so may others if Austin has followed a
\* pointer to a state that was freed.
LeftStopped == {a \in Live : id[a] \in stopped}

NoneLeftStopped ==
  [][strayed' = "no" =>
       /\ pc' = "idle" => LeftStopped' = {}
       /\ pc # "failed" /\ pc' = "failed" /\ LeftStopped' # {} =>
            pc \in {"interrupt_first", "interrupt", "interrupt_next",
                    "resume_first", "resume", "resume_next"}]_vars

\* A change of memory is attributed to a thread that has held the GIL since the
\* sample began, although the GIL goes round while threads are walked; unless the state
\* of the one that held it was freed and is now that of another ...
MemoryOfHolder == [][last' # last /\ cur \in known => tid \in held]_vars

\* ... and to the one that holds it still, if the threads are stopped and the field of
\* the runtime tells.
MemoryOfStopped ==
  [][last' # last /\ Native /\ subject.gil = "runtime" /\ strayed = "no" => cur = holder]_vars
===============================================================================

----------------------------- MODULE Parts_proofs ------------------------------
(***************************************************************************)
(* The parts of Austin that keep a state of their own: attaching to a      *)
(* process, the descriptors of versions, the statistics, the stream of -b, *)
(* and the keys of frames.  Each is proved about for itself.               *)
(*                                                                         *)
(* Attaching: the interpreter that is accepted belongs to the program that *)
(* runs, because a process never executes a program a second time, so that *)
(* what was found in an earlier one (an address at or below seen) can be   *)
(* read only if it is of the program seen last, and this one still runs;   *)
(* then the version told is that of this program, too.                     *)
(*                                                                         *)
(* Versions: two that share a descriptor are alike in all that is asked.   *)
(* Statistics: what each counter is of the samples, by their number.       *)
(* Stream: the bytes that are left are those of the events that are left,  *)
(* and each event reads as it was from whatever bytes follow it.           *)
(* Keys: an instruction that fits shares no bit with its code object, so   *)
(* that both can be had back from the key; and one that has not begun      *)
(* reaches the highest bit, which no other does.                           *)
(***************************************************************************)
EXTENDS Attach, Version, Stats, Stream, FrameKey,
        FiniteSetTheorems, SequenceTheorems, WellFoundedInduction, TLAPS

-------------------------------------------------------------------------------
(* Attaching to a process. *)

TypeInv ==
  /\ target \in Targets
  /\ image \in 1..Len(program) \cup {Ended}
  /\ symbols \in [runtime : Nat, version : Nat]
  /\ seen \in Nat /\ runtime \in Nat /\ bss \in Nat /\ path \in Nat
  /\ faults \in Nat

\* What is kept was found in the program whose maps were last opened, or before.
Kept ==
  /\ Running => seen <= image
  /\ symbols.runtime <= seen /\ symbols.version <= seen
  /\ runtime <= seen /\ bss <= seen /\ path <= seen
  /\ bss # None => program[bss].python
  /\ pc = "maps" => seen # None

\* Once its maps have been read, all that one attempt uses is of one program.
OfOneProgram ==
  pc \in {"mapped", "version", "deref", "scan"} =>
    /\ seen # None /\ path = seen /\ bss = seen
    /\ program[seen].versionSym => symbols.version = seen

\* The version that was told is that of the program that runs: when it is used in the
\* attempt that told it, ...
VersionOfAttempt ==
  pc \in {"deref", "scan"} /\ Running /\ seen = image => py_v = image

\* ... and between attempts, when the last resort may use it.
VersionOfLast ==
  /\ pc \in {"loop", "open", "maps", "scan_last"}
  /\ Running /\ bss = image /\ Perm = "all" /\ faults = 0 /\ Told /\ ~Stale
  => py_v = image

Inv ==
  /\ TypeInv /\ Kept /\ OfOneProgram /\ VersionOfAttempt /\ VersionOfLast
  /\ AttachedToWhatRuns

\* The invariant holds initially.
LEMMA InitInv == Init => Inv
<1> SUFFICES ASSUME Init PROVE Inv
  OBVIOUS
<1>1. target \in Targets /\ Len(program) \in Nat \ {0}
  BY TargetsAssumption DEF Init, program
<1> QED
  BY <1>1 DEF Init, Inv, TypeInv, Kept, OfOneProgram, VersionOfAttempt, VersionOfLast,
              AttachedToWhatRuns, Ended, None, Running

\* The process goes on, or ends.
LEMMA ProcessInv == ASSUME Inv, Process \/ (~Final /\ Tick) PROVE Inv'
<1>1. CASE Exec /\ ~Final
  <2>1. image' = image + 1 /\ image' \in 1..Len(program) /\ seen < image' /\ bss < image'
    BY <1>1 DEF Exec, Inv, TypeInv, Kept, Running, Ended
  <2> QED
    BY <1>1, <2>1 DEF Exec, found, Inv, TypeInv, Kept, OfOneProgram, VersionOfAttempt,
                      VersionOfLast, AttachedToWhatRuns, Running, Ended, None, program, Final
<1>2. CASE ComeUp /\ ~Final
  BY <1>2 DEF ComeUp, found, Inv, TypeInv, Kept, OfOneProgram, VersionOfAttempt, Told, Stale, Is,
              VersionOfLast, AttachedToWhatRuns, Running, Perm, program, Final
<1>3. CASE Exit /\ ~Final
  BY <1>3 DEF Exit, found, Inv, TypeInv, Kept, OfOneProgram, VersionOfAttempt,
              VersionOfLast, AttachedToWhatRuns, Running, Ended, program, Final
<1>4. CASE Tick /\ ~Final
  BY <1>4 DEF Tick, found, Inv, TypeInv, Kept, OfOneProgram, VersionOfAttempt, Told, Stale, Is,
              VersionOfLast, AttachedToWhatRuns, Running, Perm, program, Final
<1> QED
  BY <1>1, <1>2, <1>3, <1>4 DEF Process

\* The loop starts an attempt, or gives up.
LEMMA LoopInv == ASSUME Inv, Attempt \/ GiveUp \/ TimeOut PROVE Inv'
<1> USE DEF process, found, Inv, TypeInv, Kept, OfOneProgram, VersionOfAttempt,
            VersionOfLast, AttachedToWhatRuns, Running, Perm, program, Told, Stale, Is
<1>1. CASE Attempt
  BY <1>1 DEF Attempt, None
<1>2. CASE GiveUp
  BY <1>2 DEF GiveUp, Fails
<1>3. CASE TimeOut
  BY <1>3 DEF TimeOut, Fails
<1> QED
  BY <1>1, <1>2, <1>3

\* The maps are read, and what they name is of the program seen.
LEMMA MapsInv == ASSUME Inv, OpenMaps \/ ReadMaps \/ CheckMaps PROVE Inv'
<1> USE DEF process, found, Inv, TypeInv, Kept, OfOneProgram, VersionOfAttempt,
            VersionOfLast, AttachedToWhatRuns, Running, Perm, program, Told, Stale, Is, Again
<1>1. CASE OpenMaps
  BY <1>1 DEF OpenMaps, None, Ended
<1>2. CASE ReadMaps
  <2>1. CASE seen # image
    BY <1>2, <2>1 DEF ReadMaps
  <2>2. CASE seen = image
    <3>1. Running /\ image \in Nat \ {0}
      BY <2>2 DEF Ended
    <3>2. symbols' \in [runtime : {image, symbols.runtime}, version : {image, symbols.version}]
      BY <1>2, <2>2 DEF ReadMaps
    <3>3. /\ runtime' \in {image, runtime} /\ path' = image
          /\ bss' = IF program[image].python THEN image ELSE bss
          /\ pc' = IF program[image].python THEN "mapped" ELSE "loop"
      BY <1>2, <2>2, <3>1 DEF ReadMaps
    <3>4. program[image].versionSym => symbols'.version = image
      BY <1>2, <2>2, <3>1 DEF ReadMaps
    <3>5. UNCHANGED <<target, image, up, expired, seen, py_v, faults>>
      BY <1>2 DEF ReadMaps
    <3> QED
      BY <2>2, <3>1, <3>2, <3>3, <3>4, <3>5 DEF None
  <2> QED
    BY <2>1, <2>2
<1>3. CASE CheckMaps
  BY <1>3 DEF CheckMaps
<1> QED
  BY <1>1, <1>2, <1>3

\* The version is told, or cannot be.
LEMMA VersionInv == ASSUME Inv, VersionOK \/ VersionFails PROVE Inv'
<1> USE DEF process, found, Inv, TypeInv, Kept, OfOneProgram, VersionOfAttempt,
            VersionOfLast, AttachedToWhatRuns, Running, Perm, program, Told, Stale, Is, Again
<1>1. CASE VersionOK
  BY <1>1 DEF VersionOK, Readable, None
<1>2. CASE VersionFails
  BY <1>2 DEF VersionFails, Readable, None, Fault
<1> QED
  BY <1>1, <1>2

\* With the right version, only the interpreter state of the program that runs passes
\* the check, and only when it is up.
LEMMA CheckIsExact ==
  ASSUME NEW address, NEW isHead, py_v = image, TRUE \in CheckPasses(address, isHead)
  PROVE  up /\ address = image /\ Running
BY DEF CheckPasses, Readable

\* The head of the interpreters is found from the runtime structure, or is not.
LEMMA DerefInv == ASSUME Inv, Deref PROVE Inv'
<1> USE DEF Inv, TypeInv, Kept
<1>1. UNCHANGED <<target, image, up, expired, seen, symbols, runtime, bss, path, loaded, py_v>>
  BY DEF Deref, process, found
<1>2. faults' \in Nat /\ (faults' = 0 => faults = 0) /\ pc' \in {"attached", "loop"}
  BY DEF Deref, Fault, Again
<1>3. ASSUME pc' = "attached", ~Stale, Running PROVE up /\ is_raddr' = image /\ py_v = image
  <2>1. PICK position \in Positions, heads \in [Addresses -> {None, Unread, Target}],
             failed \in Addresses \cup {0}, lastRead \in Addresses \cup {0} :
          /\ IF failed = 0 THEN UNCHANGED faults ELSE Fault
          /\ \A i \in Addresses :
               LET passes == CheckPasses(Target, i = position) IN
               \/ heads[i] = Unread /\ (i = failed \/ ~Readable(Target))
               \/ heads[i] = None   /\ Readable(Target) /\ (i = failed \/ FALSE \in passes)
               \/ heads[i] = Target /\ i # failed /\ TRUE \in passes
          /\ lastRead # 0 => heads[lastRead] # Unread
          /\ \A i \in Addresses : i > lastRead => heads[i] = Unread
          /\ is_raddr' = IF lastRead = 0 THEN None ELSE heads[lastRead]
          /\ IF is_raddr' # None
               THEN pc' = "attached" /\ UNCHANGED error
               ELSE Again(IF Readable(Target) THEN "EPROC" ELSE ReadError)
    BY Zenon DEF Deref
  <2>2. is_raddr' # None
    BY <1>3, <2>1 DEF Again
  <2>3. lastRead \in Addresses /\ is_raddr' = Target
        /\ TRUE \in CheckPasses(Target, lastRead = position)
    BY <2>1, <2>2
  <2>4. Target = image
    BY <2>3 DEF CheckPasses, Readable
  <2>5. seen = image
    BY <1>3, <2>4 DEF Target, Running, Ended
  <2>6. py_v = image
    BY <1>3, <2>5 DEF Deref, VersionOfAttempt
  <2> QED
    BY <2>3, <2>4, <2>6, CheckIsExact
<1>4. OfOneProgram' /\ VersionOfAttempt'
  BY <1>2 DEF OfOneProgram, VersionOfAttempt
<1>5. VersionOfLast'
  BY <1>1, <1>2 DEF Deref, VersionOfLast, VersionOfAttempt, OfOneProgram, Running
<1>6. AttachedToWhatRuns'
  BY <1>1, <1>2, <1>3 DEF AttachedToWhatRuns, Told, Stale, Is, Running, program
<1>7. TypeInv' /\ Kept'
  BY <1>1, <1>2 DEF Running, program
<1> QED
  BY <1>4, <1>5, <1>6, <1>7

\* The .bss section is scanned.
LEMMA ScanInv == ASSUME Inv, ScanFinds \/ ScanFails \/ ScanCrashes PROVE Inv'
<1> USE DEF process, found, Inv, TypeInv, Kept
<1>1. CASE ScanFinds
  <2>1. bss = image /\ Running /\ Perm = "all"
    BY <1>1 DEF ScanFinds, CheckPasses, Readable
  <2>2. ASSUME faults = 0, Told, ~Stale PROVE py_v = image
    BY <1>1, <2>1, <2>2 DEF ScanFinds, Scanning, VersionOfAttempt, VersionOfLast, OfOneProgram
  <2>3. ASSUME faults = 0, Told, ~Stale PROVE up
    BY <1>1, <2>2, <2>3, CheckIsExact DEF ScanFinds
  <2>4. AttachedToWhatRuns'
    BY <1>1, <2>1, <2>2, <2>3
    DEF ScanFinds, AttachedToWhatRuns, Told, Stale, Is, Running, program
  <2> QED
    BY <1>1, <2>4 DEF ScanFinds, OfOneProgram, VersionOfAttempt, VersionOfLast, Running, program
<1>2. CASE ScanFails
  <2>1. UNCHANGED <<process, seen, found, py_v>> /\ pc \in {"scan", "scan_last"}
    BY <1>2 DEF ScanFails, Scanning
  <2>2. faults' = faults \/ Fault
    BY <1>2, Zenon DEF ScanFails
  <2>3. faults' \in Nat /\ (faults' = 0 => faults = 0)
    BY <2>2 DEF Fault
  <2>4. pc' = IF pc = "scan_last" THEN "failed" ELSE "loop"
    BY <1>2 DEF ScanFails, Fails, Again
  <2>5. VersionOfLast'
    BY <2>1, <2>3, <2>4
    DEF VersionOfLast, VersionOfAttempt, OfOneProgram, Running, Told, Stale, Is, Perm, program
  <2> QED
    BY <2>1, <2>3, <2>4, <2>5 DEF OfOneProgram, VersionOfAttempt, AttachedToWhatRuns, Running, program
<1>3. CASE ScanCrashes
  BY <1>3 DEF ScanCrashes, OfOneProgram, VersionOfAttempt, VersionOfLast, AttachedToWhatRuns,
              Running, program
<1> QED
  BY <1>1, <1>2, <1>3

\* Every step keeps the invariant.
LEMMA NextInv == Inv /\ [Next]_vars => Inv'
<1> SUFFICES ASSUME Inv, [Next]_vars PROVE Inv'
  OBVIOUS
<1>1. CASE Run
  BY <1>1, LoopInv, MapsInv, VersionInv, DerefInv, ScanInv DEF Run
<1>2. CASE Process \/ (~Final /\ Tick)
  BY <1>2, ProcessInv
<1>3. CASE UNCHANGED vars
  BY <1>3 DEF vars, Inv, TypeInv, Kept, OfOneProgram, VersionOfAttempt, VersionOfLast,
              AttachedToWhatRuns, Running, Told, Stale, Is, Perm, program
<1> QED
  BY <1>1, <1>2, <1>3 DEF Next, Done

\* What is accepted as the interpreter state is that of the program that runs, with
\* the offsets of its version: for every sequence of programs with every combination
\* of symbols, every number of addresses that are tried, and every way in which the
\* attempts fall between the steps of the process.
THEOREM AttachedCorrect == Spec => []AttachedToWhatRuns
<1>1. Inv => AttachedToWhatRuns
  BY DEF Inv
<1> QED
  BY <1>1, InitInv, NextInv, PTL DEF Spec

--------------------------------------------------------------------------------

\* The errors are told apart by what has happened: no error of permissions without
\* a lack of them, and the last scan only when the time is over.
Reasons ==
  /\ error = "EPROCPERM" => Perm # "all"
  /\ pc = "scan_last" => expired
  /\ VerdictOK

\* Every step keeps that a verdict has its reason.
LEMMA NextReasons == Reasons /\ [Next]_vars => Reasons'
<1> SUFFICES ASSUME Reasons, [Next]_vars PROVE Reasons'
  OBVIOUS
<1> USE DEF Reasons, VerdictOK, Perm, Child, Running
<1>1. CASE Attempt \/ GiveUp \/ TimeOut
  BY <1>1 DEF Attempt, GiveUp, TimeOut, Fails, process
<1>2. CASE OpenMaps \/ ReadMaps \/ CheckMaps
  BY <1>2 DEF OpenMaps, ReadMaps, CheckMaps, Again, process
<1>3. CASE VersionOK \/ VersionFails
  BY <1>3 DEF VersionOK, VersionFails, Again, ReadError, process
<1>4. CASE Deref
  BY <1>4 DEF Deref, Again, ReadError, process
<1>5. CASE ScanFinds \/ ScanFails \/ ScanCrashes
  BY <1>5 DEF ScanFinds, ScanFails, ScanCrashes, Scanning, Again, ReadError, Fails, process
<1>6. CASE Process \/ (~Final /\ Tick)
  BY <1>6 DEF Process, Exec, ComeUp, Exit, Tick, Final
<1>7. CASE UNCHANGED vars
  BY <1>7 DEF vars
<1> QED
  BY <1>1, <1>2, <1>3, <1>4, <1>5, <1>6, <1>7 DEF Next, Run, Done

\* A process is given up for the reason that is reported, and while there is time
\* only if it has ended or is a child: for every process.
THEOREM VerdictCorrect == Spec => []VerdictOK
<1>1. Init => Reasons
  BY DEF Init, Reasons, VerdictOK
<1>2. Reasons => VerdictOK
  BY DEF Reasons
<1> QED
  BY <1>1, <1>2, NextReasons, PTL DEF Spec

--------------------------------------------------------------------------------

\* The process of PermissionReported.
Denied ==
  /\ ~Child /\ Perm = "maps" /\ faults = 0
  /\ Len(program) = 1 /\ Is("python") /\ Is("named")

\* Every attempt gets as far as its memory, and the scan of the last resort is only for
\* a process there was no time to attempt at all.
DeniedInv ==
  Denied =>
    /\ pc \in {"maps", "mapped"} => seen = image
    /\ pc \in {"mapped", "version"} => path = image
    /\ pc = "scan_last" => ~tried
    /\ pc \in {"loop", "failed"} /\ tried => error = "EPROCPERM"

\* A process that is denied now was so before: it has not executed another program,
\* ended, or had a read fail for another reason.
LEMMA StillDenied ==
  ASSUME TypeInv, [Next]_vars, Denied'
  PROVE  Denied /\ image' = image /\ faults' = faults /\ program' = program
<1> USE DEF Denied, TypeInv, Is, Running, Ended, program, Child, Perm
<1>1. target' = target
  BY DEF Next, Run, Process, Attempt, GiveUp, TimeOut, OpenMaps, ReadMaps, CheckMaps, VersionOK,
         VersionFails, Deref, ScanFinds, ScanFails, ScanCrashes, Exec, ComeUp, Exit, Tick, Done,
         vars, process
<1>2. faults' = faults
  <2>1. faults' = faults \/ faults' = faults + 1
    BY DEF Next, Run, Process, Attempt, GiveUp, TimeOut, OpenMaps, ReadMaps, CheckMaps, VersionOK,
           VersionFails, Deref, ScanFinds, ScanFails, ScanCrashes, Exec, ComeUp, Exit, Tick, Done,
           vars, process, Fault
  <2> QED
    BY <2>1
<1>3. image' = image
  <2>1. CASE Exec
    BY <1>1, <2>1 DEF Exec
  <2>2. CASE Exit
    BY <2>2 DEF Exit
  <2>3. CASE ~Exec /\ ~Exit
    BY <2>3 DEF Next, Run, Process, Attempt, GiveUp, TimeOut, OpenMaps, ReadMaps, CheckMaps,
           VersionOK, VersionFails, Deref, ScanFinds, ScanFails, ScanCrashes, ComeUp, Tick, Done,
           vars, process
  <2> QED
    BY <2>1, <2>2, <2>3
<1> QED
  BY <1>1, <1>2, <1>3

\* Every step keeps that what fails is a read that is not permitted.
LEMMA NextDenied == TypeInv /\ DeniedInv /\ [Next]_vars => DeniedInv'
<1> SUFFICES ASSUME TypeInv, DeniedInv, [Next]_vars, Denied'
             PROVE  /\ pc' \in {"maps", "mapped"} => seen' = image'
                    /\ pc' \in {"mapped", "version"} => path' = image'
                    /\ pc' = "scan_last" => ~tried'
                    /\ pc' \in {"loop", "failed"} /\ tried' => error' = "EPROCPERM"
  BY DEF DeniedInv
<1>1. Denied /\ image' = image /\ faults' = faults
  BY StillDenied
<1>2. /\ Running /\ ~Child /\ Perm = "maps" /\ faults \in Nat
      /\ program[image].python /\ program[image].named
  BY <1>1 DEF Denied, Is, TypeInv
<1>3. ReadError = "EPROCPERM" /\ ~Fault /\ \A address : ~Readable(address)
  BY <1>1, <1>2 DEF ReadError, Fault, Readable
<1> USE <1>1, <1>2, <1>3 DEF DeniedInv
<1>4. CASE Attempt \/ GiveUp \/ TimeOut
  BY <1>4 DEF Attempt, GiveUp, TimeOut, Fails, found
<1>5. CASE OpenMaps \/ ReadMaps \/ CheckMaps
  BY <1>5 DEF OpenMaps, ReadMaps, CheckMaps, Again, Is, found
<1>6. CASE VersionOK \/ VersionFails
  BY <1>6 DEF VersionOK, VersionFails, Again, found
<1>7. CASE Deref
  BY <1>7 DEF Deref, Again, found
<1>8. CASE ScanFinds \/ ScanFails \/ ScanCrashes
  <2>1. CASE ScanFinds \/ ScanCrashes
    BY <2>1 DEF ScanFinds, ScanCrashes
  <2>2. CASE ScanFails /\ pc = "scan_last"
    BY <2>2 DEF ScanFails, Fails
  <2>3. CASE ScanFails /\ pc # "scan_last"
    <3>1. pc' = "loop" /\ error' = IF Readable(bss) THEN "EPROC" ELSE ReadError
      BY <2>3 DEF ScanFails, Again
    <3> QED
      BY <3>1
  <2> QED
    BY <1>8, <2>1, <2>2, <2>3
<1>9. CASE Process \/ (~Final /\ Tick)
  BY <1>9 DEF Process, Exec, ComeUp, Exit, Tick, found
<1>10. CASE UNCHANGED vars
  BY <1>10 DEF vars
<1> QED
  BY <1>4, <1>5, <1>6, <1>7, <1>8, <1>9, <1>10 DEF Next, Run, Done

\* A Python process whose maps can be read and whose memory cannot is reported as one
\* that needs more permissions, if there was time for an attempt: whatever its binaries
\* tell, and whenever the timer expires.
THEOREM PermissionCorrect == Spec => []PermissionReported
<1>1. Init => DeniedInv
  BY DEF Init, DeniedInv
<1>2. DeniedInv => PermissionReported
  BY DEF DeniedInv, Denied, PermissionReported
<1>3. Inv => TypeInv
  BY DEF Inv
<1> QED
  BY <1>1, <1>2, <1>3, InitInv, NextInv, NextDenied, PTL DEF Spec

-------------------------------------------------------------------------------
(* The descriptors of versions. *)

\* Every descriptor in use has the version of a process that uses it, ...
DescriptorInv ==
  /\ met \subseteq Versions /\ \A v \in met : v[1] = 3
  /\ written \in [Minors -> Nat \X (0..255)]
  /\ \A v \in met : written[Descriptor(v)] \in met /\ Descriptor(written[Descriptor(v)]) = Descriptor(v)

\* Every version has a descriptor.
LEMMA DescriptorType == ASSUME NEW v \in Nat \X (0..255) PROVE Descriptor(v) \in Minors
BY SMT DEF Descriptor, Minors

\* Giving one more process a descriptor keeps that.
LEMMA VersionsInvariant == VersionSpec => []DescriptorInv
<1>1. VersionInit => DescriptorInv
  BY DEF VersionInit, DescriptorInv, Minors
<1>2. DescriptorInv /\ [VersionNext]_<<written, met, ended>> => DescriptorInv'
  <2> SUFFICES ASSUME DescriptorInv, [VersionNext]_<<written, met, ended>> PROVE DescriptorInv'
    OBVIOUS
  <2>1. CASE UNCHANGED <<written, met, ended>>
    BY <2>1 DEF DescriptorInv
  <2>2. CASE VersionNext
    <3> PICK v \in Versions : get_version_descriptor(v)
      BY <2>2 DEF VersionNext
    <3>1. CASE v[1] # 3
      BY <3>1 DEF get_version_descriptor, DescriptorInv
    <3>2. CASE v[1] = 3
      <4>1. v \in Nat \X (0..255) /\ Descriptor(v) \in Minors
        BY VersionsAssumption, DescriptorType
      <4>2. written' = [written EXCEPT ![Descriptor(v)] = v] /\ met' = met \cup {v}
        BY <3>2 DEF get_version_descriptor
      <4>3. written' \in [Minors -> Nat \X (0..255)]
        BY <4>1, <4>2 DEF DescriptorInv
      <4>4. ASSUME NEW u \in met'
            PROVE  written'[Descriptor(u)] \in met' /\ Descriptor(written'[Descriptor(u)]) = Descriptor(u)
        <5>1. u \in Nat \X (0..255) /\ Descriptor(u) \in Minors
          BY <4>1, <4>2, VersionsAssumption, DescriptorType DEF DescriptorInv
        <5>2. CASE Descriptor(u) = Descriptor(v)
          BY <4>1, <4>2, <5>1, <5>2 DEF DescriptorInv
        <5>3. CASE Descriptor(u) # Descriptor(v)
          BY <4>1, <4>2, <5>1, <5>3 DEF DescriptorInv
        <5> QED
          BY <5>2, <5>3
      <4> QED
        BY <3>2, <4>2, <4>3, <4>4 DEF DescriptorInv
    <3> QED
      BY <3>1, <3>2
  <2> QED
    BY <2>1, <2>2
<1> QED
  BY <1>1, <1>2, PTL DEF VersionSpec

\* ... and two versions with one descriptor are told apart by nothing that Austin asks.
LEMMA SharedAlike ==
  ASSUME NEW v \in Nat \X (0..255), NEW w \in Nat \X (0..255), v[1] = 3, w[1] = 3,
         v[2] <= 12, w[2] <= 12, Descriptor(v) = Descriptor(w)
  PROVE  /\ \A m \in 9..12 : V_MIN(w, m) = V_MIN(v, m)
         /\ \A m \in {8, 11} : V_MAX(w, m) = V_MAX(v, m)
         /\ V_EQ(w, 11) = V_EQ(v, 11)
<1>1. v[2] = w[2] \/ (v[2] <= 8 /\ w[2] <= 8)
  <2>1. ASSUME NEW u \in Nat \X (0..255), u[2] <= 12
        PROVE  IF u[2] <= 8 THEN Descriptor(u) = 8 ELSE Descriptor(u) = u[2]
    BY <2>1 DEF Descriptor, Minors
  <2>2. v[2] \in Int /\ w[2] \in Int
    OBVIOUS
  <2> QED
    BY <2>1, <2>2
<1>2. \A m \in 9..12 : V_MIN(w, m) <=> V_MIN(v, m)
  BY <1>1 DEF V_MIN, Packed
<1>3. \A m \in {8, 11} : V_MAX(w, m) <=> V_MAX(v, m)
  BY <1>1 DEF V_MAX, Packed
<1>4. V_EQ(w, 11) <=> V_EQ(v, 11)
  BY <1>1 DEF V_EQ, Packed
<1>5. \A m : V_MIN(v, m) \in BOOLEAN /\ V_MIN(w, m) \in BOOLEAN /\ V_MAX(v, m) \in BOOLEAN /\ V_MAX(w, m) \in BOOLEAN
             /\ V_EQ(v, m) \in BOOLEAN /\ V_EQ(w, m) \in BOOLEAN
  BY DEF V_MIN, V_MAX, V_EQ
<1> QED
  BY <1>2, <1>3, <1>4, <1>5

\* A descriptor has every field that is used for a version it is for.
LEMMA FieldsThere ==
  ASSUME NEW v \in Nat \X (0..255), v[1] = 3, v[2] <= 12
  PROVE  FieldsUsed(v) \subseteq Fields(Descriptor(v))
<1>1. V_MIN(v, 9) <=> v[2] >= 9
  BY DEF V_MIN, Packed
<1>2. V_MAX(v, 8) <=> v[2] <= 8
  BY DEF V_MAX, Packed
<1>3. V_MIN(v, 11) <=> v[2] >= 11
  BY DEF V_MIN, Packed
<1>4. V_EQ(v, 11) <=> v[2] = 11
  BY DEF V_EQ, Packed
<1>5. V_MIN(v, 12) <=> v[2] = 12
  BY DEF V_MIN, Packed
<1>6. CASE v[2] <= 8
  <2>1. Descriptor(v) = 8
    BY <1>6 DEF Descriptor, Minors
  <2> QED
    BY <1>1, <1>2, <1>3, <1>4, <1>5, <1>6, <2>1 DEF FieldsRead, FieldsUsed, Fields
<1>7. CASE v[2] > 8
  <2>1. Descriptor(v) = v[2] /\ v[2] \in 9..12
    BY <1>7 DEF Descriptor, Minors
  <2> DEFINE m == v[2]
  <2> HIDE DEF m
  <2>2. FieldsUsed(v) \subseteq Fields(m)
    <3>1. (V_MIN(v, 9) <=> m >= 9) /\ (V_MAX(v, 8) <=> m <= 8) /\ (V_MIN(v, 11) <=> m >= 11)
          /\ (V_EQ(v, 11) <=> m = 11) /\ (V_MIN(v, 12) <=> m = 12) /\ m \in {9, 10, 11, 12}
      BY <1>1, <1>2, <1>3, <1>4, <1>5, <2>1 DEF m
    <3>2. CASE m = 9
      BY <3>1, <3>2 DEF FieldsRead, FieldsUsed, Fields
    <3>3. CASE m = 10
      BY <3>1, <3>3 DEF FieldsRead, FieldsUsed, Fields
    <3>4. CASE m = 11
      BY <3>1, <3>4 DEF FieldsRead, FieldsUsed, Fields
    <3>5. CASE m = 12
      BY <3>1, <3>5 DEF FieldsRead, FieldsUsed, Fields
    <3> QED
      BY <3>1, <3>2, <3>3, <3>4, <3>5
  <2> QED
    BY <2>1, <2>2 DEF m
<1> QED
  BY <1>6, <1>7

\* Whatever versions the processes have and in whatever order they were met, the descriptor
\* of a process serves it, though another process may have written its own version in it.
THEOREM DescriptorsCorrect == VersionSpec => []DescriptorsServe
<1>1. DescriptorInv => DescriptorsServe
  <2> SUFFICES ASSUME DescriptorInv, \A v \in met : v[2] <= 12, NEW v \in met
               PROVE  LET shared == written[Descriptor(v)]
                      IN  /\ FieldsUsed(shared) \subseteq Fields(Descriptor(v))
                          /\ FieldsRead(shared) = FieldsRead(v)
                          /\ \A m \in 9..12 : V_MIN(shared, m) = V_MIN(v, m)
                          /\ V_MAX(shared, 11) = V_MAX(v, 11)
    BY DEF DescriptorsServe
  <2> DEFINE w == written[Descriptor(v)]
  <2>1. v \in Nat \X (0..255) /\ w \in Nat \X (0..255) /\ v[1] = 3 /\ w[1] = 3 /\ v[2] <= 12 /\ w[2] <= 12
        /\ Descriptor(w) = Descriptor(v)
    BY VersionsAssumption DEF DescriptorInv
  <2> HIDE DEF w
  <2>2. /\ \A m \in 9..12 : V_MIN(w, m) = V_MIN(v, m)
        /\ \A m \in {8, 11} : V_MAX(w, m) = V_MAX(v, m)
        /\ V_EQ(w, 11) = V_EQ(v, 11)
    BY <2>1, SharedAlike
  <2>3. FieldsRead(w) = FieldsRead(v)
    <3>1. V_MIN(w, 9) = V_MIN(v, 9) /\ V_MIN(w, 11) = V_MIN(v, 11) /\ V_MIN(w, 12) = V_MIN(v, 12)
          /\ V_MAX(w, 8) = V_MAX(v, 8)
      BY <2>2
    <3> QED
      BY <2>2, <3>1, Zenon DEF FieldsRead
  <2>4. FieldsUsed(w) \subseteq Fields(Descriptor(v))
    BY <2>1, <2>3, FieldsThere DEF FieldsUsed
  <2> QED
    BY <2>2, <2>3, <2>4 DEF w
<1> QED
  BY <1>1, VersionsInvariant, PTL

-------------------------------------------------------------------------------
(* The statistics. *)

\* A set of naturals that is not empty has a least element.
LEMMA Least == ASSUME NEW S \in SUBSET Nat, S # {} PROVE \E m \in S : \A n \in S : m <= n
<1> DEFINE R == {ss \in Nat \X Nat : ss[1] < ss[2]}
<1>1. IsWellFoundedOn(R, Nat)
  BY NatLessThanWellFounded DEF OpToRel
<1>2. \A n, m \in Nat : n < m => <<n, m>> \in R
  OBVIOUS
<1> HIDE DEF R
<1>3. \E m \in S : \A n \in S : ~(<<n, m>> \in R)
  BY <1>1, WFMin
<1>4. PICK m \in S : \A n \in S : ~(<<n, m>> \in R)
  BY <1>3
<1>5. \A n \in S : ~(n < m)
  BY <1>2, <1>4
<1> QED
  BY <1>5

\* The counters are numbers, ...
Counters ==
  /\ sample_cnt \in Nat /\ error_cnt \in Nat /\ long_cnt \in Nat
  /\ min_sampling_time \in Nat /\ max_sampling_time \in Nat /\ avg_sampling_time \in Nat

\* The samples that took long, and those with an error.
Long  == {s \in Samples : s.d > t_sampling_interval}
Wrong == {s \in Samples : s.error}

\* The number of samples of a set.
Numbered(set) == Cardinality({i \in 1..Len(samples) : samples[i] \in set})
\* No duration was a tick longer when it was evaluated again.
Exact == \A i \in 1..Len(samples) : samples[i].tick > 5

\* ... every sample, every long one and every error was counted, ...
Counts ==
  /\ sample_cnt = Len(samples)
  /\ long_cnt = Numbered(Long) /\ error_cnt = Numbered(Wrong)
\* ... the least duration is that of a sample and no sample's is less, ...
Shortest ==
  /\ samples = <<>> => min_sampling_time = ULONG_MAX
  /\ samples # <<>> => \E i \in 1..Len(samples) : samples[i].d <= min_sampling_time
  /\ \A i \in 1..Len(samples) : min_sampling_time <= samples[i].d + 1
  /\ Exact => \A i \in 1..Len(samples) : min_sampling_time <= samples[i].d
\* ... the greatest is that of a sample; without a tick none is greater, unless the first
\* sample was the longest, ...
Longest ==
  /\ samples = <<>> => max_sampling_time = 0
  /\ samples # <<>> => \E i \in 1..Len(samples) : max_sampling_time <= samples[i].d + 1
  /\ Exact /\ samples # <<>> => \E i \in 1..Len(samples) : max_sampling_time <= samples[i].d
  /\ Exact => \/ \A i \in 1..Len(samples) : samples[i].d <= max_sampling_time
              \/ \A i \in 2..Len(samples) : samples[i].d < samples[1].d
\* ... and the sum is between those of the least and the greatest duration.
Average ==
  \A n \in Nat :
    /\ (\A i \in 1..Len(samples) : n <= samples[i].d) => n * Len(samples) <= avg_sampling_time
    /\ (\A i \in 1..Len(samples) : samples[i].d <= n) =>
         /\ avg_sampling_time <= (n + 1) * Len(samples)
         /\ Exact => avg_sampling_time <= n * Len(samples)

\* The whole.
StatsInv ==
  /\ Counters /\ samples \in Seq(Samples)
  /\ Counts /\ Shortest /\ Longest /\ Average

\* What a sample does to the counters: a2 to a5 are its duration as it is evaluated the
\* second to the fifth time.
LEMMA SampledAs ==
  ASSUME Counters, NEW s \in Samples, Sampled(s)
  PROVE  \E a2, a3, a4, a5 \in Nat :
           LET shorter == min_sampling_time > a2
               longer  == ~shorter /\ max_sampling_time < a3
           IN  /\ s.d <= a2 /\ a2 <= a3 /\ a3 <= a4 /\ a4 <= a5 /\ a5 <= s.d + 1
               /\ s.tick > 5 => a5 = s.d
               /\ sample_cnt' = sample_cnt + 1
               /\ error_cnt' = error_cnt + (IF s \in Wrong THEN 1 ELSE 0)
               /\ long_cnt' = long_cnt + (IF s \in Long THEN 1 ELSE 0)
               /\ min_sampling_time' = IF shorter THEN a3 ELSE min_sampling_time
               /\ max_sampling_time' = IF longer THEN a4 ELSE max_sampling_time
               /\ avg_sampling_time' = avg_sampling_time + (IF longer THEN a5 ELSE a4)
<1> DEFINE a(n) == stopwatch_duration(s, n)
           shorter == min_sampling_time > a(2)
           longer  == ~shorter /\ max_sampling_time < a(3)
<1>1. s.d \in Nat /\ s.tick \in Nat \ {0, 1} /\ s.error \in BOOLEAN
  BY StatsAssumption
<1>2. \A n \in 1..5 : a(n) \in Nat /\ s.d <= a(n) /\ a(n) <= s.d + 1 /\ (s.tick > 5 => a(n) = s.d)
  BY <1>1 DEF stopwatch_duration
<1>3. a(1) = s.d /\ a(2) <= a(3) /\ a(3) <= a(4) /\ a(4) <= a(5)
  BY <1>1 DEF stopwatch_duration
<1>4. /\ sample_cnt' = sample_cnt + 1
      /\ error_cnt' = error_cnt + (IF s.error THEN 1 ELSE 0)
      /\ long_cnt' = long_cnt + (IF a(1) > t_sampling_interval THEN 1 ELSE 0)
      /\ min_sampling_time' = (IF shorter THEN a(3) ELSE min_sampling_time)
      /\ max_sampling_time' = (IF longer THEN a(4) ELSE max_sampling_time)
      /\ avg_sampling_time' = avg_sampling_time + a(IF longer THEN 5 ELSE 4)
  BY Zenon DEF Sampled, stats_check_duration
<1>5. (a(1) > t_sampling_interval <=> s \in Long) /\ (s.error <=> s \in Wrong)
  BY <1>1, <1>3 DEF Long, Wrong
<1>6. /\ (IF a(1) > t_sampling_interval THEN 1 ELSE 0) = (IF s \in Long THEN 1 ELSE 0)
      /\ (IF s.error THEN 1 ELSE 0) = (IF s \in Wrong THEN 1 ELSE 0)
  BY <1>5
<1>7. a(IF longer THEN 5 ELSE 4) = IF longer THEN a(5) ELSE a(4)
  OBVIOUS
<1>8. /\ s.d <= a(2) /\ a(2) <= a(3) /\ a(3) <= a(4) /\ a(4) <= a(5) /\ a(5) <= s.d + 1
      /\ s.tick > 5 => a(5) = s.d
      /\ a(2) \in Nat /\ a(3) \in Nat /\ a(4) \in Nat /\ a(5) \in Nat
  BY <1>2, <1>3
<1> HIDE DEF a
<1> QED
  BY <1>4, <1>6, <1>7, <1>8

\* A sample that is added is one more in each set it is in.
LEMMA CountAppend ==
  ASSUME NEW q \in Seq(Samples), NEW s \in Samples, NEW set
  PROVE  Cardinality({i \in 1..Len(Append(q, s)) : Append(q, s)[i] \in set})
           = Cardinality({i \in 1..Len(q) : q[i] \in set}) + (IF s \in set THEN 1 ELSE 0)
<1> DEFINE N == Len(q)
           C == {i \in 1..N : q[i] \in set}
           D == {i \in 1..Len(Append(q, s)) : Append(q, s)[i] \in set}
<1>1. N \in Nat /\ Len(Append(q, s)) = N + 1 /\ Append(q, s)[N + 1] = s
      /\ \A i \in 1..N : Append(q, s)[i] = q[i]
  BY AppendProperties
<1>2. IsFiniteSet(C) /\ N + 1 \notin C
  <2>1. IsFiniteSet(1..N)
    <3>1. 1 \in Int /\ N \in Int
      BY <1>1
    <3> HIDE DEF N
    <3> QED
      BY <3>1, FS_Interval
  <2>2. C \subseteq 1..N
    OBVIOUS
  <2> QED
    BY <1>1, <2>1, <2>2, FS_Subset
<1>3. CASE s \in set
  <2>1. D = C \cup {N + 1}
    BY <1>1, <1>3
  <2>2. Cardinality(D) = Cardinality(C) + 1
    <3> HIDE DEF C, D, N
    <3> QED
      BY <1>2, <2>1, FS_AddElement
  <2> QED
    BY <1>3, <2>2
<1>4. CASE s \notin set
  <2>1. D = C
    BY <1>1, <1>4
  <2>2. Cardinality(C) \in Nat
    BY <1>2, FS_CardinalityType
  <2> QED
    <3> DEFINE c == Cardinality(C)
    <3>1. Cardinality(D) = c /\ c \in Nat
      BY <2>1, <2>2
    <3> HIDE DEF c, D
    <3>2. Cardinality(D) = c + (IF s \in set THEN 1 ELSE 0)
      BY <1>4, <3>1
    <3> QED
      BY <3>2 DEF c, D
<1> QED
  BY <1>3, <1>4

\* A sample more.
LEMMA StatsStep ==
  ASSUME StatsInv, NEW s \in Samples, Sampled(s), samples' = Append(samples, s)
  PROVE  StatsInv'
<1> DEFINE N == Len(samples)
<1>1. /\ N \in Nat /\ Len(samples') = N + 1 /\ samples' \in Seq(Samples) /\ samples'[N + 1] = s
      /\ \A i \in 1..N : samples'[i] = samples[i]
      /\ samples' # <<>> /\ (samples = <<>> <=> N = 0)
  BY AppendProperties, EmptySeq DEF StatsInv
<1>2. /\ \A i \in 1..N : samples[i].d \in Nat /\ samples[i].tick \in Nat
      /\ s.d \in Nat /\ s.tick \in Nat /\ s.d + 1 < ULONG_MAX /\ ULONG_MAX \in Nat
  BY StatsAssumption DEF StatsInv
<1>3. Counters
  BY DEF StatsInv
<1>4. PICK a2 \in Nat, a3 \in Nat, a4 \in Nat, a5 \in Nat :
        LET shorter == min_sampling_time > a2
            longer  == ~shorter /\ max_sampling_time < a3
        IN  /\ s.d <= a2 /\ a2 <= a3 /\ a3 <= a4 /\ a4 <= a5 /\ a5 <= s.d + 1
            /\ s.tick > 5 => a5 = s.d
            /\ sample_cnt' = sample_cnt + 1
            /\ error_cnt' = error_cnt + (IF s \in Wrong THEN 1 ELSE 0)
            /\ long_cnt' = long_cnt + (IF s \in Long THEN 1 ELSE 0)
            /\ min_sampling_time' = IF shorter THEN a3 ELSE min_sampling_time
            /\ max_sampling_time' = IF longer THEN a4 ELSE max_sampling_time
            /\ avg_sampling_time' = avg_sampling_time + (IF longer THEN a5 ELSE a4)
  BY <1>3, SampledAs, Zenon
<1> DEFINE shorter == min_sampling_time > a2
           longer  == ~shorter /\ max_sampling_time < a3
<1>5. /\ s.d <= a2 /\ a2 <= a3 /\ a3 <= a4 /\ a4 <= a5 /\ a5 <= s.d + 1
      /\ s.tick > 5 => a5 = s.d
  BY <1>4
<1>7. min_sampling_time \in Nat /\ max_sampling_time \in Nat /\ avg_sampling_time \in Nat
  BY <1>3 DEF Counters
<1>6. /\ sample_cnt' = sample_cnt + 1
      /\ error_cnt' = error_cnt + (IF s \in Wrong THEN 1 ELSE 0)
      /\ long_cnt' = long_cnt + (IF s \in Long THEN 1 ELSE 0)
      /\ min_sampling_time' = (IF shorter THEN a3 ELSE min_sampling_time)
      /\ max_sampling_time' = (IF longer THEN a4 ELSE max_sampling_time)
      /\ avg_sampling_time' = avg_sampling_time + (IF longer THEN a5 ELSE a4)
      /\ Counters'
  <2>1. /\ sample_cnt' = sample_cnt + 1
        /\ error_cnt' = error_cnt + (IF s \in Wrong THEN 1 ELSE 0)
        /\ long_cnt' = long_cnt + (IF s \in Long THEN 1 ELSE 0)
        /\ min_sampling_time' = (IF shorter THEN a3 ELSE min_sampling_time)
        /\ max_sampling_time' = (IF longer THEN a4 ELSE max_sampling_time)
        /\ avg_sampling_time' = avg_sampling_time + (IF longer THEN a5 ELSE a4)
    BY <1>4
  <2>2. Counters'
    BY <1>3, <2>1 DEF Counters
  <2> QED
    BY <2>1, <2>2
<1>8. Exact' => Exact /\ s.tick > 5
  BY <1>1 DEF Exact
<1>9. Counts'
  <2>1. \A set : Cardinality({i \in 1..Len(samples') : samples'[i] \in set})
                   = Cardinality({i \in 1..N : samples[i] \in set}) + (IF s \in set THEN 1 ELSE 0)
    BY CountAppend DEF StatsInv
  <2>2. Numbered(Long)' = Numbered(Long) + (IF s \in Long THEN 1 ELSE 0)
    BY <2>1, Zenon DEF Numbered, Long
  <2>3. Numbered(Wrong)' = Numbered(Wrong) + (IF s \in Wrong THEN 1 ELSE 0)
    BY <2>1, Zenon DEF Numbered, Wrong
  <2>4. sample_cnt = N /\ long_cnt = Numbered(Long) /\ error_cnt = Numbered(Wrong)
    BY DEF StatsInv, Counts
  <2>5. sample_cnt' = Len(samples')
    BY <1>1, <1>6, <2>4
  <2>6. long_cnt' = Numbered(Long)' /\ error_cnt' = Numbered(Wrong)'
    BY <1>6, <2>2, <2>3, <2>4, Zenon
  <2> QED
    BY <2>5, <2>6 DEF Counts
<1>13. N = 0 => shorter
  BY <1>1, <1>2, <1>5 DEF StatsInv, Shortest
<1>10. Shortest'
  <2>1. Shortest
    BY DEF StatsInv
  <2>2. N = 0 => shorter
    BY <1>13
  <2>3. \E i \in 1..(N + 1) : samples'[i].d <= min_sampling_time'
    <3>1. CASE shorter
      <4>1. samples'[N + 1].d <= min_sampling_time' /\ N + 1 \in 1..(N + 1)
        BY <1>1, <1>2, <1>5, <1>6, <3>1
      <4> QED
        BY <4>1
    <3>2. CASE ~shorter
      <4>1. N > 0 /\ N \in 1..N
        BY <1>1, <2>2, <3>2
      <4>2. PICK i \in 1..N : samples[i].d <= min_sampling_time
        BY <1>1, <2>1, <4>1 DEF Shortest
      <4>3. samples'[i].d <= min_sampling_time' /\ i \in 1..(N + 1)
        BY <1>1, <1>6, <3>2, <4>2
      <4> QED
        BY <4>3
    <3> QED
      BY <3>1, <3>2
  <2>4. ASSUME NEW i \in 1..(N + 1) PROVE min_sampling_time' <= samples'[i].d + 1
    <3>1. CASE i = N + 1
      BY <1>1, <1>2, <1>5, <1>6, <1>7, <3>1
    <3>2. CASE i \in 1..N
      <4>1. min_sampling_time <= samples[i].d + 1 /\ samples'[i] = samples[i] /\ samples[i].d \in Nat
        BY <1>1, <1>2, <2>1, <3>2 DEF Shortest
      <4>2. min_sampling_time' <= min_sampling_time
        BY <1>2, <1>5, <1>6, <1>7
      <4> QED
        BY <1>6, <1>7, <4>1, <4>2
    <3> QED
      BY <1>1, <3>1, <3>2
  <2>5. ASSUME Exact', NEW i \in 1..(N + 1) PROVE min_sampling_time' <= samples'[i].d
    <3>0. a3 = s.d /\ a2 = s.d
      BY <1>2, <1>5, <1>8, <2>5
    <3>1. CASE i = N + 1
      BY <1>1, <1>2, <1>6, <1>7, <3>0, <3>1
    <3>2. CASE i \in 1..N
      <4>1. min_sampling_time <= samples[i].d /\ samples'[i] = samples[i] /\ samples[i].d \in Nat
        BY <1>1, <1>2, <1>8, <2>1, <2>5, <3>2 DEF Shortest
      <4>2. min_sampling_time' <= min_sampling_time
        BY <1>2, <1>5, <1>6, <1>7
      <4> QED
        BY <1>6, <1>7, <4>1, <4>2
    <3> QED
      BY <1>1, <3>1, <3>2
  <2> QED
    BY <1>1, <2>3, <2>4, <2>5 DEF Shortest
<1>11. Longest'
  <2>1. Longest
    BY DEF StatsInv
  <2>2. \E i \in 1..(N + 1) : max_sampling_time' <= samples'[i].d + 1
    <3>1. CASE longer
      BY <1>1, <1>2, <1>5, <1>6, <3>1
    <3>2. CASE ~longer /\ N = 0
      BY <1>1, <1>2, <1>6, <2>1, <3>2 DEF Longest
    <3>3. CASE ~longer /\ N > 0
      <4>1. PICK i \in 1..N : max_sampling_time <= samples[i].d + 1
        BY <1>1, <2>1, <3>3 DEF Longest
      <4>2. max_sampling_time' <= samples'[i].d + 1 /\ i \in 1..(N + 1)
        BY <1>1, <1>6, <3>3, <4>1
      <4> QED
        BY <4>2
    <3> QED
      BY <1>1, <3>1, <3>2, <3>3
  <2>3. ASSUME Exact' PROVE \E i \in 1..(N + 1) : max_sampling_time' <= samples'[i].d
    <3>0. a3 = s.d /\ a4 = s.d
      BY <1>2, <1>5, <1>8, <2>3
    <3>1. CASE longer
      BY <1>1, <1>2, <1>6, <3>0, <3>1
    <3>2. CASE ~longer /\ N = 0
      BY <1>1, <1>2, <1>6, <2>1, <3>2 DEF Longest
    <3>3. CASE ~longer /\ N > 0
      <4>1. PICK i \in 1..N : max_sampling_time <= samples[i].d
        BY <1>1, <1>8, <2>1, <2>3, <3>3 DEF Longest
      <4>2. max_sampling_time' <= samples'[i].d /\ i \in 1..(N + 1)
        BY <1>1, <1>6, <3>3, <4>1
      <4> QED
        BY <4>2
    <3> QED
      BY <1>1, <3>1, <3>2, <3>3
  <2>4. ASSUME Exact'
        PROVE  \/ \A i \in 1..(N + 1) : samples'[i].d <= max_sampling_time'
               \/ \A i \in 2..(N + 1) : samples'[i].d < samples'[1].d
    <3>0. a2 = s.d /\ a3 = s.d /\ a4 = s.d
      BY <1>2, <1>5, <1>8, <2>4
    <3>1. CASE N = 0
      BY <1>1, <3>1
    <3> SUFFICES ASSUME N > 0 PROVE \/ \A i \in 1..(N + 1) : samples'[i].d <= max_sampling_time'
                                    \/ \A i \in 2..(N + 1) : samples'[i].d < samples'[1].d
      BY <1>1, <3>1
    <3>2. 1 \in 1..N /\ samples'[1] = samples[1] /\ samples[1].d \in Nat
      BY <1>1, <1>2
    <3>3. PICK m \in 1..N : samples[m].d <= min_sampling_time
      BY <1>1, <3>2 DEF StatsInv, Shortest
    <3>4. CASE \A i \in 1..N : samples[i].d <= max_sampling_time
      \* The longest is known, and what is shorter than the shortest is not longer.
      <4>1. s.d <= max_sampling_time' /\ max_sampling_time <= max_sampling_time'
        <5>1. shorter => s.d < min_sampling_time /\ max_sampling_time = max_sampling_time'
          BY <1>2, <1>6, <3>0
        <5>2. min_sampling_time <= samples[1].d /\ samples[1].d <= max_sampling_time
          BY <1>8, <2>4, <3>2, <3>4 DEF StatsInv, Shortest
        <5>3. CASE shorter
          BY <1>2, <1>7, <3>2, <5>1, <5>2, <5>3
        <5>4. CASE ~shorter
          BY <1>2, <1>6, <1>7, <3>0, <5>4
        <5> QED
          BY <5>3, <5>4
      <4>2. \A i \in 1..(N + 1) : samples'[i].d <= max_sampling_time'
        <5> TAKE i \in 1..(N + 1)
        <5>1. CASE i = N + 1
          BY <1>1, <4>1, <5>1
        <5>2. CASE i \in 1..N
          <6>1. samples'[i].d = samples[i].d /\ samples[i].d \in Nat /\ samples[i].d <= max_sampling_time
            BY <1>1, <1>2, <3>4, <5>2
          <6> QED
            BY <1>6, <1>7, <4>1, <6>1
        <5> QED
          BY <1>1, <5>1, <5>2
      <4> QED
        BY <4>2
    <3>5. CASE \A i \in 2..N : samples[i].d < samples[1].d
      <4>1. CASE s.d < samples[1].d
        <5>1. \A i \in 2..(N + 1) : samples'[i].d < samples'[1].d
          BY <1>1, <3>2, <3>5, <4>1
        <5> QED
          BY <5>1
      <4>2. CASE samples[1].d <= s.d
        \* It is at least as long as all before it.
        <5>1. ~shorter
          <6>1. min_sampling_time <= samples[1].d
            BY <1>8, <2>4, <3>2 DEF StatsInv, Shortest
          <6> QED
            BY <1>2, <1>7, <3>0, <3>2, <4>2, <6>1
        <5>2. s.d <= max_sampling_time'
          BY <1>2, <1>6, <1>7, <3>0, <5>1
        <5>3. \A i \in 1..(N + 1) : samples'[i].d <= s.d
          <6> TAKE i \in 1..(N + 1)
          <6>1. CASE i = N + 1
            BY <1>1, <1>2, <6>1
          <6>2. CASE i \in 1..N
            <7>1. samples'[i].d = samples[i].d /\ samples[i].d \in Nat /\ samples[i].d <= samples[1].d
              BY <1>1, <1>2, <3>5, <6>2
            <7> QED
              BY <1>2, <3>2, <4>2, <7>1
          <6> QED
            BY <1>1, <6>1, <6>2
        <5>4. \A i \in 1..(N + 1) : samples'[i].d <= max_sampling_time'
          <6> TAKE i \in 1..(N + 1)
          <6>1. samples'[i].d \in Nat /\ samples'[i].d <= s.d /\ max_sampling_time' \in Nat
            <7>1. samples'[i].d \in Nat
              BY <1>1, <1>2
            <7> QED
              BY <1>6, <5>3, <7>1 DEF Counters
          <6> QED
            BY <1>2, <5>2, <6>1
        <5> QED
          BY <5>4
      <4>3. s.d < samples[1].d \/ samples[1].d <= s.d
        BY <1>2, <3>2
      <4> QED
        BY <4>1, <4>2, <4>3
    <3>6. \/ \A i \in 1..N : samples[i].d <= max_sampling_time
          \/ \A i \in 2..N : samples[i].d < samples[1].d
      BY <1>8, <2>1, <2>4 DEF Longest
    <3> QED
      BY <3>4, <3>5, <3>6
  <2> QED
    BY <1>1, <2>2, <2>3, <2>4 DEF Longest
<1>12. Average'
  <2>1. Average
    BY DEF StatsInv
  <2> SUFFICES ASSUME NEW n \in Nat
               PROVE  /\ (\A i \in 1..(N + 1) : n <= samples'[i].d) => n * (N + 1) <= avg_sampling_time'
                      /\ (\A i \in 1..(N + 1) : samples'[i].d <= n) =>
                           /\ avg_sampling_time' <= (n + 1) * (N + 1)
                           /\ Exact' => avg_sampling_time' <= n * (N + 1)
    BY <1>1 DEF Average
  <2>2. PICK more \in Nat : avg_sampling_time' = avg_sampling_time + more /\ s.d <= more /\ more <= s.d + 1
                             /\ (s.tick > 5 => more = s.d)
    <3> DEFINE more == IF longer THEN a5 ELSE a4
    <3>1. avg_sampling_time' = avg_sampling_time + more
      BY <1>6
    <3>2. more \in {a4, a5}
      OBVIOUS
    <3> HIDE DEF more
    <3>3. more \in Nat /\ s.d <= more /\ more <= s.d + 1 /\ (s.tick > 5 => more = s.d)
      <4>1. s.d \in Nat
        BY <1>2
      <4> QED
        BY <1>5, <3>2, <4>1
    <3> QED
      BY <3>1, <3>3
  <2>3. n * (N + 1) = n * N + n /\ (n + 1) * (N + 1) = (n + 1) * N + n + 1 /\ n * N \in Nat /\ (n + 1) * N \in Nat
    BY <1>1
  <2>4. ASSUME \A i \in 1..(N + 1) : n <= samples'[i].d PROVE n * (N + 1) <= avg_sampling_time'
    <3>1. (\A i \in 1..N : n <= samples[i].d) /\ n <= s.d
      BY <1>1, <2>4
    <3> DEFINE x == n * N
    <3>2. x <= avg_sampling_time
      BY <2>1, <3>1 DEF Average
    <3>3. n * (N + 1) = x + n /\ x \in Nat
      BY <2>3
    <3> HIDE DEF x
    <3>4. x + n <= avg_sampling_time'
      BY <1>2, <1>7, <2>2, <3>1, <3>2, <3>3
    <3> QED
      BY <3>3, <3>4
  <2>5. ASSUME \A i \in 1..(N + 1) : samples'[i].d <= n
        PROVE  avg_sampling_time' <= (n + 1) * (N + 1) /\ (Exact' => avg_sampling_time' <= n * (N + 1))
    <3>1. (\A i \in 1..N : samples[i].d <= n) /\ s.d <= n
      BY <1>1, <2>5
    <3>2. avg_sampling_time <= (n + 1) * N /\ (Exact => avg_sampling_time <= n * N)
      BY <2>1, <3>1 DEF Average
    <3>3. avg_sampling_time' <= (n + 1) * (N + 1)
      BY <1>2, <1>7, <2>2, <2>3, <3>1, <3>2
    <3>4. ASSUME Exact' PROVE avg_sampling_time' <= n * (N + 1)
      BY <1>2, <1>7, <1>8, <2>2, <2>3, <3>1, <3>2, <3>4
    <3> QED
      BY <3>3, <3>4
  <2> QED
    BY <2>4, <2>5
<1> QED
  BY <1>1, <1>6, <1>9, <1>10, <1>11, <1>12 DEF StatsInv

\* Every sample keeps the invariant.
LEMMA StatsInvariant == StatsSpec => []StatsInv
<1>1. StatsInit => StatsInv
  <2> SUFFICES ASSUME StatsInit PROVE StatsInv
    OBVIOUS
  <2>1. samples = <<>> /\ samples \in Seq(Samples) /\ Len(samples) = 0 /\ 1..0 = {}
    BY DEF StatsInit
  <2>2. Counters /\ sample_cnt = 0 /\ long_cnt = 0 /\ error_cnt = 0 /\ min_sampling_time = ULONG_MAX
        /\ max_sampling_time = 0 /\ avg_sampling_time = 0
    BY StatsAssumption DEF StatsInit, stats_reset, Counters
  <2>3. Numbered(Long) = 0 /\ Numbered(Wrong) = 0
    <3>1. \A set : {i \in 1..Len(samples) : samples[i] \in set} = {}
      BY <2>1
    <3> QED
      BY <3>1, FS_EmptySet DEF Numbered
  <2>4. Counts /\ Shortest /\ Longest
    BY <2>1, <2>2, <2>3 DEF Counts, Shortest, Longest
  <2>5. Average
    BY <2>1, <2>2 DEF Average
  <2> QED
    BY <2>1, <2>2, <2>4, <2>5 DEF StatsInv
<1>2. StatsInv /\ [StatsNext]_<<sample_cnt, error_cnt, long_cnt, times, samples>> => StatsInv'
  <2> SUFFICES ASSUME StatsInv, [StatsNext]_<<sample_cnt, error_cnt, long_cnt, times, samples>> PROVE StatsInv'
    OBVIOUS
  <2>1. CASE StatsNext
    <3> PICK s \in Samples : Sampled(s) /\ samples' = Append(samples, s)
      BY <2>1 DEF StatsNext
    <3> QED
      BY StatsStep
  <2>2. CASE UNCHANGED <<sample_cnt, error_cnt, long_cnt, times, samples>>
    BY <2>2 DEF StatsInv, Counters, Counts, Numbered, Shortest, Longest, Average, Exact, times
  <2> QED
    BY <2>1, <2>2
<1> QED
  BY <1>1, <1>2, PTL DEF StatsSpec

\* A sum that lies between two multiples has its average between them.
LEMMA AverageBetween ==
  ASSUME NEW x \in Nat, NEW n \in Nat \ {0}, NEW lo \in Nat, NEW hi \in Nat
  PROVE  /\ x \div n \in Nat
         /\ lo * n <= x => lo <= x \div n
         /\ x <= hi * n => x \div n <= hi
<1> DEFINE q == x \div n
           r == x % n
<1>1. q \in Int /\ r \in 0..(n - 1) /\ x = n * q + r
  BY SMT
<1> HIDE DEF q, r
<1>2. q \in Nat
  <2> SUFFICES ASSUME q <= -1 PROVE FALSE
    BY <1>1
  <2>1. n * q <= -n
    BY <1>1
  <2> QED
    BY <1>1, <2>1
<1>3. ASSUME lo * n <= x PROVE lo <= q
  <2> SUFFICES ASSUME q + 1 <= lo PROVE FALSE
    BY <1>2
  <2>1. (q + 1) * n <= lo * n
    BY <1>2
  <2>2. (q + 1) * n = n * q + n
    BY <1>2
  <2> QED
    BY <1>1, <1>2, <1>3, <2>1, <2>2
<1>4. ASSUME x <= hi * n PROVE q <= hi
  <2> SUFFICES ASSUME hi + 1 <= q PROVE FALSE
    BY <1>2
  <2>1. (hi + 1) * n <= q * n
    BY <1>2
  <2>2. (hi + 1) * n = hi * n + n /\ q * n = n * q
    BY <1>2
  <2> QED
    BY <1>1, <1>2, <1>4, <2>1, <2>2
<1> QED
  BY <1>2, <1>3, <1>4 DEF q

\* The counts, the shortest, the longest and the average duration that are reported are
\* those of the samples, but for a first sample that took longest and for a clock that
\* goes on.
THEOREM StatisticsCorrect == StatsSpec => []StatisticsTold
<1>1. StatsInv => StatisticsTold
  <2> SUFFICES ASSUME StatsInv PROVE StatisticsTold
    OBVIOUS
  <2> DEFINE N == Len(samples)
             ds == {samples[i].d : i \in DOMAIN samples}
  <2>1. N \in Nat /\ DOMAIN samples = 1..N /\ sample_cnt = N /\ (samples = <<>> <=> N = 0)
    BY EmptySeq DEF StatsInv, Counts
  <2>2. CASE N = 0
    BY <2>1, <2>2 DEF StatisticsTold, stats_log_metrics
  <2>3. CASE N > 0
    <3>1. \A i \in 1..N : samples[i] \in Samples /\ samples[i].d \in Nat /\ samples[i].d < ULONG_MAX
      BY StatsAssumption DEF StatsInv
    <3>2. ds \in SUBSET Nat /\ samples[1].d \in ds /\ 1 \in 1..N
      BY <2>1, <2>3, <3>1
    <3>3. Min(ds) \in ds /\ \A n \in ds : Min(ds) <= n
      <4> HIDE DEF ds
      <4>1. \E m \in ds : \A n \in ds : m <= n
        BY <3>2, Least
      <4> QED
        BY <4>1, Zenon DEF Min
    <3>4. Max(ds) \in ds /\ \A n \in ds : Max(ds) >= n
      <4> DEFINE Over == {n \in Nat : \A m \in ds : m <= n}
      <4>1. ULONG_MAX \in Over
        BY <2>1, <3>1, StatsAssumption
      <4>2. PICK top \in Over : \A n \in Over : top <= n
        <5>1. Over \in SUBSET Nat /\ Over # {}
          BY <4>1
        <5> HIDE DEF Over
        <5> QED
          BY <5>1, Least
      <4>3. top \in ds
        <5> SUFFICES ASSUME top \notin ds PROVE FALSE
          OBVIOUS
        <5>1. \A m \in ds : m < top
          <6>1. ds \subseteq Nat /\ top \in Nat /\ \A m \in ds : m <= top
            BY <3>2, <4>2
          <6> HIDE DEF ds
          <6> QED
            BY <6>1
        <5>2. top - 1 \in Over
          <6> HIDE DEF ds
          <6>1. top \in Nat /\ samples[1].d \in Nat /\ samples[1].d < top
            BY <3>2, <5>1
          <6>2. \A m \in ds : m <= top - 1
            BY <3>2, <5>1, <6>1
          <6> QED
            BY <6>1, <6>2
        <5> QED
          BY <4>2, <5>2
      <4>4. \A n \in ds : top >= n
        BY <3>2, <4>2
      <4>5. \E m \in ds : \A n \in ds : m >= n
        BY <4>3, <4>4
      <4> HIDE DEF ds
      <4> QED
        BY <4>5, Zenon DEF Max
    <3> DEFINE lo == Min(ds)
               hi == Max(ds)
               r == stats_log_metrics
    <3>5. /\ lo \in Nat /\ hi \in Nat
          /\ \A i \in 1..N : lo <= samples[i].d /\ samples[i].d <= hi
          /\ \E i \in 1..N : samples[i].d = lo
          /\ \E i \in 1..N : samples[i].d = hi
      <4>1. \A i \in 1..N : samples[i].d \in ds
        BY <2>1
      <4>2. \A n \in ds : \E i \in 1..N : samples[i].d = n
        BY <2>1
      <4> HIDE DEF ds
      <4> QED
        BY <3>1, <3>2, <3>3, <3>4, <4>1, <4>2
    <3> HIDE DEF lo, hi
    <3>6. /\ r.min = min_sampling_time /\ r.max = max_sampling_time /\ r.avg = avg_sampling_time \div N
          /\ r.saturation = <<long_cnt, N>> /\ r.errors = <<error_cnt, N>>
      BY <2>1, <2>3 DEF stats_log_metrics
    <3>7. min_sampling_time \in Nat /\ max_sampling_time \in Nat /\ avg_sampling_time \in Nat
      BY DEF StatsInv, Counters
    <3>8. long_cnt = Quantify(DOMAIN samples, LAMBDA i : samples[i].d > t_sampling_interval)
      <4>1. {i \in 1..N : samples[i] \in Long} = {i \in DOMAIN samples : samples[i].d > t_sampling_interval}
        BY <2>1, <3>1 DEF Long
      <4> QED
        BY <4>1, Zenon DEF StatsInv, Counts, Numbered, Quantify
    <3>9. error_cnt = Quantify(DOMAIN samples, LAMBDA i : samples[i].error)
      <4>1. {i \in 1..N : samples[i] \in Wrong} = {i \in DOMAIN samples : samples[i].error}
        BY <2>1, <3>1, Zenon DEF Wrong
      <4> QED
        BY <4>1, Zenon DEF StatsInv, Counts, Numbered, Quantify
    <3>10. lo <= min_sampling_time /\ min_sampling_time <= lo + 1
      <4>1. PICK i \in 1..N : samples[i].d <= min_sampling_time
        BY <2>1, <2>3 DEF StatsInv, Shortest
      <4>2. PICK j \in 1..N : samples[j].d = lo
        BY <3>5
      <4>3. min_sampling_time <= samples[j].d + 1
        BY DEF StatsInv, Shortest
      <4>4. lo <= samples[i].d
        BY <3>5
      <4> QED
        BY <3>1, <3>5, <3>7, <4>1, <4>2, <4>3, <4>4
    <3>11. max_sampling_time <= hi + 1
      <4>1. PICK i \in 1..N : max_sampling_time <= samples[i].d + 1
        BY <2>1, <2>3 DEF StatsInv, Longest
      <4>2. samples[i].d <= hi
        BY <3>5
      <4> QED
        BY <3>1, <3>5, <3>7, <4>1, <4>2
    <3>12. r.avg \in lo..(hi + 1) /\ (Exact => r.avg <= hi)
      <4>1. lo * N <= avg_sampling_time /\ avg_sampling_time <= (hi + 1) * N
            /\ (Exact => avg_sampling_time <= hi * N)
        BY <3>5 DEF StatsInv, Average
      <4>2. hi + 1 \in Nat /\ N \in Nat \ {0}
        BY <2>1, <2>3, <3>5
      <4> HIDE DEF N
      <4>3. /\ avg_sampling_time \div N \in Nat
            /\ lo <= avg_sampling_time \div N /\ avg_sampling_time \div N <= hi + 1
        BY <3>5, <3>7, <4>1, <4>2, AverageBetween
      <4>4. Exact => avg_sampling_time \div N <= hi
        BY <3>5, <3>7, <4>1, <4>2, AverageBetween
      <4> QED
        BY <3>5, <3>6, <4>2, <4>3, <4>4
    <3>13. ASSUME Exact
           PROVE  /\ r.min = lo
                  /\ r.max = hi \/ \A i \in 2..N : samples[i].d < samples[1].d
      <4>1. min_sampling_time <= lo
        <5>1. PICK j \in 1..N : samples[j].d = lo
          BY <3>5
        <5> QED
          BY <3>13, <5>1 DEF StatsInv, Shortest
      <4>2. CASE \A i \in 1..N : samples[i].d <= max_sampling_time
        <5>1. PICK j \in 1..N : samples[j].d = hi
          BY <3>5
        <5>2. hi <= max_sampling_time
          BY <4>2, <5>1
        <5>3. PICK i \in 1..N : max_sampling_time <= samples[i].d
          BY <2>1, <2>3, <3>13 DEF StatsInv, Longest
        <5>4. samples[i].d <= hi
          BY <3>5
        <5>5. max_sampling_time = hi
          BY <3>1, <3>5, <3>7, <5>2, <5>3, <5>4
        <5> QED
          BY <3>5, <3>6, <3>7, <3>10, <4>1, <5>5
      <4>3. CASE \A i \in 2..N : samples[i].d < samples[1].d
        BY <3>5, <3>6, <3>7, <3>10, <4>1, <4>3
      <4> QED
        BY <3>13, <4>2, <4>3 DEF StatsInv, Longest
    <3>14. Exact <=> \A i \in DOMAIN samples : samples[i].tick > 5
      BY <2>1 DEF Exact
    <3> HIDE DEF r
    <3>15. /\ r.saturation = <<Quantify(DOMAIN samples, LAMBDA i : samples[i].d > t_sampling_interval), N>>
           /\ r.errors = <<Quantify(DOMAIN samples, LAMBDA i : samples[i].error), N>>
      BY <3>6, <3>8, <3>9, Zenon
    <3>16. r.min \in lo..(lo + 1) /\ r.max <= hi + 1
      BY <3>5, <3>6, <3>7, <3>10, <3>11
    <3>17. Exact => r.min = lo /\ r.avg <= hi /\ (r.max = hi \/ \A i \in 2..N : samples[i].d < samples[1].d)
      BY <3>12, <3>13
    <3>18. samples # <<>>
      BY <2>1, <2>3
    <3> QED
      BY <3>12, <3>14, <3>15, <3>16, <3>17, <3>18, Zenon DEF StatisticsTold, lo, hi, r
  <2> QED
    BY <2>1, <2>2, <2>3
<1> QED
  BY <1>1, StatsInvariant, PTL

-------------------------------------------------------------------------------
(* The stream of -b. *)

\* Bits have values.
LEMMA BitDefined == Bit = [i \in 0..KEY_BITS |-> IF i = 0 THEN 1 ELSE 2 * Bit[i - 1]]
<1> DEFINE Begins(k, g) == g = [i \in 0..k |-> IF i = 0 THEN 1 ELSE 2 * g[i - 1]]
           Short == {k \in Nat : ~\E g : Begins(k, g)}
<1> HIDE DEF Begins
<1>1. Short = {}
  <2> SUFFICES ASSUME Short # {} PROVE FALSE
    OBVIOUS
  <2>1. PICK m \in Short : \A k \in Short : m <= k
    BY Least
  <2>2. m \in Nat /\ m # 0
    <3>1. Begins(0, [i \in 0..0 |-> 1])
      BY DEF Begins
    <3> QED
      BY <2>1, <3>1
  <2>3. m - 1 \in Nat /\ m - 1 \notin Short
    <3> HIDE DEF Short
    <3> QED
      BY <2>1, <2>2
  <2>4. PICK g : Begins(m - 1, g)
    BY <2>3
  <2> DEFINE h == [i \in 0..m |-> IF i < m THEN g[i] ELSE 2 * g[i - 1]]
  <2> HIDE DEF Short
  <2>5. \A i \in 0..m : i # 0 => h[i - 1] = g[i - 1]
    BY <2>2
  <2>6. \A i \in 0..m : h[i] = IF i = 0 THEN 1 ELSE 2 * g[i - 1]
    BY <2>2, <2>4 DEF Begins
  <2>7. Begins(m, h)
    <3>1. h = [i \in 0..m |-> h[i]]
      OBVIOUS
    <3> HIDE DEF h
    <3>2. \A i \in 0..m : h[i] = IF i = 0 THEN 1 ELSE 2 * h[i - 1]
      BY <2>5, <2>6
    <3> QED
      BY <3>1, <3>2 DEF Begins
  <2> QED
    BY <2>1, <2>7 DEF Short
<1>2. \E g : Begins(KEY_BITS, g)
  BY <1>1, BitsAssumption
<1> DEFINE B == CHOOSE g : Begins(KEY_BITS, g)
<1>3. Begins(KEY_BITS, B)
  BY <1>2
<1>4. Bit = B
  BY Zenon DEF Bit, Begins
<1> HIDE DEF B
<1>5. B = [i \in 0..KEY_BITS |-> IF i = 0 THEN 1 ELSE 2 * B[i - 1]]
  BY <1>3, Zenon DEF Begins
<1> QED
  BY <1>4, <1>5, Zenon

\* Each is twice the one below.
LEMMA BitProperties ==
  /\ Bit[0] = 1
  /\ \A i \in 1..KEY_BITS : Bit[i] = 2 * Bit[i - 1]
  /\ \A i \in 0..KEY_BITS : Bit[i] \in Nat \ {0}
<1>1. Bit[0] = 1 /\ \A i \in 1..KEY_BITS : Bit[i] = 2 * Bit[i - 1]
  <2> DEFINE B == Bit
  <2>1. B = [i \in 0..KEY_BITS |-> IF i = 0 THEN 1 ELSE 2 * B[i - 1]]
    BY BitDefined, Zenon
  <2>2. KEY_BITS \in Nat
    BY BitsAssumption
  <2>3. 0 \in 0..KEY_BITS /\ \A i \in 1..KEY_BITS : i \in 0..KEY_BITS /\ i # 0
    BY <2>2
  <2> HIDE DEF B
  <2>4. \A i \in 0..KEY_BITS : B[i] = IF i = 0 THEN 1 ELSE 2 * B[i - 1]
    BY <2>1, Zenon
  <2>5. B[0] = 1 /\ \A i \in 1..KEY_BITS : B[i] = 2 * B[i - 1]
    BY <2>3, <2>4, Zenon
  <2> QED
    BY <2>5 DEF B
<1> DEFINE Bad == {i \in 0..KEY_BITS : Bit[i] \notin Nat \ {0}}
<1>2. Bad = {}
  <2> SUFFICES ASSUME Bad # {} PROVE FALSE
    OBVIOUS
  <2>1. PICK m \in Bad : \A i \in Bad : m <= i
    <3>1. Bad \in SUBSET Nat
      OBVIOUS
    <3> HIDE DEF Bad
    <3> QED
      BY <3>1, Least
  <2>2. m \in 1..KEY_BITS /\ m - 1 \in 0..KEY_BITS
    <3>1. m \in 0..KEY_BITS /\ Bit[m] \notin Nat \ {0}
      BY <2>1
    <3>2. m # 0
      <4>1. 1 \in Nat \ {0}
        OBVIOUS
      <4> QED
        BY <1>1, <3>1, <4>1, Zenon
    <3> QED
      BY <3>1, <3>2, BitsAssumption
  <2>3. Bit[m - 1] \in Nat \ {0}
    <3>1. m - 1 \notin Bad
      <4> HIDE DEF Bad
      <4> QED
        BY <2>1, <2>2
    <3> QED
      BY <2>2, <3>1
  <2> QED
    BY <1>1, <2>1, <2>2, <2>3
<1> QED
  BY <1>1, <1>2

\* Bytes.
Byte == 0..255

\* Bytes are numbers; those without the bit for more are below 128.
LEMMA ByteRange == \A b \in Byte : b \in Int /\ b >= 0 /\ b <= 255 /\ (b < 128 => b \in 0..127)
BY DEF Byte

\* A remainder, with or without that bit, is a byte.
LEMMA ByteType ==
  ASSUME NEW b \in 0..127
  PROVE  b \in Byte /\ b + 128 \in Byte /\ b % 128 = b /\ (b + 128) % 128 = b
BY DEF Byte

\* What is left of a number after a round is less than before it.
LEMMA ShiftType ==
  ASSUME NEW n \in Nat
  PROVE  /\ n \div 128 \in Nat /\ n % 128 \in 0..127 /\ n = (128 * (n \div 128)) + (n % 128)
         /\ n # 0 => n \div 128 <= n - 1
         /\ n \div 64 \in Nat /\ n % 64 \in 0..63 /\ n = (64 * (n \div 64)) + (n % 64)
         /\ n \div 64 <= n
OBVIOUS

\* The loop of mojo_integer is what its definition says: the values of integer exist.
LEMMA ShiftedDefined ==
  ASSUME NEW n \in Nat
  PROVE  Shifted(n) = [i \in 0..n |-> IF i = 0 THEN n \div 64 ELSE Shifted(n)[i - 1] \div 128]
<1> DEFINE Begins(k, g) == g = [i \in 0..k |-> IF i = 0 THEN n \div 64 ELSE g[i - 1] \div 128]
           Short == {k \in Nat : ~\E g : Begins(k, g)}
<1> HIDE DEF Begins
<1>1. Short = {}
  <2> SUFFICES ASSUME Short # {} PROVE FALSE
    OBVIOUS
  <2>1. PICK m \in Short : \A k \in Short : m <= k
    BY Least
  <2>2. m \in Nat /\ m # 0
    <3>1. Begins(0, [i \in 0..0 |-> n \div 64])
      BY DEF Begins
    <3> QED
      BY <2>1, <3>1
  <2>3. m - 1 \in Nat /\ m - 1 \notin Short
    <3> HIDE DEF Short
    <3> QED
      BY <2>1, <2>2
  <2>4. PICK g : Begins(m - 1, g)
    BY <2>3
  <2> DEFINE h == [i \in 0..m |-> IF i < m THEN g[i] ELSE g[i - 1] \div 128]
  <2> HIDE DEF Short
  <2>5. \A i \in 0..m : i # 0 => h[i - 1] = g[i - 1]
    BY <2>2
  <2>6. \A i \in 0..m : h[i] = IF i = 0 THEN n \div 64 ELSE g[i - 1] \div 128
    BY <2>2, <2>4 DEF Begins
  <2>7. Begins(m, h)
    <3>1. h = [i \in 0..m |-> h[i]]
      OBVIOUS
    <3> HIDE DEF h
    <3>2. \A i \in 0..m : h[i] = IF i = 0 THEN n \div 64 ELSE h[i - 1] \div 128
      BY <2>5, <2>6
    <3> QED
      BY <3>1, <3>2 DEF Begins
  <2> QED
    BY <2>1, <2>7 DEF Short
<1>2. \E g : Begins(n, g)
  BY <1>1
<1> QED
  BY <1>2 DEF Shifted, Begins

\* The number is left with nothing after n rounds at most, and every round takes
\* seven bits of it.
LEMMA ShiftedProperties ==
  ASSUME NEW n \in Nat
  PROVE  /\ Shifted(n)[0] = n \div 64
         /\ \A i \in 1..n : Shifted(n)[i] = Shifted(n)[i - 1] \div 128
         /\ \A i \in 0..n : Shifted(n)[i] \in Nat
         /\ Shifted(n)[n] = 0
<1> DEFINE x == Shifted(n)
           Bad == {i \in 0..n : ~(x[i] \in Nat /\ (x[i] = 0 \/ x[i] + i <= n))}
<1>1. x[0] = n \div 64 /\ \A i \in 1..n : x[i] = x[i - 1] \div 128
  <2> HIDE DEF x
  <2>1. x = [i \in 0..n |-> IF i = 0 THEN n \div 64 ELSE x[i - 1] \div 128]
    BY ShiftedDefined DEF x
  <2> QED
    BY <2>1
<1> HIDE DEF x
<1>2. Bad = {}
  <2> SUFFICES ASSUME Bad # {} PROVE FALSE
    OBVIOUS
  <2>1. PICK m \in Bad : \A i \in Bad : m <= i
    <3>1. Bad \in SUBSET Nat
      OBVIOUS
    <3> HIDE DEF Bad
    <3> QED
      BY <3>1, Least
  <2>2. m # 0
    BY <1>1, <2>1, ShiftType
  <2>3. m \in 1..n /\ m - 1 \in 0..n /\ m - 1 \notin Bad
    <3>1. m \in 0..n
      BY <2>1
    <3> HIDE DEF Bad
    <3> QED
      BY <2>1, <2>2, <3>1
  <2>4. x[m - 1] \in Nat /\ (x[m - 1] = 0 \/ x[m - 1] + (m - 1) <= n)
    BY <2>3
  <2>5. x[m] = x[m - 1] \div 128
    BY <1>1, <2>3
  <2>6. x[m] \in Nat /\ (x[m - 1] # 0 => x[m] <= x[m - 1] - 1) /\ (x[m - 1] = 0 => x[m] = 0)
    BY <2>4, <2>5, ShiftType
  <2> QED
    BY <2>1, <2>3, <2>4, <2>6
<1>3. \A i \in 0..n : x[i] \in Nat /\ (x[i] = 0 \/ x[i] + i <= n)
  BY <1>2
<1>4. x[n] = 0
  BY <1>3
<1> QED
  BY <1>1, <1>3, <1>4 DEF x

\* The bytes of a number, when the loop goes on for r rounds.
Encoded(n, sign, x, r) ==
  <<(n % 64) + (IF sign THEN 64 ELSE 0) + (IF x[0] # 0 THEN 128 ELSE 0)>>
    \o [i \in 1..r |-> (x[i - 1] % 128) + (IF x[i] # 0 THEN 128 ELSE 0)]

\* mojo_integer goes on for the first number of rounds after which nothing is left.
LEMMA RoundsDefined ==
  ASSUME NEW n \in Nat, NEW sign \in BOOLEAN
  PROVE  \E rounds \in 0..n :
           /\ Shifted(n)[rounds] = 0 /\ \A i \in 0..(rounds - 1) : Shifted(n)[i] # 0
           /\ mojo_integer(n, sign) = Encoded(n, sign, Shifted(n), rounds)
<1> DEFINE Zero == {k \in 0..n : Shifted(n)[k] = 0}
           P(k) == Shifted(n)[k] = 0 /\ \A i \in 0..(k - 1) : Shifted(n)[i] # 0
           rounds == CHOOSE k \in 0..n : P(k)
<1>1. \E k \in 0..n : P(k)
  <2>1. n \in Zero /\ Zero \in SUBSET Nat
    BY ShiftedProperties
  <2>2. PICK m \in Zero : \A i \in Zero : m <= i
    <3> HIDE DEF Zero
    <3> QED
      BY <2>1, Least
  <2> QED
    BY <2>2
<1>2. rounds \in 0..n /\ P(rounds)
  <2> HIDE DEF P
  <2> QED
    BY <1>1
<1>3. mojo_integer(n, sign) = Encoded(n, sign, Shifted(n), rounds)
  BY Zenon DEF mojo_integer, Encoded
<1> HIDE DEF rounds
<1> QED
  BY <1>2, <1>3

\* What follows the beginning of a sequence.
LEMMA RestOfConcat ==
  ASSUME NEW S, NEW s \in Seq(S), NEW t \in Seq(S)
  PROVE  SubSeq(s \o t, Len(s) + 1, Len(s \o t)) = t
<1>1. s \o t \in Seq(S) /\ Len(s \o t) = Len(s) + Len(t) /\ Len(s) \in Nat /\ Len(t) \in Nat
      /\ \A i \in 1..(Len(s) + Len(t)) : (s \o t)[i] = IF i <= Len(s) THEN s[i] ELSE t[i - Len(s)]
  BY ConcatProperties
<1> DEFINE u == s \o t
           v == SubSeq(u, Len(s) + 1, Len(u))
<1>2. \A i \in (Len(s) + 1)..Len(u) : u[i] = t[i - Len(s)] /\ u[i] \in S
  BY <1>1
<1> HIDE DEF u
<1>3. v \in Seq(S) /\ Len(v) = Len(t) /\ \A i \in 1..Len(t) : v[i] = u[Len(s) + 1 + i - 1]
  <2>1. Len(u) \in Int /\ Len(s) + 1 \in Int /\ Len(u) = Len(s) + Len(t)
    BY <1>1 DEF u
  <2>2. /\ v \in Seq(S)
        /\ Len(v) = IF Len(s) + 1 <= Len(u) THEN Len(u) - (Len(s) + 1) + 1 ELSE 0
        /\ \A i \in 1..(Len(u) - (Len(s) + 1) + 1) : v[i] = u[Len(s) + 1 + i - 1]
    BY <1>2, <2>1, SubSeqProperties
  <2> QED
    BY <1>1, <2>1, <2>2
<1>4. \A i \in 1..Len(t) : v[i] = t[i]
  <2> TAKE i \in 1..Len(t)
  <2>1. Len(s) + 1 + i - 1 = Len(s) + i /\ Len(s) + i \in (Len(s) + 1)..Len(u) /\ (Len(s) + i) - Len(s) = i
    BY <1>1 DEF u
  <2> QED
    BY <1>2, <1>3, <2>1
<1> HIDE DEF v
<1>5. v = t
  BY <1>3, <1>4, SeqEqual
<1> QED
  BY <1>5 DEF u, v

\* What is at the beginning of a sequence, and what follows it.
LEMMA HeadOfConcat ==
  ASSUME NEW S, NEW e \in S, NEW t \in Seq(S)
  PROVE  <<e>> \o t \in Seq(S) /\ <<e>> \o t # <<>> /\ Head(<<e>> \o t) = e /\ Tail(<<e>> \o t) = t
<1>1. <<e>> \in Seq(S) /\ Len(<<e>>) = 1
  OBVIOUS
<1>2. <<e>> \o t \in Seq(S) /\ Len(<<e>> \o t) = Len(t) + 1 /\ (<<e>> \o t)[1] = e /\ Len(t) \in Nat
  BY <1>1, ConcatProperties
<1> DEFINE u == <<e>> \o t
<1>3. SubSeq(u, 2, Len(u)) = t
  BY <1>1, RestOfConcat
<1>4. u # <<>> /\ u \in Seq(S)
  BY <1>2
<1>5. Tail(u) = SubSeq(u, 2, Len(u))
  <2> HIDE DEF u
  <2> QED
    BY <1>4, TailIsSubSeq
<1> QED
  BY <1>2, <1>3, <1>4, <1>5

\* The values of the loop of mojo_integer, when it goes on for r rounds.
Rounds(x, r) ==
  /\ \A i \in 0..r : x[i] \in Nat
  /\ x[r] = 0 /\ \A i \in 0..(r - 1) : x[i] # 0
  /\ \A i \in 1..r : x[i] = x[i - 1] \div 128

\* The groups of a number, read back from the last to the first.
LEMMA GroupsRead ==
  ASSUME NEW r \in Nat \ {0}, NEW x, NEW t \in Seq(Byte), Rounds(x, r)
  PROVE  LET g == [i \in 1..r |-> (x[i - 1] % 128) + (IF x[i] # 0 THEN 128 ELSE 0)]
         IN  ReadGroups(g \o t) = [num |-> x[0], rest |-> t]
<1> DEFINE g == [i \in 1..r |-> (x[i - 1] % 128) + (IF x[i] # 0 THEN 128 ELSE 0)]
           s == g \o t
<1>1. \A i \in 1..r : /\ g[i] \in Byte /\ g[i] % 128 = x[i - 1] % 128
                      /\ i < r => g[i] >= 128
                      /\ i = r => g[i] < 128
  <2> TAKE i \in 1..r
  <2>1. x[i - 1] % 128 \in 0..127
    <3>1. i - 1 \in 0..r
      OBVIOUS
    <3>2. x[i - 1] \in Nat
      BY <3>1 DEF Rounds
    <3> QED
      BY <3>2, ShiftType
  <2>2. i < r => x[i] # 0
    <3>1. i < r => i \in 0..(r - 1)
      OBVIOUS
    <3> QED
      BY <3>1 DEF Rounds
  <2>3. g[i] = (x[i - 1] % 128) + (IF x[i] # 0 THEN 128 ELSE 0)
    OBVIOUS
  <2> DEFINE y == x[i - 1] % 128
  <2>0. y \in 0..127
    BY <2>1
  <2> HIDE DEF g, y
  <2>4. y \in Byte /\ y % 128 = y /\ y + 128 \in Byte /\ (y + 128) % 128 = y /\ y \in Int /\ 0 <= y /\ y < 128
    <3>1. y \in Byte /\ y % 128 = y /\ y + 128 \in Byte /\ (y + 128) % 128 = y
      BY <2>0, ByteType
    <3> QED
      BY <2>0, <3>1
  <2>5. g[i] = y + (IF x[i] # 0 THEN 128 ELSE 0)
    BY <2>3 DEF y
  <2>6. CASE x[i] # 0
    <3>1. g[i] = y + 128 /\ i # r
      BY <2>4, <2>5, <2>6 DEF Rounds
    <3> QED
      BY <2>4, <3>1 DEF y
  <2>7. CASE x[i] = 0
    <3>1. g[i] = y /\ ~(i < r)
      BY <2>2, <2>4, <2>5, <2>7
    <3> QED
      BY <2>4, <3>1 DEF y
  <2> QED
    BY <2>6, <2>7
<1>2. g \in Seq(Byte) /\ Len(g) = r
  BY <1>1
<1> HIDE DEF g
<1>3. s \in Seq(Byte) /\ Len(s) = r + Len(t) /\ Len(t) \in Nat /\ \A i \in 1..r : s[i] = g[i]
  <2>1. Len(t) \in Nat
    BY LenProperties
  <2>2. /\ s \in Seq(Byte) /\ Len(s) = Len(g) + Len(t)
        /\ \A i \in 1..(Len(g) + Len(t)) : s[i] = IF i <= Len(g) THEN g[i] ELSE t[i - Len(g)]
    BY <1>2, ConcatProperties
  <2> HIDE DEF s
  <2> QED
    BY <1>2, <2>1, <2>2
<1>4. SubSeq(s, r + 1, Len(s)) = t
  BY <1>2, RestOfConcat
<1> HIDE DEF s
<1> DEFINE P(i) == s[i] < 128 /\ \A j \in 1..(i - 1) : s[j] >= 128
           end == CHOOSE i \in 1..Len(s) : P(i)
<1>5. end = r
  <2>1. r \in 1..Len(s) /\ P(r)
    <3>1. r \in 1..Len(s) /\ r \in 1..r /\ \A j \in 1..(r - 1) : j \in 1..r /\ j < r
      BY <1>3
    <3>2. s[r] < 128
      BY <1>1, <1>3, <3>1
    <3>3. \A j \in 1..(r - 1) : s[j] >= 128
      BY <1>1, <1>3, <3>1
    <3> QED
      BY <3>1, <3>2, <3>3
  <2>2. \A i \in 1..Len(s) : P(i) => i = r
    <3> SUFFICES ASSUME NEW i \in 1..Len(s), P(i), i # r PROVE FALSE
      OBVIOUS
    <3>1. \A j \in 1..Len(s) : s[j] \in Int
      <4>1. \A j \in 1..Len(s) : s[j] \in Byte
        BY <1>3, ElementOfSeq
      <4> QED
        BY <4>1, ByteRange
    <3>2. CASE i < r
      <4>1. i \in 1..(r - 1)
        BY <1>3, <3>2
      <4>2. s[i] >= 128 /\ s[i] < 128
        BY <2>1, <4>1
      <4> QED
        BY <3>1, <4>2
    <3>3. CASE r < i
      <4>1. r \in 1..(i - 1)
        BY <1>3, <3>3
      <4>2. s[r] >= 128 /\ s[r] < 128
        BY <2>1, <4>1
      <4> QED
        BY <2>1, <3>1, <4>2
    <3> QED
      BY <1>3, <3>2, <3>3
  <2> HIDE DEF P
  <2> QED
    BY <2>1, <2>2
<1> DEFINE IsNum(e, f) == f = [i \in 0..(e - 1) |-> IF i = 0 THEN s[e] ELSE (128 * f[i - 1]) + (s[e - i] % 128)]
           Num(e) == CHOOSE f : IsNum(e, f)
           num == Num(r)
           back == [i \in 0..(r - 1) |-> x[r - 1 - i]]
<1>6. ReadGroups(s) = [num |-> num[r - 1], rest |-> t]
  <2>1. ReadGroups(s) = [num |-> Num(end)[end - 1], rest |-> SubSeq(s, end + 1, Len(s))]
    BY Zenon DEF ReadGroups
  <2> HIDE DEF end, Num
  <2> QED
    BY <1>4, <1>5, <2>1
<1>7. IsNum(r, back)
  <2>1. \A i \in 0..(r - 1) : x[r - 1 - i] = IF i = 0 THEN s[r] ELSE (128 * back[i - 1]) + (s[r - i] % 128)
    <3> TAKE i \in 0..(r - 1)
    <3>1. r - i \in 1..r /\ (r - i) - 1 = r - 1 - i
      OBVIOUS
    <3>2. s[r - i] % 128 = x[r - 1 - i] % 128
      BY <1>1, <1>3, <3>1
    <3>3. x[r - i] = x[r - 1 - i] \div 128 /\ x[r - 1 - i] \in Nat
      <4>1. r - 1 - i \in 0..r
        OBVIOUS
      <4>2. x[r - 1 - i] \in Nat
        BY <4>1 DEF Rounds
      <4> QED
        BY <3>1, <4>2 DEF Rounds
    <3>4. x[r - 1 - i] = (128 * x[r - i]) + (s[r - i] % 128)
      <4> DEFINE z == x[r - 1 - i]
      <4>1. z = (128 * (z \div 128)) + (z % 128)
        BY <3>3, ShiftType
      <4> QED
        BY <3>2, <3>3, <4>1
    <3>5. CASE i = 0
      <4>1. s[r] = g[r] /\ g[r] \in Byte /\ g[r] < 128
        BY <1>1, <1>3
      <4>2. s[r] \in 0..127
        BY <4>1, ByteRange
      <4>3. s[r] % 128 = s[r]
        BY <4>2, ByteType
      <4>4. x[r - 1] = (128 * x[r]) + (s[r] % 128)
        BY <3>4, <3>5
      <4>5. s[r] \in Int
        BY <4>1, ByteRange
      <4>6. x[r - 1] = s[r]
        BY <4>3, <4>4, <4>5 DEF Rounds
      <4> QED
        BY <3>5, <4>6
    <3>6. CASE i # 0
      <4>1. i - 1 \in 0..(r - 1) /\ r - 1 - (i - 1) = r - i
        BY <3>6
      <4>2. back[i - 1] = x[r - i]
        BY <4>1
      <4> QED
        BY <3>4, <3>6, <4>2
    <3> QED
      BY <3>5, <3>6
  <2>2. \A i \in 0..(r - 1) : back[i] = x[r - 1 - i]
    OBVIOUS
  <2>3. back = [i \in 0..(r - 1) |-> back[i]]
    OBVIOUS
  <2> HIDE DEF back
  <2>4. \A i \in 0..(r - 1) : back[i] = IF i = 0 THEN s[r] ELSE (128 * back[i - 1]) + (s[r - i] % 128)
    BY <2>1, <2>2
  <2> QED
    BY <2>3, <2>4
<1>8. IsNum(r, num)
  <2> HIDE DEF IsNum
  <2> QED
    BY <1>7
<1>9. num[r - 1] = x[0]
  <2> DEFINE Bad == {i \in 0..(r - 1) : num[i] # back[i]}
  <2> HIDE DEF num, back
  <2>1. Bad = {}
    <3> SUFFICES ASSUME Bad # {} PROVE FALSE
      OBVIOUS
    <3>1. PICK m \in Bad : \A i \in Bad : m <= i
      <4>1. Bad \in SUBSET Nat
        OBVIOUS
      <4> HIDE DEF Bad
      <4> QED
        BY <4>1, Least
    <3>2. num[m] = (IF m = 0 THEN s[r] ELSE (128 * num[m - 1]) + (s[r - m] % 128))
          /\ back[m] = (IF m = 0 THEN s[r] ELSE (128 * back[m - 1]) + (s[r - m] % 128))
      <4>1. m \in 0..(r - 1)
        BY <3>1
      <4> HIDE DEF Bad
      <4> QED
        BY <1>7, <1>8, <4>1
    <3>3. m = 0 \/ num[m - 1] = back[m - 1]
      <4>1. m \in 0..(r - 1)
        BY <3>1
      <4>2. m # 0 => m - 1 \in 0..(r - 1) /\ m - 1 \notin Bad
        <5> HIDE DEF Bad
        <5> QED
          BY <3>1, <4>1
      <4> QED
        BY <4>2
    <3>4. num[m] # back[m]
      BY <3>1
    <3> HIDE DEF Bad
    <3> QED
      BY <3>2, <3>3, <3>4
  <2>2. num[r - 1] = back[r - 1]
    BY <2>1
  <2>3. back[r - 1] = x[0]
    BY DEF back
  <2> QED
    BY <2>2, <2>3
<1> HIDE DEF num, Num, IsNum, back, end, P
<1> QED
  BY <1>6, <1>9 DEF s, g

\* A number is at least one byte, and is read back with its sign, however many more
\* bytes it takes and whatever follows it.
LEMMA IntegerReads ==
  ASSUME NEW n \in Nat, NEW sign \in BOOLEAN
  PROVE  /\ mojo_integer(n, sign) \in Seq(Byte)
         /\ \A t \in Seq(Byte) :
              ReadInteger(mojo_integer(n, sign) \o t) = [num |-> IF sign THEN -n ELSE n, rest |-> t]
<1> DEFINE x == Shifted(n)
<1>1. PICK r \in 0..n :
        /\ x[r] = 0 /\ \A i \in 0..(r - 1) : x[i] # 0
        /\ mojo_integer(n, sign) = Encoded(n, sign, x, r)
  BY RoundsDefined, Zenon
<1>2. x[0] = n \div 64 /\ Rounds(x, r)
  <2>1. /\ x[0] = n \div 64
        /\ \A i \in 1..n : x[i] = x[i - 1] \div 128
        /\ \A i \in 0..n : x[i] \in Nat
    BY ShiftedProperties
  <2>2. r \in 0..n
    OBVIOUS
  <2>3. x[0] = n \div 64 /\ (\A i \in 1..r : x[i] = x[i - 1] \div 128) /\ \A i \in 0..r : x[i] \in Nat
    <3>1. (\A i \in 1..r : i \in 1..n) /\ \A i \in 0..r : i \in 0..n
      BY <2>2
    <3> HIDE DEF x
    <3> QED
      BY <2>1, <3>1
  <2> HIDE DEF x
  <2> QED
    BY <1>1, <2>3 DEF Rounds
<1> HIDE DEF x
<1> DEFINE b == (n % 64) + (IF sign THEN 64 ELSE 0) + (IF x[0] # 0 THEN 128 ELSE 0)
           g == [i \in 1..r |-> (x[i - 1] % 128) + (IF x[i] # 0 THEN 128 ELSE 0)]
<1>3. n % 64 \in 0..63 /\ n = (64 * (n \div 64)) + (n % 64)
  BY ShiftType
<1>4. b \in Byte /\ b % 64 = n % 64 /\ ((b \div 64) % 2 = 1 <=> sign) /\ (b >= 128 <=> x[0] # 0)
  <2> DEFINE m == n % 64
  <2>1. m \in 0..63
    BY <1>3
  <2>2. b = m + (IF sign THEN 64 ELSE 0) + (IF x[0] # 0 THEN 128 ELSE 0)
    OBVIOUS
  <2> HIDE DEF m, b
  <2>3. b \in Byte /\ b % 64 = m /\ ((b \div 64) % 2 = 1 <=> sign) /\ (b >= 128 <=> x[0] # 0)
    BY <2>1, <2>2 DEF Byte
  <2> QED
    BY <2>3 DEF m
<1>5. g \in Seq(Byte)
  <2>1. \A i \in 1..r : (x[i - 1] % 128) + (IF x[i] # 0 THEN 128 ELSE 0) \in Byte
    <3> TAKE i \in 1..r
    <3>1. i - 1 \in 0..r
      OBVIOUS
    <3>2. x[i - 1] % 128 \in 0..127
      <4>1. x[i - 1] \in Nat
        BY <1>2, <3>1 DEF Rounds
      <4> QED
        BY <4>1, ShiftType
    <3> DEFINE y == x[i - 1] % 128
    <3>3. y \in Byte /\ y + 128 \in Byte
      BY <3>2, ByteType
    <3>4. y \in Int
      BY <3>2
    <3> HIDE DEF y
    <3>5. y + (IF x[i] # 0 THEN 128 ELSE 0) \in Byte
      BY <3>3, <3>4
    <3> QED
      BY <3>5 DEF y
  <2>2. g \in [1..r -> Byte]
    BY <2>1
  <2>3. r \in Nat
    OBVIOUS
  <2> HIDE DEF g
  <2> QED
    BY <2>2, <2>3
<1>6. mojo_integer(n, sign) = <<b>> \o g
  BY <1>1, Zenon DEF Encoded
<1> HIDE DEF b, g
<1>7. mojo_integer(n, sign) \in Seq(Byte)
  BY <1>4, <1>5, <1>6, HeadOfConcat
<1>8. ASSUME NEW t \in Seq(Byte)
      PROVE  ReadInteger(mojo_integer(n, sign) \o t) = [num |-> IF sign THEN -n ELSE n, rest |-> t]
  <2> DEFINE s == mojo_integer(n, sign) \o t
             groups == IF b >= 128 THEN ReadGroups(g \o t) ELSE [num |-> 0, rest |-> g \o t]
  <2>1. s = <<b>> \o (g \o t) /\ g \o t \in Seq(Byte)
    <3>1. <<b>> \in Seq(Byte)
      BY <1>4
    <3> QED
      BY <1>5, <1>6, <3>1, ConcatAssociative, ConcatProperties
  <2>2. Head(s) = b /\ Tail(s) = g \o t
    <3> HIDE DEF s
    <3> QED
      BY <1>4, <2>1, HeadOfConcat
  <2>3. groups = [num |-> n \div 64, rest |-> t]
    <3>1. CASE r = 0
      <4>1. x[0] = 0
        BY <1>1, <3>1
      <4>2. g = <<>>
        BY <3>1 DEF g
      <4>3. g \o t = t
        BY <4>2, ConcatEmptySeq
      <4>4. ~(b >= 128)
        BY <1>4, <4>1
      <4> QED
        BY <1>2, <4>1, <4>3, <4>4
    <3>2. CASE r # 0
      <4>1. x[0] # 0 /\ r \in Nat \ {0}
        BY <1>1, <3>2
      <4>2. ReadGroups(g \o t) = [num |-> x[0], rest |-> t]
        BY <1>2, <4>1, GroupsRead DEF g
      <4> QED
        BY <1>2, <1>4, <4>1, <4>2
    <3> QED
      BY <3>1, <3>2
  <2> HIDE DEF s, groups
  <2>4. ReadMore(s) = groups
    BY <2>2 DEF ReadMore, groups
  <2>5. ReadInteger(s) = [num |-> WithSign(b, (64 * groups.num) + (b % 64)), rest |-> groups.rest]
    BY <2>2, <2>4 DEF ReadInteger
  <2>6. (64 * groups.num) + (b % 64) = n /\ groups.rest = t
    BY <1>3, <1>4, <2>3
  <2>7. WithSign(b, n) = IF sign THEN -n ELSE n
    BY <1>4 DEF WithSign
  <2> QED
    BY <2>5, <2>6, <2>7 DEF s
<1> QED
  BY <1>7, <1>8

\* A string is read back, whatever follows it, because no byte of it is 0.
LEMMA StringReads ==
  ASSUME NEW string \in String
  PROVE  /\ mojo_string(string) \in Seq(Byte)
         /\ \A t \in Seq(Byte) : ReadString(mojo_string(string) \o t) = [string |-> string, rest |-> t]
<1>1. string \in Seq(Byte) /\ \A i \in 1..Len(string) : string[i] # 0
  <2>1. Seq(1..255) \subseteq Seq(Byte)
    <3>1. 1..255 \subseteq Byte
      BY DEF Byte
    <3> QED
      BY <3>1, SeqMonotonic
  <2>2. \A i \in 1..Len(string) : string[i] \in 1..255
    BY ElementOfSeq DEF String
  <2>3. string \in Seq(Byte)
    BY <2>1 DEF String
  <2>4. \A i \in 1..255 : i # 0
    OBVIOUS
  <2> QED
    BY <2>2, <2>3, <2>4
<1>2. Len(string) \in Nat /\ 0 \in Byte
  <2>1. 0 \in 0..127
    OBVIOUS
  <2>2. Len(string) \in Nat
    BY <1>1, LenProperties
  <2> QED
    BY <2>1, <2>2, ByteType
<1> DEFINE m == mojo_string(string)
           e == Len(string) + 1
<1>3. /\ m \in Seq(Byte) /\ Len(m) = e /\ m[e] = 0
      /\ \A i \in 1..Len(string) : m[i] = string[i]
  BY <1>1, <1>2, AppendProperties DEF mojo_string
<1>4. ASSUME NEW t \in Seq(Byte)
      PROVE  ReadString(m \o t) = [string |-> string, rest |-> t]
  <2> DEFINE s == m \o t
             P(i) == s[i] = 0 /\ \A j \in 1..(i - 1) : s[j] # 0
             end == CHOOSE i \in 1..Len(s) : P(i)
  <2> HIDE DEF m
  <2>1. /\ s \in Seq(Byte) /\ Len(s) = e + Len(t) /\ Len(t) \in Nat
        /\ \A i \in 1..e : s[i] = m[i]
    <3>1. /\ s \in Seq(Byte) /\ Len(s) = Len(m) + Len(t) /\ Len(t) \in Nat
          /\ \A i \in 1..(Len(m) + Len(t)) : s[i] = IF i <= Len(m) THEN m[i] ELSE t[i - Len(m)]
      BY <1>3, ConcatProperties, LenProperties
    <3> HIDE DEF s
    <3> QED
      BY <1>2, <1>3, <3>1
  <2>2. SubSeq(s, e + 1, Len(s)) = t
    BY <1>3, RestOfConcat
  <2> HIDE DEF s
  <2>3. end = e
    <3>1. e \in 1..Len(s) /\ P(e)
      <4>1. e \in 1..Len(s) /\ e \in 1..e /\ \A j \in 1..(e - 1) : j \in 1..Len(string) /\ j \in 1..e
        BY <1>2, <2>1
      <4> QED
        BY <1>1, <1>3, <2>1, <4>1
    <3>2. \A i \in 1..Len(s) : P(i) => i = e
      <4> SUFFICES ASSUME NEW i \in 1..Len(s), P(i), i # e PROVE FALSE
        OBVIOUS
      <4>1. CASE i < e
        <5>1. i \in 1..(e - 1)
          BY <1>2, <2>1, <4>1
        <5> QED
          BY <3>1, <5>1
      <4>2. CASE e < i
        <5>1. e \in 1..(i - 1)
          BY <1>2, <2>1, <4>2
        <5> QED
          BY <3>1, <5>1
      <4> QED
        BY <1>2, <2>1, <4>1, <4>2
    <3> HIDE DEF P, e
    <3> QED
      BY <3>1, <3>2
  <2>4. ReadString(s) = [string |-> SubSeq(s, 1, end - 1), rest |-> SubSeq(s, end + 1, Len(s))]
    BY Zenon DEF ReadString
  <2> HIDE DEF end, P
  <2>5. SubSeq(s, 1, e - 1) = string
    <3>1. /\ SubSeq(s, 1, Len(string)) \in Seq(Byte)
          /\ Len(SubSeq(s, 1, Len(string))) = Len(string)
          /\ \A i \in 1..Len(string) : SubSeq(s, 1, Len(string))[i] = string[i]
      <4>1. \A i \in 1..Len(string) : s[i] \in Byte /\ s[i] = string[i]
        BY <1>1, <1>2, <1>3, <2>1
      <4>2. /\ SubSeq(s, 1, Len(string)) \in Seq(Byte)
            /\ Len(SubSeq(s, 1, Len(string))) = IF 1 <= Len(string) THEN Len(string) - 1 + 1 ELSE 0
            /\ \A i \in 1..(Len(string) - 1 + 1) : SubSeq(s, 1, Len(string))[i] = s[1 + i - 1]
        BY <1>2, <4>1, SubSeqProperties
      <4> QED
        BY <1>2, <4>1, <4>2
    <3>2. e - 1 = Len(string)
      BY <1>2
    <3> QED
      BY <1>1, <3>1, <3>2, SeqEqual
  <2> QED
    BY <2>2, <2>3, <2>4, <2>5 DEF s
<1> QED
  BY <1>3, <1>4 DEF m

\* A reference is a number.
LEMMA ReferenceType == ASSUME NEW key \in Nat PROVE MOJO_INT32(key) \in Nat
<1>1. Bit[REF_BITS] \in Nat \ {0}
  BY BitProperties, BitsAssumption
<1> DEFINE b == Bit[REF_BITS]
<1> HIDE DEF b
<1>2. key % b \in Nat
  BY <1>1 DEF b
<1> QED
  BY <1>2 DEF MOJO_INT32, b

\* A number between what is before it and what follows it.
LEMMA NumberBetween ==
  ASSUME NEW c \in Seq(Byte), NEW n \in Nat, NEW t \in Seq(Byte)
  PROVE  LET number == mojo_integer(n, FALSE)
         IN  /\ (c \o number) \o t = c \o (number \o t)
             /\ c \o number \in Seq(Byte) /\ number \o t \in Seq(Byte)
             /\ ReadInteger(number \o t).num = n /\ ReadInteger(number \o t).rest = t
<1> DEFINE number == mojo_integer(n, FALSE)
<1>1. /\ number \in Seq(Byte)
      /\ ReadInteger(number \o t) = [num |-> IF FALSE THEN -n ELSE n, rest |-> t]
  BY IntegerReads
<1> HIDE DEF number
<1>2. (c \o number) \o t = c \o (number \o t)
  BY <1>1, ConcatAssociative
<1>3. c \o number \in Seq(Byte) /\ number \o t \in Seq(Byte)
  BY <1>1, ConcatProperties
<1>4. ReadInteger(number \o t).num = n /\ ReadInteger(number \o t).rest = t
  BY <1>1
<1> QED
  BY <1>2, <1>3, <1>4 DEF number

\* What is written of a frame after the number of its event is read back.
LEMMA FrameReads ==
  ASSUME NEW f \in Frame
  PROVE  /\ mojo_frame(f) \in Seq(Byte)
         /\ \A t \in Seq(Byte) :
              /\ mojo_frame(f) \o t # <<>> /\ Head(mojo_frame(f) \o t) = MOJO_FRAME
              /\ ReadFrame(Tail(mojo_frame(f) \o t)) =
                   [frame |-> [key |-> f.key, filename |-> MOJO_INT32(f.filename),
                               scope |-> MOJO_INT32(f.scope), line |-> f.line, line_end |-> f.line_end,
                               column |-> f.column, column_end |-> f.column_end],
                    rest |-> t]
<1> DEFINE n1 == f.key
           n2 == MOJO_INT32(f.filename)
           n3 == MOJO_INT32(f.scope)
           n4 == f.line
           n5 == f.line_end
           n6 == f.column
           n7 == f.column_end
           I(n) == mojo_integer(n, FALSE)
<1>1. n1 \in Nat /\ n2 \in Nat /\ n3 \in Nat /\ n4 \in Nat /\ n5 \in Nat /\ n6 \in Nat /\ n7 \in Nat
  BY ReferenceType DEF Frame
<1>2. mojo_frame(f) = ((((((<<MOJO_FRAME>> \o I(n1)) \o I(n2)) \o I(n3)) \o I(n4)) \o I(n5)) \o I(n6)) \o I(n7)
  BY Zenon DEF mojo_frame, mojo_event, mojo_ref
<1>3. ASSUME NEW n \in Nat
      PROVE  /\ I(n) \in Seq(Byte)
             /\ \A t \in Seq(Byte) : ReadInteger(I(n) \o t) = [num |-> n, rest |-> t]
  BY <1>3, IntegerReads
<1> HIDE DEF n1, n2, n3, n4, n5, n6, n7, I
<1>4. MOJO_FRAME \in Byte /\ <<MOJO_FRAME>> \in Seq(Byte)
  BY DEF MOJO_FRAME, Byte
<1> DEFINE c1 == <<MOJO_FRAME>> \o I(n1)
           c2 == c1 \o I(n2)
           c3 == c2 \o I(n3)
           c4 == c3 \o I(n4)
           c5 == c4 \o I(n5)
           c6 == c5 \o I(n6)
           c7 == c6 \o I(n7)
<1>5. /\ c1 \in Seq(Byte) /\ c2 \in Seq(Byte) /\ c3 \in Seq(Byte) /\ c4 \in Seq(Byte)
      /\ c5 \in Seq(Byte) /\ c6 \in Seq(Byte) /\ c7 \in Seq(Byte)
  <2>1. c1 \in Seq(Byte)
    BY <1>1, <1>3, <1>4, ConcatProperties
  <2>2. c2 \in Seq(Byte)
    <3> HIDE DEF c1
    <3> QED
      BY <1>1, <1>3, <2>1, ConcatProperties
  <2>3. c3 \in Seq(Byte)
    <3> HIDE DEF c2
    <3> QED
      BY <1>1, <1>3, <2>2, ConcatProperties
  <2>4. c4 \in Seq(Byte)
    <3> HIDE DEF c3
    <3> QED
      BY <1>1, <1>3, <2>3, ConcatProperties
  <2>5. c5 \in Seq(Byte)
    <3> HIDE DEF c4
    <3> QED
      BY <1>1, <1>3, <2>4, ConcatProperties
  <2>6. c6 \in Seq(Byte)
    <3> HIDE DEF c5
    <3> QED
      BY <1>1, <1>3, <2>5, ConcatProperties
  <2>7. c7 \in Seq(Byte)
    <3> HIDE DEF c6
    <3> QED
      BY <1>1, <1>3, <2>6, ConcatProperties
  <2> HIDE DEF c1, c2, c3, c4, c5, c6, c7
  <2> QED
    BY <2>1, <2>2, <2>3, <2>4, <2>5, <2>6, <2>7
<1>6. ASSUME NEW t \in Seq(Byte)
      PROVE  /\ c7 \o t # <<>>
             /\ Head(c7 \o t) = MOJO_FRAME
             /\ ReadFrame(Tail(c7 \o t)) =
                  [frame |-> [key |-> n1, filename |-> n2, scope |-> n3, line |-> n4, line_end |-> n5,
                              column |-> n6, column_end |-> n7],
                   rest |-> t]
  <2> DEFINE t7 == I(n7) \o t
             t6 == I(n6) \o t7
             t5 == I(n5) \o t6
             t4 == I(n4) \o t5
             t3 == I(n3) \o t4
             t2 == I(n2) \o t3
             t1 == I(n1) \o t2
  <2> HIDE DEF c1, c2, c3, c4, c5, c6, c7, t1, t2, t3, t4, t5, t6, t7
  <2>1. /\ c7 \o t = c6 \o t7 /\ t7 \in Seq(Byte)
        /\ ReadInteger(t7).num = n7 /\ ReadInteger(t7).rest = t
    <3>1. c6 \in Seq(Byte) /\ n7 \in Nat /\ t \in Seq(Byte)
      BY <1>1, <1>5
    <3> QED
      BY <3>1, NumberBetween DEF c7, t7, I
  <2>2. /\ c6 \o t7 = c5 \o t6 /\ t6 \in Seq(Byte)
        /\ ReadInteger(t6).num = n6 /\ ReadInteger(t6).rest = t7
    <3>1. c5 \in Seq(Byte) /\ n6 \in Nat /\ t7 \in Seq(Byte)
      BY <1>1, <1>5, <2>1
    <3> QED
      BY <3>1, NumberBetween DEF c6, t6, I
  <2>3. /\ c5 \o t6 = c4 \o t5 /\ t5 \in Seq(Byte)
        /\ ReadInteger(t5).num = n5 /\ ReadInteger(t5).rest = t6
    <3>1. c4 \in Seq(Byte) /\ n5 \in Nat /\ t6 \in Seq(Byte)
      BY <1>1, <1>5, <2>2
    <3> QED
      BY <3>1, NumberBetween DEF c5, t5, I
  <2>4. /\ c4 \o t5 = c3 \o t4 /\ t4 \in Seq(Byte)
        /\ ReadInteger(t4).num = n4 /\ ReadInteger(t4).rest = t5
    <3>1. c3 \in Seq(Byte) /\ n4 \in Nat /\ t5 \in Seq(Byte)
      BY <1>1, <1>5, <2>3
    <3> QED
      BY <3>1, NumberBetween DEF c4, t4, I
  <2>5. /\ c3 \o t4 = c2 \o t3 /\ t3 \in Seq(Byte)
        /\ ReadInteger(t3).num = n3 /\ ReadInteger(t3).rest = t4
    <3>1. c2 \in Seq(Byte) /\ n3 \in Nat /\ t4 \in Seq(Byte)
      BY <1>1, <1>5, <2>4
    <3> QED
      BY <3>1, NumberBetween DEF c3, t3, I
  <2>6. /\ c2 \o t3 = c1 \o t2 /\ t2 \in Seq(Byte)
        /\ ReadInteger(t2).num = n2 /\ ReadInteger(t2).rest = t3
    <3>1. c1 \in Seq(Byte) /\ n2 \in Nat /\ t3 \in Seq(Byte)
      BY <1>1, <1>5, <2>5
    <3> QED
      BY <3>1, NumberBetween DEF c2, t2, I
  <2>7. /\ c1 \o t2 = <<MOJO_FRAME>> \o t1 /\ t1 \in Seq(Byte)
        /\ ReadInteger(t1).num = n1 /\ ReadInteger(t1).rest = t2
    <3>1. <<MOJO_FRAME>> \in Seq(Byte) /\ n1 \in Nat /\ t2 \in Seq(Byte)
      BY <1>1, <1>4, <2>6
    <3> QED
      BY <3>1, NumberBetween DEF c1, t1, I
  <2>8. c7 \o t = <<MOJO_FRAME>> \o t1
    BY <2>1, <2>2, <2>3, <2>4, <2>5, <2>6, <2>7
  <2>9. c7 \o t # <<>> /\ Head(c7 \o t) = MOJO_FRAME /\ Tail(c7 \o t) = t1
    BY <1>4, <2>7, <2>8, HeadOfConcat
  <2>10. ReadFrame(t1) = [frame |-> [key |-> n1, filename |-> n2, scope |-> n3, line |-> n4, line_end |-> n5,
                                     column |-> n6, column_end |-> n7],
                          rest |-> t]
    BY <2>1, <2>2, <2>3, <2>4, <2>5, <2>6, <2>7 DEF ReadFrame
  <2> QED
    BY <2>9, <2>10
<1>7. mojo_frame(f) = c7
  BY <1>2
<1> HIDE DEF c7
<1> QED
  BY <1>5, <1>6, <1>7 DEF n1, n2, n3, n4, n5, n6, n7

\* What the reader makes of an event, by its number.
LEMMA ReadEventCases ==
  ASSUME NEW s
  PROVE  LET event == Head(s)
             int   == ReadInteger(Tail(s))
             str   == ReadString(Tail(s))
         IN  /\ event = MOJO_METADATA =>
                  ReadEvent(s) = [e |-> [event |-> event, label |-> str.string, value |-> ReadString(str.rest).string],
                                  rest |-> ReadString(str.rest).rest]
             /\ event = MOJO_STACK =>
                  ReadEvent(s) =
                    [e |-> [event |-> event, pid |-> int.num, iid |-> ReadInteger(int.rest).num,
                            tid |-> ReadString(ReadInteger(int.rest).rest).string],
                     rest |-> ReadString(ReadInteger(int.rest).rest).rest]
             /\ event = MOJO_FRAME =>
                  ReadEvent(s) = [e |-> [event |-> event, frame |-> ReadFrame(Tail(s)).frame],
                                  rest |-> ReadFrame(Tail(s)).rest]
             /\ event = MOJO_FRAME_REF => ReadEvent(s) = [e |-> [event |-> event, key |-> int.num], rest |-> int.rest]
             /\ event = MOJO_FRAME_KERNEL =>
                  ReadEvent(s) = [e |-> [event |-> event, scope |-> str.string], rest |-> str.rest]
             /\ event \in {MOJO_METRIC_TIME, MOJO_METRIC_MEMORY} =>
                  ReadEvent(s) = [e |-> [event |-> event, value |-> int.num], rest |-> int.rest]
             /\ event = MOJO_STRING =>
                  ReadEvent(s) = [e |-> [event |-> event, key |-> int.num, string |-> ReadString(int.rest).string],
                                  rest |-> ReadString(int.rest).rest]
             /\ event \in {MOJO_FRAME_INVALID, MOJO_GC, MOJO_IDLE} =>
                  ReadEvent(s) = [e |-> [event |-> event], rest |-> Tail(s)]
BY DEF ReadEvent, MOJO_METADATA, MOJO_STACK, MOJO_FRAME, MOJO_FRAME_INVALID, MOJO_FRAME_REF, MOJO_FRAME_KERNEL,
       MOJO_GC, MOJO_IDLE, MOJO_METRIC_TIME, MOJO_METRIC_MEMORY, MOJO_STRING


\* What is emitted for an event, by its number.
LEMMA EmitCases ==
  ASSUME NEW e
  PROVE  /\ e.event = MOJO_METADATA => emit(e) = mojo_metadata(e.label, e.value)
         /\ e.event = MOJO_STACK => emit(e) = mojo_stack(e.pid, e.iid, e.tid)
         /\ e.event = MOJO_FRAME => emit(e) = mojo_frame(e.frame)
         /\ e.event = MOJO_FRAME_REF => emit(e) = mojo_event(e.event) \o mojo_integer(e.key, FALSE)
         /\ e.event = MOJO_FRAME_KERNEL => emit(e) = mojo_event(e.event) \o mojo_string(e.scope)
         /\ e.event = MOJO_METRIC_TIME => emit(e) = mojo_event(e.event) \o mojo_integer(e.value, FALSE)
         /\ e.event = MOJO_METRIC_MEMORY => emit(e) = mojo_metric_memory(e.value)
         /\ e.event = MOJO_STRING => emit(e) = mojo_string_event(e.key, e.string)
         /\ e.event \in {MOJO_FRAME_INVALID, MOJO_GC, MOJO_IDLE} => emit(e) = mojo_event(e.event)
<1> DEFINE I(n) == mojo_integer(n, FALSE)
<1>1. emit(e) =
        CASE e.event = MOJO_METADATA      -> mojo_metadata(e.label, e.value)
          [] e.event = MOJO_STACK         -> mojo_stack(e.pid, e.iid, e.tid)
          [] e.event = MOJO_FRAME         -> mojo_frame(e.frame)
          [] e.event = MOJO_FRAME_REF     -> mojo_event(e.event) \o I(e.key)
          [] e.event = MOJO_FRAME_KERNEL  -> mojo_event(e.event) \o mojo_string(e.scope)
          [] e.event = MOJO_METRIC_TIME   -> mojo_event(e.event) \o I(e.value)
          [] e.event = MOJO_METRIC_MEMORY -> mojo_metric_memory(e.value)
          [] e.event = MOJO_STRING        -> mojo_string_event(e.key, e.string)
          [] OTHER                        -> mojo_event(e.event)
  BY Zenon DEF emit
<1> HIDE DEF I
<1>2. /\ e.event = MOJO_METADATA => emit(e) = mojo_metadata(e.label, e.value)
      /\ e.event = MOJO_STACK => emit(e) = mojo_stack(e.pid, e.iid, e.tid)
      /\ e.event = MOJO_FRAME => emit(e) = mojo_frame(e.frame)
      /\ e.event = MOJO_FRAME_REF => emit(e) = mojo_event(e.event) \o I(e.key)
      /\ e.event = MOJO_FRAME_KERNEL => emit(e) = mojo_event(e.event) \o mojo_string(e.scope)
      /\ e.event = MOJO_METRIC_TIME => emit(e) = mojo_event(e.event) \o I(e.value)
      /\ e.event = MOJO_METRIC_MEMORY => emit(e) = mojo_metric_memory(e.value)
      /\ e.event = MOJO_STRING => emit(e) = mojo_string_event(e.key, e.string)
      /\ e.event \in {MOJO_FRAME_INVALID, MOJO_GC, MOJO_IDLE} => emit(e) = mojo_event(e.event)
  BY <1>1 DEF MOJO_METADATA, MOJO_STACK, MOJO_FRAME, MOJO_FRAME_INVALID, MOJO_FRAME_REF, MOJO_FRAME_KERNEL,
              MOJO_GC, MOJO_IDLE, MOJO_METRIC_TIME, MOJO_METRIC_MEMORY, MOJO_STRING
<1> QED
  BY <1>2, Zenon DEF I

\* What there is to be seen of an event, by its number.
LEMMA SeenCases ==
  ASSUME NEW e
  PROVE  /\ e.event \in {MOJO_METADATA, MOJO_STACK, MOJO_FRAME_REF, MOJO_FRAME_KERNEL, MOJO_METRIC_TIME,
                         MOJO_METRIC_MEMORY, MOJO_FRAME_INVALID, MOJO_GC, MOJO_IDLE} => Seen(e) = e
         /\ e.event = MOJO_STRING =>
              Seen(e) = [event |-> MOJO_STRING, key |-> MOJO_INT32(e.key), string |-> e.string]
         /\ e.event = MOJO_FRAME =>
              LET frame == e.frame
              IN  Seen(e) = [event |-> MOJO_FRAME,
                             frame |-> [key |-> frame.key, filename |-> MOJO_INT32(frame.filename),
                                        scope |-> MOJO_INT32(frame.scope), line |-> frame.line,
                                        line_end |-> frame.line_end, column |-> frame.column,
                                        column_end |-> frame.column_end]]
BY DEF Seen, MOJO_METADATA, MOJO_STACK, MOJO_FRAME, MOJO_FRAME_INVALID, MOJO_FRAME_REF, MOJO_FRAME_KERNEL,
       MOJO_GC, MOJO_IDLE, MOJO_METRIC_TIME, MOJO_METRIC_MEMORY, MOJO_STRING

\* A string between what is before it and what follows it.
LEMMA StringBetween ==
  ASSUME NEW c \in Seq(Byte), NEW string \in String, NEW t \in Seq(Byte)
  PROVE  LET chars == mojo_string(string)
         IN  /\ (c \o chars) \o t = c \o (chars \o t)
             /\ c \o chars \in Seq(Byte) /\ chars \o t \in Seq(Byte)
             /\ ReadString(chars \o t).string = string /\ ReadString(chars \o t).rest = t
<1> DEFINE chars == mojo_string(string)
<1>1. chars \in Seq(Byte) /\ ReadString(chars \o t) = [string |-> string, rest |-> t]
  BY StringReads
<1> HIDE DEF chars
<1>2. (c \o chars) \o t = c \o (chars \o t)
  BY <1>1, ConcatAssociative
<1>3. c \o chars \in Seq(Byte) /\ chars \o t \in Seq(Byte)
  BY <1>1, ConcatProperties
<1>4. ReadString(chars \o t).string = string /\ ReadString(chars \o t).rest = t
  BY <1>1
<1> QED
  BY <1>2, <1>3, <1>4 DEF chars

\* The number of an event is a byte, and what is before the rest of it.
LEMMA EventType ==
  ASSUME NEW event \in {MOJO_METADATA, MOJO_STACK, MOJO_FRAME, MOJO_FRAME_INVALID, MOJO_FRAME_REF, MOJO_FRAME_KERNEL,
                        MOJO_GC, MOJO_IDLE, MOJO_METRIC_TIME, MOJO_METRIC_MEMORY, MOJO_STRING}
  PROVE  event \in Byte /\ mojo_event(event) = <<event>> /\ mojo_event(event) \in Seq(Byte)
<1>1. event \in Byte
  BY DEF Byte, MOJO_METADATA, MOJO_STACK, MOJO_FRAME, MOJO_FRAME_INVALID, MOJO_FRAME_REF, MOJO_FRAME_KERNEL,
         MOJO_GC, MOJO_IDLE, MOJO_METRIC_TIME, MOJO_METRIC_MEMORY, MOJO_STRING
<1> QED
  BY <1>1 DEF mojo_event

\* The reader gets back what there is to be seen of each kind of event, and leaves what
\* follows it.
Reads(e, t) == /\ emit(e) \in Seq(Byte)
               /\ emit(e) \o t # <<>>
               /\ ReadEvent(emit(e) \o t) = [e |-> Seen(e), rest |-> t]

\* Each event is read as it is seen: the name and the value of a metadata event, ...
LEMMA MetadataReads ==
  ASSUME NEW label \in String, NEW value \in String, NEW t \in Seq(Byte)
  PROVE  Reads([event |-> MOJO_METADATA, label |-> label, value |-> value], t)
<1> DEFINE e == [event |-> MOJO_METADATA, label |-> label, value |-> value]
           c == <<MOJO_METADATA>> \o mojo_string(label)
           t2 == mojo_string(value) \o t
           t1 == mojo_string(label) \o t2
           s == emit(e) \o t
<1>0. e.event = MOJO_METADATA /\ e.label = label /\ e.value = value
  OBVIOUS
<1> HIDE DEF e, s
<1>1. emit(e) = mojo_metadata(label, value) /\ Seen(e) = e
  BY <1>0, EmitCases, SeenCases
<1>2. MOJO_METADATA \in Byte /\ mojo_event(MOJO_METADATA) = <<MOJO_METADATA>> /\ <<MOJO_METADATA>> \in Seq(Byte)
  BY EventType
<1>3. emit(e) = c \o mojo_string(value)
  BY <1>1, <1>2 DEF mojo_metadata
<1>4. c \in Seq(Byte)
  BY <1>2, StringBetween
<1> HIDE DEF c, t1, t2
<1>5. /\ s = c \o t2 /\ t2 \in Seq(Byte) /\ emit(e) \in Seq(Byte)
      /\ ReadString(t2).string = value /\ ReadString(t2).rest = t
  BY <1>3, <1>4, StringBetween DEF t2, s
<1>6. /\ c \o t2 = <<MOJO_METADATA>> \o t1 /\ t1 \in Seq(Byte)
      /\ ReadString(t1).string = label /\ ReadString(t1).rest = t2
  BY <1>2, <1>5, StringBetween DEF t1, c
<1>7. s # <<>> /\ Head(s) = MOJO_METADATA /\ Tail(s) = t1
  BY <1>2, <1>5, <1>6, HeadOfConcat
<1>8. ReadEvent(s) = [e |-> [event |-> MOJO_METADATA, label |-> label, value |-> value], rest |-> t]
  BY <1>5, <1>6, <1>7, ReadEventCases
<1> QED
  BY <1>1, <1>5, <1>7, <1>8 DEF s, e, Reads

\* ... the process, the interpreter and the thread of a stack, ...
LEMMA StackReads ==
  ASSUME NEW pid \in Nat, NEW iid \in Nat, NEW tid \in String, NEW t \in Seq(Byte)
  PROVE  Reads([event |-> MOJO_STACK, pid |-> pid, iid |-> iid, tid |-> tid], t)
<1> DEFINE e == [event |-> MOJO_STACK, pid |-> pid, iid |-> iid, tid |-> tid]
           I(n) == mojo_integer(n, FALSE)
           c1 == <<MOJO_STACK>> \o I(pid)
           c2 == c1 \o I(iid)
           t3 == mojo_string(tid) \o t
           t2 == I(iid) \o t3
           t1 == I(pid) \o t2
           s == emit(e) \o t
<1>0. e.event = MOJO_STACK /\ e.pid = pid /\ e.iid = iid /\ e.tid = tid
  OBVIOUS
<1> HIDE DEF e, s
<1>1. emit(e) = mojo_stack(pid, iid, tid) /\ Seen(e) = e
  BY <1>0, EmitCases, SeenCases
<1>2. MOJO_STACK \in Byte /\ mojo_event(MOJO_STACK) = <<MOJO_STACK>> /\ <<MOJO_STACK>> \in Seq(Byte)
  BY EventType
<1>3. mojo_stack(pid, iid, tid) = ((mojo_event(MOJO_STACK) \o I(pid)) \o I(iid)) \o mojo_string(tid)
  BY Zenon DEF mojo_stack
<1>4. emit(e) = c2 \o mojo_string(tid)
  BY <1>1, <1>2, <1>3
<1> HIDE DEF c1, c2, t1, t2, t3
<1>5. c1 \in Seq(Byte)
  BY <1>2, NumberBetween, EmptySeq DEF c1
<1>6. c2 \in Seq(Byte)
  BY <1>5, NumberBetween, EmptySeq DEF c2
<1>7. /\ s = c2 \o t3 /\ t3 \in Seq(Byte) /\ emit(e) \in Seq(Byte)
      /\ ReadString(t3).string = tid /\ ReadString(t3).rest = t
  BY <1>4, <1>6, StringBetween DEF t3, s
<1>8. /\ c2 \o t3 = c1 \o t2 /\ t2 \in Seq(Byte)
      /\ ReadInteger(t2).num = iid /\ ReadInteger(t2).rest = t3
  <2>1. c1 \in Seq(Byte) /\ iid \in Nat /\ t3 \in Seq(Byte)
    BY <1>5, <1>7
  <2> QED
    BY <2>1, NumberBetween DEF t2, c2
<1>9. /\ c1 \o t2 = <<MOJO_STACK>> \o t1 /\ t1 \in Seq(Byte)
       /\ ReadInteger(t1).num = pid /\ ReadInteger(t1).rest = t2
  <2>1. <<MOJO_STACK>> \in Seq(Byte) /\ pid \in Nat /\ t2 \in Seq(Byte)
    BY <1>2, <1>8
  <2> QED
    BY <2>1, NumberBetween DEF t1, c1
<1>10. s # <<>> /\ Head(s) = MOJO_STACK /\ Tail(s) = t1
  <2>1. s = <<MOJO_STACK>> \o t1
    BY <1>7, <1>8, <1>9
  <2>2. MOJO_STACK \in Byte /\ t1 \in Seq(Byte)
    BY <1>2, <1>9
  <2> QED
    BY <2>1, <2>2, HeadOfConcat
<1>11. ReadEvent(s) = [e |-> [event |-> MOJO_STACK, pid |-> pid, iid |-> iid, tid |-> tid], rest |-> t]
  <2>1. ReadEvent(s) =
          [e |-> [event |-> Head(s), pid |-> ReadInteger(Tail(s)).num,
                  iid |-> ReadInteger(ReadInteger(Tail(s)).rest).num,
                  tid |-> ReadString(ReadInteger(ReadInteger(Tail(s)).rest).rest).string],
           rest |-> ReadString(ReadInteger(ReadInteger(Tail(s)).rest).rest).rest]
    BY <1>10, ReadEventCases
  <2> QED
    BY <1>7, <1>8, <1>9, <1>10, <2>1
<1> QED
  BY <1>1, <1>7, <1>10, <1>11 DEF s, e, Reads

\* An event with one number.
LEMMA NumberReads ==
  ASSUME NEW event \in {MOJO_FRAME_REF, MOJO_METRIC_TIME, MOJO_METRIC_MEMORY}, NEW body \in Seq(Byte), NEW num,
         NEW t \in Seq(Byte), ReadInteger(body \o t) = [num |-> num, rest |-> t]
  PROVE  /\ mojo_event(event) \o body \in Seq(Byte) /\ (mojo_event(event) \o body) \o t # <<>>
         /\ event = MOJO_FRAME_REF =>
              ReadEvent((mojo_event(event) \o body) \o t) = [e |-> [event |-> event, key |-> num], rest |-> t]
         /\ event \in {MOJO_METRIC_TIME, MOJO_METRIC_MEMORY} =>
              ReadEvent((mojo_event(event) \o body) \o t) = [e |-> [event |-> event, value |-> num], rest |-> t]
<1> DEFINE s == (mojo_event(event) \o body) \o t
<1>1. event \in Byte /\ mojo_event(event) = <<event>> /\ <<event>> \in Seq(Byte)
  BY EventType
<1>2. <<event>> \o body \in Seq(Byte) /\ (<<event>> \o body) \o t = <<event>> \o (body \o t) /\ body \o t \in Seq(Byte)
  BY <1>1, ConcatAssociative, ConcatProperties
<1>3. s = <<event>> \o (body \o t)
  BY <1>1, <1>2
<1> HIDE DEF s
<1>4. s # <<>> /\ Head(s) = event /\ Tail(s) = body \o t
  BY <1>1, <1>2, <1>3, HeadOfConcat
<1>5. ReadInteger(Tail(s)).num = num /\ ReadInteger(Tail(s)).rest = t
  <2>1. ReadInteger(body \o t).num = num /\ ReadInteger(body \o t).rest = t
    OBVIOUS
  <2> QED
    BY <1>4, <2>1, Zenon
<1>6. event = MOJO_FRAME_REF =>
        ReadEvent(s) = [e |-> [event |-> event, key |-> ReadInteger(Tail(s)).num], rest |-> ReadInteger(Tail(s)).rest]
  BY <1>4, ReadEventCases
<1>7. event \in {MOJO_METRIC_TIME, MOJO_METRIC_MEMORY} =>
        ReadEvent(s) = [e |-> [event |-> event, value |-> ReadInteger(Tail(s)).num], rest |-> ReadInteger(Tail(s)).rest]
  BY <1>4, ReadEventCases
<1> QED
  BY <1>1, <1>2, <1>4, <1>5, <1>6, <1>7 DEF s

\* ... the scope of a kernel frame, ...
LEMMA KernelReads ==
  ASSUME NEW scope \in String, NEW t \in Seq(Byte)
  PROVE  Reads([event |-> MOJO_FRAME_KERNEL, scope |-> scope], t)
<1> DEFINE e == [event |-> MOJO_FRAME_KERNEL, scope |-> scope]
           body == mojo_string(scope)
           s == emit(e) \o t
<1>1. e.event = MOJO_FRAME_KERNEL /\ e.scope = scope
  OBVIOUS
<1> HIDE DEF e
<1>2. MOJO_FRAME_KERNEL \in Byte /\ mojo_event(MOJO_FRAME_KERNEL) = <<MOJO_FRAME_KERNEL>>
      /\ <<MOJO_FRAME_KERNEL>> \in Seq(Byte)
  BY EventType
<1>3. emit(e) = <<MOJO_FRAME_KERNEL>> \o body /\ Seen(e) = e
  BY <1>1, <1>2, EmitCases, SeenCases
<1>4. /\ (<<MOJO_FRAME_KERNEL>> \o body) \o t = <<MOJO_FRAME_KERNEL>> \o (body \o t)
      /\ <<MOJO_FRAME_KERNEL>> \o body \in Seq(Byte) /\ body \o t \in Seq(Byte)
      /\ ReadString(body \o t).string = scope /\ ReadString(body \o t).rest = t
  BY <1>2, StringBetween
<1> HIDE DEF body, s
<1>5. s # <<>> /\ Head(s) = MOJO_FRAME_KERNEL /\ Tail(s) = body \o t
  BY <1>2, <1>3, <1>4, HeadOfConcat DEF s
<1>6. ReadEvent(s) = [e |-> [event |-> MOJO_FRAME_KERNEL, scope |-> ReadString(Tail(s)).string],
                      rest |-> ReadString(Tail(s)).rest]
  BY <1>5, ReadEventCases
<1>7. ReadEvent(s) = [e |-> e, rest |-> t]
  BY <1>4, <1>5, <1>6 DEF e
<1> QED
  BY <1>3, <1>4, <1>5, <1>7 DEF s, e, Reads

\* ... a string and its key, ...
LEMMA StringEventReads ==
  ASSUME NEW key \in Nat, NEW string \in String, NEW t \in Seq(Byte)
  PROVE  Reads([event |-> MOJO_STRING, key |-> key, string |-> string], t)
<1> DEFINE e == [event |-> MOJO_STRING, key |-> key, string |-> string]
           n == MOJO_INT32(key)
           c == <<MOJO_STRING>> \o mojo_integer(n, FALSE)
           t2 == mojo_string(string) \o t
           t1 == mojo_integer(n, FALSE) \o t2
           s == emit(e) \o t
<1>1. e.event = MOJO_STRING /\ e.key = key /\ e.string = string
  OBVIOUS
<1> HIDE DEF e, s
<1>2. MOJO_STRING \in Byte /\ mojo_event(MOJO_STRING) = <<MOJO_STRING>> /\ <<MOJO_STRING>> \in Seq(Byte)
  BY EventType
<1>3. emit(e) = mojo_string_event(key, string) /\ Seen(e) = [event |-> MOJO_STRING, key |-> n, string |-> string]
  BY <1>1, EmitCases, SeenCases
<1>4. emit(e) = c \o mojo_string(string)
  <2>1. mojo_string_event(key, string) = (mojo_event(MOJO_STRING) \o mojo_integer(n, FALSE)) \o mojo_string(string)
    BY Zenon DEF mojo_string_event, mojo_ref
  <2> QED
    BY <1>2, <1>3, <2>1
<1>5. n \in Nat
  BY ReferenceType
<1> HIDE DEF n, c, t1, t2
<1>6. c \in Seq(Byte)
  BY <1>2, <1>5, NumberBetween, EmptySeq DEF c
<1>7. /\ s = c \o t2 /\ t2 \in Seq(Byte) /\ emit(e) \in Seq(Byte)
      /\ ReadString(t2).string = string /\ ReadString(t2).rest = t
  BY <1>4, <1>6, StringBetween DEF t2, s
<1>8. /\ c \o t2 = <<MOJO_STRING>> \o t1 /\ t1 \in Seq(Byte)
      /\ ReadInteger(t1).num = n /\ ReadInteger(t1).rest = t2
  <2>1. <<MOJO_STRING>> \in Seq(Byte) /\ n \in Nat /\ t2 \in Seq(Byte)
    BY <1>2, <1>5, <1>7
  <2> QED
    BY <2>1, NumberBetween DEF t1, c
<1>9. s # <<>> /\ Head(s) = MOJO_STRING /\ Tail(s) = t1
  <2>1. s = <<MOJO_STRING>> \o t1
    BY <1>7, <1>8
  <2> QED
    BY <1>2, <1>8, <2>1, HeadOfConcat
<1>10. ReadEvent(s) = [e |-> [event |-> MOJO_STRING, key |-> n, string |-> string], rest |-> t]
  <2>1. ReadEvent(s) =
          [e |-> [event |-> MOJO_STRING, key |-> ReadInteger(Tail(s)).num,
                  string |-> ReadString(ReadInteger(Tail(s)).rest).string],
           rest |-> ReadString(ReadInteger(Tail(s)).rest).rest]
    BY <1>9, ReadEventCases
  <2> QED
    BY <1>7, <1>8, <1>9, <2>1
<1> QED
  BY <1>3, <1>7, <1>9, <1>10 DEF s, e, Reads

\* ... an event that is its number only, ...
LEMMA PlainReads ==
  ASSUME NEW event \in {MOJO_FRAME_INVALID, MOJO_GC, MOJO_IDLE}, NEW t \in Seq(Byte)
  PROVE  Reads([event |-> event], t)
<1> DEFINE e == [event |-> event]
           s == emit(e) \o t
<1>1. e.event = event
  OBVIOUS
<1> HIDE DEF e
<1>2. event \in Byte /\ mojo_event(event) = <<event>> /\ <<event>> \in Seq(Byte)
  BY EventType
<1>3. emit(e) = <<event>> /\ Seen(e) = e
  BY <1>1, <1>2, EmitCases, SeenCases
<1> HIDE DEF s
<1>4. s # <<>> /\ Head(s) = event /\ Tail(s) = t
  BY <1>2, <1>3, HeadOfConcat DEF s
<1>5. ReadEvent(s) = [e |-> [event |-> event], rest |-> t]
  BY <1>4, ReadEventCases
<1> QED
  BY <1>2, <1>3, <1>4, <1>5 DEF s, e, Reads

\* ... and a frame.
LEMMA FrameEventReads ==
  ASSUME NEW f \in Frame, NEW t \in Seq(Byte)
  PROVE  Reads([event |-> MOJO_FRAME, frame |-> f], t)
<1> DEFINE e == [event |-> MOJO_FRAME, frame |-> f]
           s == emit(e) \o t
           kept == [key |-> f.key, filename |-> MOJO_INT32(f.filename), scope |-> MOJO_INT32(f.scope),
                    line |-> f.line, line_end |-> f.line_end, column |-> f.column, column_end |-> f.column_end]
<1>1. e.event = MOJO_FRAME /\ e.frame = f
  OBVIOUS
<1> HIDE DEF e
<1>2. emit(e) = mojo_frame(f)
  BY <1>1, EmitCases
<1>3. Seen(e) = [event |-> MOJO_FRAME, frame |-> kept]
  BY <1>1, SeenCases
<1>4. /\ emit(e) \in Seq(Byte) /\ s # <<>> /\ Head(s) = MOJO_FRAME
      /\ ReadFrame(Tail(s)) = [frame |-> kept, rest |-> t]
  BY <1>2, FrameReads
<1> HIDE DEF s, kept
<1>5. ReadEvent(s) = [e |-> [event |-> MOJO_FRAME, frame |-> ReadFrame(Tail(s)).frame], rest |-> ReadFrame(Tail(s)).rest]
  BY <1>4, ReadEventCases
<1>6. ReadEvent(s) = [e |-> [event |-> MOJO_FRAME, frame |-> kept], rest |-> t]
  BY <1>4, <1>5
<1> QED
  BY <1>3, <1>4, <1>6 DEF s, e, Reads

\* Every event.
LEMMA EventReads == ASSUME NEW e \in Event, NEW t \in Seq(Byte) PROVE Reads(e, t)
<1>1. CASE e \in [event : {MOJO_METADATA}, label : String, value : String]
  <2>1. e = [event |-> MOJO_METADATA, label |-> e.label, value |-> e.value] /\ e.label \in String /\ e.value \in String
    BY <1>1
  <2> QED
    BY <2>1, MetadataReads, Zenon
<1>2. CASE e \in [event : {MOJO_STACK}, pid : Nat, iid : Nat, tid : String]
  <2>1. /\ e = [event |-> MOJO_STACK, pid |-> e.pid, iid |-> e.iid, tid |-> e.tid]
        /\ e.pid \in Nat /\ e.iid \in Nat /\ e.tid \in String
    BY <1>2
  <2> QED
    BY <2>1, StackReads, Zenon
<1>3. CASE e \in [event : {MOJO_FRAME}, frame : Frame]
  <2>1. e = [event |-> MOJO_FRAME, frame |-> e.frame] /\ e.frame \in Frame
    BY <1>3
  <2> QED
    BY <2>1, FrameEventReads, Zenon
<1>4. CASE e \in [event : {MOJO_FRAME_REF}, key : Nat]
  <2> DEFINE n == e.key
             sign == FALSE
             body == mojo_integer(n, sign)
  <2>1. e = [event |-> MOJO_FRAME_REF, key |-> e.key] /\ e.event = MOJO_FRAME_REF /\ e.key \in Nat
    BY <1>4
  <2>2. emit(e) = mojo_event(MOJO_FRAME_REF) \o body /\ Seen(e) = e
    <3>1. emit(e) = mojo_event(e.event) \o mojo_integer(e.key, FALSE) /\ Seen(e) = e
      BY <2>1, EmitCases, SeenCases
    <3> QED
      BY <2>1, <3>1, Zenon
  <2>3. n \in Nat /\ sign \in BOOLEAN /\ (IF sign THEN -n ELSE n) = e.key
    BY <2>1
  <2> HIDE DEF n, sign
  <2>4. body \in Seq(Byte) /\ ReadInteger(body \o t) = [num |-> e.key, rest |-> t]
    BY <2>3, IntegerReads
  <2> HIDE DEF body
  <2>5. mojo_event(MOJO_FRAME_REF) \o body \in Seq(Byte) /\ (mojo_event(MOJO_FRAME_REF) \o body) \o t # <<>>
        /\ ReadEvent((mojo_event(MOJO_FRAME_REF) \o body) \o t) = [e |-> [event |-> MOJO_FRAME_REF, key |-> e.key], rest |-> t]
    BY <2>4, NumberReads
  <2> QED
    BY <2>1, <2>2, <2>5 DEF Reads
<1>5. CASE e \in [event : {MOJO_FRAME_KERNEL}, scope : String]
  <2>1. e = [event |-> MOJO_FRAME_KERNEL, scope |-> e.scope] /\ e.scope \in String
    BY <1>5
  <2> QED
    BY <2>1, KernelReads, Zenon
<1>6. CASE e \in [event : {MOJO_METRIC_TIME}, value : Nat]
  <2> DEFINE n == e.value
             sign == FALSE
             body == mojo_integer(n, sign)
  <2>1. e = [event |-> MOJO_METRIC_TIME, value |-> e.value] /\ e.event = MOJO_METRIC_TIME /\ e.value \in Nat
    BY <1>6
  <2>2. emit(e) = mojo_event(MOJO_METRIC_TIME) \o body /\ Seen(e) = e
    <3>1. emit(e) = mojo_event(e.event) \o mojo_integer(e.value, FALSE) /\ Seen(e) = e
      BY <2>1, EmitCases, SeenCases
    <3> QED
      BY <2>1, <3>1, Zenon
  <2>3. n \in Nat /\ sign \in BOOLEAN /\ (IF sign THEN -n ELSE n) = e.value
    BY <2>1
  <2> HIDE DEF n, sign
  <2>4. body \in Seq(Byte) /\ ReadInteger(body \o t) = [num |-> e.value, rest |-> t]
    BY <2>3, IntegerReads
  <2> HIDE DEF body
  <2>5. mojo_event(MOJO_METRIC_TIME) \o body \in Seq(Byte) /\ (mojo_event(MOJO_METRIC_TIME) \o body) \o t # <<>>
        /\ ReadEvent((mojo_event(MOJO_METRIC_TIME) \o body) \o t) = [e |-> [event |-> MOJO_METRIC_TIME, value |-> e.value], rest |-> t]
    BY <2>4, NumberReads
  <2> QED
    BY <2>1, <2>2, <2>5 DEF Reads
<1>7. CASE e \in [event : {MOJO_METRIC_MEMORY}, value : Int]
  <2> DEFINE n == IF e.value < 0 THEN -e.value ELSE e.value
             sign == e.value < 0
             body == mojo_integer(n, sign)
  <2>1. e = [event |-> MOJO_METRIC_MEMORY, value |-> e.value] /\ e.event = MOJO_METRIC_MEMORY /\ e.value \in Int
    BY <1>7
  <2>2. emit(e) = mojo_event(MOJO_METRIC_MEMORY) \o body /\ Seen(e) = e
    <3>1. emit(e) = mojo_metric_memory(e.value) /\ Seen(e) = e
      BY <2>1, EmitCases, SeenCases
    <3> QED
      BY <3>1, Zenon DEF mojo_metric_memory
  <2>3. n \in Nat /\ sign \in BOOLEAN /\ (IF sign THEN -n ELSE n) = e.value
    BY <2>1
  <2> HIDE DEF n, sign
  <2>4. body \in Seq(Byte) /\ ReadInteger(body \o t) = [num |-> e.value, rest |-> t]
    BY <2>3, IntegerReads
  <2> HIDE DEF body
  <2>5. mojo_event(MOJO_METRIC_MEMORY) \o body \in Seq(Byte) /\ (mojo_event(MOJO_METRIC_MEMORY) \o body) \o t # <<>>
        /\ ReadEvent((mojo_event(MOJO_METRIC_MEMORY) \o body) \o t) = [e |-> [event |-> MOJO_METRIC_MEMORY, value |-> e.value], rest |-> t]
    BY <2>4, NumberReads
  <2> QED
    BY <2>1, <2>2, <2>5 DEF Reads
<1>8. CASE e \in [event : {MOJO_STRING}, key : Nat, string : String]
  <2>1. /\ e = [event |-> MOJO_STRING, key |-> e.key, string |-> e.string]
        /\ e.key \in Nat /\ e.string \in String
    BY <1>8
  <2> QED
    BY <2>1, StringEventReads, Zenon
<1>9. CASE e \in [event : {MOJO_FRAME_INVALID, MOJO_GC, MOJO_IDLE}]
  <2>1. e = [event |-> e.event] /\ e.event \in {MOJO_FRAME_INVALID, MOJO_GC, MOJO_IDLE}
    BY <1>9
  <2> QED
    BY <2>1, PlainReads, Zenon
<1> QED
  BY <1>1, <1>2, <1>3, <1>4, <1>5, <1>6, <1>7, <1>8, <1>9, Zenon DEF Event

\* What is left to be read after each event that was emitted is what was emitted after
\* it; and that of the last event that was read is what is in the stream.
Left(at) ==
  /\ at \in [0..Len(emitted) -> Seq(Byte)]
  /\ at[Len(emitted)] = <<>> /\ at[Len(read)] = bytes
  /\ \A i \in (Len(read) + 1)..Len(emitted) : at[i - 1] = emit(emitted[i]) \o at[i]

\* What was read is what was emitted first, as it is seen, and the bytes in the stream are
\* those of the rest.
StreamInv ==
  /\ emitted \in Seq(Events) /\ read \in Seq({Seen(e) : e \in Events})
  /\ Len(read) <= Len(emitted)
  /\ \A i \in 1..Len(read) : read[i] = Seen(emitted[i])
  /\ \E at : Left(at)

\* An event that is emitted is left to be read last.
LEMMA EmittedStep ==
  ASSUME StreamInv, NEW e \in Events, Emitted(e)
  PROVE  StreamInv'
<1> DEFINE N == Len(emitted)
<1>1. e \in Event /\ emitted \in Seq(Events) /\ N \in Nat /\ Len(read) \in Nat /\ Len(read) <= N
  BY StreamAssumption, LenProperties DEF StreamInv
<1>2. /\ emitted' \in Seq(Events) /\ Len(emitted') = N + 1 /\ emitted'[N + 1] = e
      /\ \A i \in 1..N : emitted'[i] = emitted[i]
  BY <1>1, AppendProperties DEF Emitted
<1>3. read' = read /\ bytes' = bytes \o emit(e)
  BY DEF Emitted
<1>4. PICK at : Left(at)
  BY DEF StreamInv
<1>5. /\ at \in [0..N -> Seq(Byte)] /\ at[N] = <<>> /\ at[Len(read)] = bytes
      /\ \A i \in (Len(read) + 1)..N : at[i - 1] = emit(emitted[i]) \o at[i]
  BY <1>4 DEF Left
<1>6. <<>> \in Seq(Byte) /\ emit(e) \in Seq(Byte)
  <2>1. <<>> \in Seq(Byte)
    OBVIOUS
  <2> QED
    BY <1>1, <2>1, EventReads DEF Reads
<1> DEFINE next == [i \in 0..(N + 1) |-> IF i = N + 1 THEN <<>> ELSE at[i] \o emit(e)]
<1> HIDE DEF N
<1>7. \A i \in 0..N : at[i] \o emit(e) \in Seq(Byte)
  BY <1>5, <1>6, ConcatProperties
<1>8. next \in [0..(N + 1) -> Seq(Byte)] /\ next[N + 1] = <<>>
  <2>1. \A i \in 0..(N + 1) : i = N + 1 \/ i \in 0..N
    BY <1>1
  <2>2. N + 1 \in 0..(N + 1)
    BY <1>1
  <2> QED
    BY <1>6, <1>7, <2>1, <2>2
<1>9. \A i \in 0..N : next[i] = at[i] \o emit(e)
  BY <1>1
<1> HIDE DEF next
<1>10. next[Len(read)] = bytes \o emit(e)
  <2>1. Len(read) \in 0..N
    BY <1>1
  <2>2. next[Len(read)] = at[Len(read)] \o emit(e)
    BY <1>9, <2>1, Zenon
  <2> QED
    BY <1>5, <2>2, Zenon
<1>11. ASSUME NEW i \in (Len(read) + 1)..(N + 1)
       PROVE  next[i - 1] = emit(emitted'[i]) \o next[i]
  <2>1. CASE i = N + 1
    <3>1. next[i - 1] = <<>> \o emit(e) /\ next[i] = <<>> /\ emitted'[i] = e
      <4>1. i - 1 = N /\ N \in 0..N
        BY <1>1, <2>1
      <4>2. next[N] = at[N] \o emit(e)
        BY <1>9, <4>1, Zenon
      <4> QED
        BY <1>2, <1>5, <1>8, <2>1, <4>1, <4>2, Zenon
    <3>2. <<>> \o emit(e) = emit(e) /\ emit(e) \o <<>> = emit(e)
      BY <1>6, ConcatEmptySeq
    <3> QED
      BY <3>1, <3>2
  <2>2. CASE i # N + 1
    <3>1. i \in (Len(read) + 1)..N /\ i \in 1..N /\ i \in 0..N /\ i - 1 \in 0..N
      BY <1>1, <2>2
    <3>2. emitted'[i] = emitted[i] /\ at[i] \in Seq(Byte) /\ emitted[i] \in Event
      <4>1. emitted[i] \in Events
        BY <1>1, <3>1, ElementOfSeq DEF N
      <4> QED
        BY <1>2, <1>5, <3>1, <4>1, StreamAssumption
    <3>3. emit(emitted[i]) \in Seq(Byte)
      BY <3>2, EventReads DEF Reads
    <3>4. next[i - 1] = (emit(emitted[i]) \o at[i]) \o emit(e) /\ next[i] = at[i] \o emit(e)
      BY <1>5, <1>9, <3>1
    <3>5. (emit(emitted[i]) \o at[i]) \o emit(e) = emit(emitted[i]) \o (at[i] \o emit(e))
      <4> DEFINE a == emit(emitted[i])
                 b == at[i]
                 c == emit(e)
      <4>1. a \in Seq(Byte) /\ b \in Seq(Byte) /\ c \in Seq(Byte)
        BY <1>6, <3>2, <3>3
      <4> HIDE DEF a, b, c
      <4>2. (a \o b) \o c = a \o (b \o c)
        BY <4>1, ConcatAssociative
      <4> QED
        BY <4>2 DEF a, b, c
    <3> QED
      BY <3>2, <3>4, <3>5
  <2> QED
    BY <2>1, <2>2
<1>12. Left(next)'
  BY <1>2, <1>3, <1>8, <1>10, <1>11 DEF Left
<1>13. \A i \in 1..Len(read) : i \in 1..N
  BY <1>1
<1>14. (\E at_1 : Left(at_1))'
  BY <1>12
<1>15. read' \in Seq({Seen(u) : u \in Events}) /\ Len(read') <= Len(emitted')
  <2>1. read \in Seq({Seen(u) : u \in Events})
    BY Zenon DEF StreamInv
  <2>2. Len(read) <= N + 1
    BY <1>1
  <2> QED
    BY <1>2, <1>3, <2>1, <2>2, Zenon
<1>16. \A i \in 1..Len(read') : read'[i] = Seen(emitted'[i])
  <2>1. \A i \in 1..Len(read) : read[i] = Seen(emitted[i])
    BY Zenon DEF StreamInv
  <2> QED
    BY <1>2, <1>3, <1>13, <2>1, Zenon
<1> QED
  BY <1>2, <1>14, <1>15, <1>16, Zenon DEF StreamInv

\* What is read is what was left to be read first.
LEMMA ReadStep ==
  ASSUME StreamInv, Read
  PROVE  StreamInv'
<1> DEFINE N == Len(emitted)
           R == Len(read)
<1>1. /\ emitted \in Seq(Events) /\ N \in Nat /\ R \in Nat /\ R <= N
      /\ read \in Seq({Seen(e) : e \in Events})
  BY LenProperties DEF StreamInv
<1>2. PICK at : Left(at)
  BY DEF StreamInv
<1>3. /\ at \in [0..N -> Seq(Byte)] /\ at[N] = <<>> /\ at[R] = bytes
      /\ \A i \in (R + 1)..N : at[i - 1] = emit(emitted[i]) \o at[i]
  BY <1>2 DEF Left
<1>4. bytes # <<>> /\ read' = Append(read, ReadEvent(bytes).e) /\ bytes' = ReadEvent(bytes).rest /\ emitted' = emitted
  BY DEF Read
<1>5. R < N
  BY <1>1, <1>3, <1>4
<1> DEFINE e == emitted[R + 1]
<1>6. e \in Events /\ e \in Event
  <2>1. R + 1 \in 1..N
    BY <1>1, <1>5
  <2> QED
    BY <1>1, <2>1, ElementOfSeq, StreamAssumption
<1>7. bytes = emit(e) \o at[R + 1] /\ at[R + 1] \in Seq(Byte)
  <2>1. R + 1 \in (R + 1)..N /\ R + 1 \in 0..N /\ (R + 1) - 1 = R
    BY <1>1, <1>5
  <2> HIDE DEF N, R
  <2> QED
    BY <1>3, <2>1
<1> HIDE DEF e
<1>8. ReadEvent(bytes) = [e |-> Seen(e), rest |-> at[R + 1]]
  BY <1>6, <1>7, EventReads DEF Reads
<1>9. read' = Append(read, Seen(e)) /\ bytes' = at[R + 1]
  BY <1>4, <1>8
<1>10. /\ read' \in Seq({Seen(e_1) : e_1 \in Events}) /\ Len(read') = R + 1 /\ read'[R + 1] = Seen(e)
       /\ \A i \in 1..R : read'[i] = read[i]
  <2>1. Seen(e) \in {Seen(e_1) : e_1 \in Events}
    BY <1>6
  <2> QED
    BY <1>1, <1>9, <2>1, AppendProperties
<1>11. \A i \in 1..Len(read') : read'[i] = Seen(emitted'[i])
  <2> TAKE i \in 1..Len(read')
  <2>1. CASE i = R + 1
    BY <1>4, <1>10, <2>1 DEF e
  <2>2. CASE i # R + 1
    <3>1. i \in 1..R
      BY <1>1, <1>10, <2>2
    <3> QED
      BY <1>4, <1>10, <3>1 DEF StreamInv
  <2> QED
    BY <2>1, <2>2
<1>12. Left(at)'
  <2>1. Len(emitted') = N /\ Len(read') = R + 1
    BY <1>4, <1>10
  <2>2. \A i \in (R + 2)..N : at[i - 1] = emit(emitted'[i]) \o at[i]
    <3>1. \A i \in (R + 2)..N : i \in (R + 1)..N
      BY <1>1
    <3> QED
      BY <1>3, <1>4, <3>1
  <2>3. (R + 1) + 1 = R + 2
    BY <1>1
  <2> HIDE DEF N, R
  <2> QED
    BY <1>3, <1>9, <2>1, <2>2, <2>3 DEF Left
<1>13. (\E at_1 : Left(at_1))'
  BY <1>12
<1>14. Len(read') <= Len(emitted') /\ emitted' \in Seq(Events)
  BY <1>1, <1>4, <1>5, <1>10
<1> QED
  BY <1>10, <1>11, <1>13, <1>14 DEF StreamInv

\* The whole of it is an invariant.
LEMMA StreamInvariant == StreamSpec => []StreamInv
<1>1. StreamInit => StreamInv
  <2> SUFFICES ASSUME StreamInit PROVE StreamInv
    OBVIOUS
  <2>1. bytes = <<>> /\ read = <<>> /\ emitted = <<>> /\ Len(read) = 0 /\ Len(emitted) = 0
    BY DEF StreamInit
  <2> DEFINE at == [i \in 0..0 |-> <<>>]
  <2>2. Left(at)
    BY <2>1 DEF Left
  <2> HIDE DEF at
  <2>3. \E at_1 : Left(at_1)
    BY <2>2
  <2> QED
    BY <2>1, <2>3 DEF StreamInv
<1>2. StreamInv /\ [StreamNext]_<<bytes, read, emitted>> => StreamInv'
  <2> SUFFICES ASSUME StreamInv, [StreamNext]_<<bytes, read, emitted>> PROVE StreamInv'
    OBVIOUS
  <2>1. CASE UNCHANGED <<bytes, read, emitted>>
    BY <2>1 DEF StreamInv, Left
  <2>2. CASE Read
    BY <2>2, ReadStep
  <2>3. ASSUME NEW e \in Events, Emitted(e)
        PROVE  StreamInv'
    BY <2>3, EmittedStep
  <2> QED
    BY <2>1, <2>2, <2>3 DEF StreamNext
<1> QED
  BY <1>1, <1>2, PTL DEF StreamSpec

\* A reader of the stream reads every event that was emitted, in order and as it was, however
\* far it is behind.
THEOREM StreamCorrect == StreamSpec => []StreamReads
<1>1. StreamInv => StreamReads
  <2> SUFFICES ASSUME StreamInv PROVE StreamReads
    OBVIOUS
  <2>1. Len(read) <= Len(emitted) /\ \A i \in 1..Len(read) : read[i] = Seen(emitted[i])
    BY DEF StreamInv
  <2>2. ASSUME bytes = <<>>, Len(read) # Len(emitted)
        PROVE  FALSE
    <3> DEFINE N == Len(emitted)
               R == Len(read)
    <3>1. emitted \in Seq(Events) /\ N \in Nat /\ R \in Nat /\ R < N
      BY <2>1, <2>2, LenProperties DEF StreamInv
    <3>2. PICK at : Left(at)
      BY DEF StreamInv
    <3>3. /\ at \in [0..N -> Seq(Byte)] /\ at[R] = bytes
          /\ \A i \in (R + 1)..N : at[i - 1] = emit(emitted[i]) \o at[i]
      BY <3>2 DEF Left
    <3>4. R + 1 \in (R + 1)..N /\ R + 1 \in 0..N /\ (R + 1) - 1 = R /\ R + 1 \in 1..N
      BY <3>1
    <3>5. emitted[R + 1] \in Event
      BY <3>1, <3>4, ElementOfSeq, StreamAssumption
    <3> HIDE DEF N, R
    <3>6. bytes = emit(emitted[R + 1]) \o at[R + 1] /\ at[R + 1] \in Seq(Byte)
      BY <3>3, <3>4
    <3>7. bytes # <<>>
      BY <3>5, <3>6, EventReads DEF Reads
    <3> QED
      BY <2>2, <3>7
  <2> QED
    BY <2>1, <2>2 DEF StreamReads
<1> QED
  BY <1>1, StreamInvariant, PTL

-------------------------------------------------------------------------------
(* The keys of frames. *)

\* A multiple of a number is no less than it, ...
LEMMA MulMono == ASSUME NEW b \in Nat \ {0}, NEW k \in Int, k >= 1 PROVE b * k >= b
BY SMT
\* ... and one of the other sign is no more than its negative.
LEMMA MulNeg == ASSUME NEW b \in Nat \ {0}, NEW k \in Int, k <= -1 PROVE b * k <= -b
BY SMT
\* A difference of multiples.
LEMMA Distr == ASSUME NEW b \in Nat, NEW p \in Int, NEW q \in Int PROVE b * p - b * q = b * (p - q)
BY SMT
\* Division with a remainder, ...
LEMMA DivModDef ==
  ASSUME NEW b \in Nat \ {0}, NEW n \in Int
  PROVE  n \div b \in Int /\ n % b \in Int /\ 0 <= n % b /\ n % b < b /\ n = (b * (n \div b)) + (n % b)
BY SMT
\* ... and the remainder is the only one there is.
LEMMA ModUnique ==
  ASSUME NEW b \in Nat \ {0}, NEW q \in Int, NEW r \in Int, 0 <= r, r < b
  PROVE  ((b * q) + r) % b = r
<1> DEFINE n == (b * q) + r
           p == n \div b
           s == n % b
<1>1. n \in Int /\ b * q \in Int
  BY SMT
<1>2. p \in Int /\ s \in Int /\ 0 <= s /\ s < b /\ n = (b * p) + s
  <2> HIDE DEF n
  <2> QED
    BY <1>1, DivModDef
<1> DEFINE k == p - q
<1>3. b * k = (b * p) - (b * q) /\ k \in Int /\ b * p \in Int
  BY <1>2, Distr
<1>4. b * k = r - s
  BY <1>1, <1>2, <1>3
<1>5. k = 0
  BY <1>2, <1>3, <1>4, MulMono, MulNeg
<1>6. b * k = 0
  BY <1>5
<1> HIDE DEF k
<1> QED
  BY <1>2, <1>4, <1>6

\* The values of two bits multiplied.
LEMMA BitAdd ==
  ASSUME NEW i \in Nat, NEW j \in Nat, i + j <= KEY_BITS
  PROVE  Bit[i + j] = Bit[i] * Bit[j]
<1> DEFINE Bad == {k \in 0..j : Bit[i + k] # Bit[i] * Bit[k]}
<1>1. Bad = {}
  <2> SUFFICES ASSUME Bad # {} PROVE FALSE
    OBVIOUS
  <2>1. PICK m \in Bad : \A k \in Bad : m <= k
    <3>1. Bad \in SUBSET Nat
      OBVIOUS
    <3> HIDE DEF Bad
    <3> QED
      BY <3>1, Least
  <2>2. m \in 0..j /\ Bit[i + m] # Bit[i] * Bit[m]
    BY <2>1
  <2>3. KEY_BITS \in Nat /\ i \in 0..KEY_BITS /\ m \in 0..KEY_BITS /\ i + m \in 0..KEY_BITS
    BY <2>2, BitsAssumption
  <2>4. Bit[i] \in Nat
    BY <2>3, BitProperties
  <2>5. m # 0
    <3>1. m = 0 => i + m = i
      OBVIOUS
    <3>2. Bit[0] = 1
      BY BitProperties
    <3> DEFINE b == Bit[i]
    <3>3. b \in Nat
      BY <2>4
    <3> HIDE DEF b
    <3>4. b = b * 1
      BY <3>3
    <3> QED
      BY <2>2, <3>1, <3>2, <3>4 DEF b
  <2>6. m - 1 \in 0..j /\ m \in 1..KEY_BITS /\ i + m \in 1..KEY_BITS
        /\ m - 1 \in 0..KEY_BITS /\ i + (m - 1) \in 0..KEY_BITS /\ (i + m) - 1 = i + (m - 1)
    BY <2>2, <2>3, <2>5
  <2>7. Bit[i + (m - 1)] = Bit[i] * Bit[m - 1]
    <3>1. m - 1 \notin Bad
      <4> HIDE DEF Bad
      <4> QED
        BY <2>1, <2>6
    <3> QED
      BY <2>6, <3>1
  <2>8. Bit[i + m] = 2 * Bit[i + (m - 1)] /\ Bit[m] = 2 * Bit[m - 1] /\ Bit[m - 1] \in Nat
    BY <2>6, BitProperties
  <2> DEFINE b == Bit[i]
             c == Bit[m - 1]
  <2>9. b \in Nat /\ c \in Nat
    BY <2>4, <2>8
  <2>10. Bit[i + m] = 2 * (b * c) /\ Bit[m] = 2 * c
    BY <2>7, <2>8
  <2> HIDE DEF b, c
  <2>11. 2 * (b * c) = b * (2 * c)
    BY <2>9
  <2> QED
    BY <2>2, <2>10, <2>11 DEF b
<1>2. j \in 0..j
  OBVIOUS
<1> QED
  BY <1>1, <1>2

\* A higher bit has a greater value.
LEMMA BitGrows ==
  ASSUME NEW i \in Nat, NEW j \in Nat, i <= j, j <= KEY_BITS
  PROVE  Bit[i] <= Bit[j]
<1>1. j - i \in Nat /\ i + (j - i) = j /\ KEY_BITS \in Nat /\ i \in 0..KEY_BITS /\ j - i \in 0..KEY_BITS
  BY BitsAssumption
<1>2. Bit[j] = Bit[i] * Bit[j - i]
  <2>1. i + (j - i) <= KEY_BITS
    BY <1>1
  <2>2. Bit[i + (j - i)] = Bit[i] * Bit[j - i]
    BY <1>1, <2>1, BitAdd
  <2> QED
    BY <1>1, <2>2
<1> DEFINE b == Bit[i]
           c == Bit[j - i]
<1>3. b \in Nat \ {0} /\ c \in Nat \ {0}
  BY <1>1, BitProperties
<1>4. Bit[j] = b * c
  BY <1>2
<1> HIDE DEF b, c
<1>5. b * c >= b
  <2>1. c \in Int /\ c >= 1
    BY <1>3
  <2> QED
    BY <1>3, <2>1, MulMono
<1>6. b * c \in Nat
  BY <1>3
<1> QED
  BY <1>3, <1>4, <1>5, <1>6 DEF b

\* The low bits of a number, and one bit more.
LEMMA ModStep ==
  ASSUME NEW n \in Nat, NEW i \in Nat, i < KEY_BITS
  PROVE  n % Bit[i + 1] = (n % Bit[i]) + (IF Has(n, i) THEN Bit[i] ELSE 0)
<1> DEFINE b == Bit[i]
           c == Bit[i + 1]
           q == n \div c
           s == n % c
<1>1. b \in Nat \ {0} /\ c \in Nat \ {0} /\ c = 2 * b
  <2>1. i \in 0..KEY_BITS /\ i + 1 \in 1..KEY_BITS /\ i + 1 \in 0..KEY_BITS /\ (i + 1) - 1 = i
    BY BitsAssumption
  <2> QED
    BY <2>1, BitProperties
<1> HIDE DEF b, c
<1>2. q \in Int /\ s \in Int /\ 0 <= s /\ s < c /\ n = (c * q) + s
  <2>1. n \in Int
    OBVIOUS
  <2> QED
    BY <1>1, <2>1, DivModDef
<1> HIDE DEF q, s
<1>3. CASE s >= b
  <2>1. n = (b * ((2 * q) + 1)) + (s - b)
    <3>1. c * q = b * (2 * q) /\ b * ((2 * q) + 1) = (b * (2 * q)) + b
      BY <1>1, <1>2
    <3> QED
      BY <1>1, <1>2, <3>1
  <2>2. ((b * ((2 * q) + 1)) + (s - b)) % b = s - b
    <3>1. (2 * q) + 1 \in Int /\ s - b \in Int /\ 0 <= s - b /\ s - b < b
      BY <1>1, <1>2, <1>3
    <3> QED
      BY <1>1, <3>1, ModUnique
  <2>3. n % b = s - b
    BY <2>1, <2>2
  <2>4. s = (n % b) + b
    BY <1>1, <1>2, <2>3
  <2> QED
    BY <1>3, <2>4 DEF Has, b, c, s
<1>4. CASE ~(s >= b)
  <2>1. n = (b * (2 * q)) + s
    <3>1. c * q = b * (2 * q)
      BY <1>1, <1>2
    <3> QED
      BY <1>1, <1>2, <3>1
  <2>2. ((b * (2 * q)) + s) % b = s
    <3>1. 2 * q \in Int /\ s < b
      BY <1>1, <1>2, <1>4
    <3> QED
      BY <1>1, <1>2, <3>1, ModUnique
  <2>3. n % b = s
    BY <2>1, <2>2
  <2>4. s = (n % b) + 0
    BY <1>2, <2>3
  <2> QED
    BY <1>4, <2>4 DEF Has, b, c, s
<1> QED
  BY <1>3, <1>4
\* The bits that are added to what there is so far of Or(m, n).
Added(m, n, i) == IF Has(m, i) \/ Has(n, i) THEN Bit[i] ELSE 0

\* Both numbers' bits, from the lowest up.
LEMMA OrDefined ==
  ASSUME NEW m, NEW n
  PROVE  \E or : /\ or[0] = 0
                 /\ \A i \in 1..KEY_BITS : or[i] = or[i - 1] + Added(m, n, i - 1)
                 /\ Or(m, n) = or[KEY_BITS]
<1> DEFINE Begins(k, g) == g = [i \in 0..k |-> IF i = 0 THEN 0 ELSE g[i - 1] + Added(m, n, i - 1)]
           Short == {k \in Nat : ~\E g : Begins(k, g)}
<1> HIDE DEF Begins
<1>1. Short = {}
  <2> SUFFICES ASSUME Short # {} PROVE FALSE
    OBVIOUS
  <2>1. PICK j \in Short : \A k \in Short : j <= k
    BY Least
  <2>2. j \in Nat /\ j # 0
    <3>1. Begins(0, [i \in 0..0 |-> 0])
      BY DEF Begins
    <3> QED
      BY <2>1, <3>1
  <2>3. j - 1 \in Nat /\ j - 1 \notin Short
    <3> HIDE DEF Short
    <3> QED
      BY <2>1, <2>2
  <2>4. PICK g : Begins(j - 1, g)
    BY <2>3
  <2> DEFINE h == [i \in 0..j |-> IF i < j THEN g[i] ELSE g[i - 1] + Added(m, n, i - 1)]
  <2> HIDE DEF Short
  <2>5. \A i \in 0..j : i # 0 => h[i - 1] = g[i - 1]
    BY <2>2
  <2>6. \A i \in 0..j : h[i] = IF i = 0 THEN 0 ELSE g[i - 1] + Added(m, n, i - 1)
    BY <2>2, <2>4 DEF Begins
  <2>7. Begins(j, h)
    <3>1. h = [i \in 0..j |-> h[i]]
      OBVIOUS
    <3> HIDE DEF h
    <3>2. \A i \in 0..j : h[i] = IF i = 0 THEN 0 ELSE h[i - 1] + Added(m, n, i - 1)
      BY <2>5, <2>6
    <3> QED
      BY <3>1, <3>2 DEF Begins
  <2> QED
    BY <2>1, <2>7 DEF Short
<1>2. \E g : Begins(KEY_BITS, g)
  BY <1>1, BitsAssumption
<1> DEFINE B == CHOOSE g : Begins(KEY_BITS, g)
<1>3. Begins(KEY_BITS, B)
  BY <1>2
<1>4. Or(m, n) = B[KEY_BITS]
  BY Zenon DEF Or, Begins, Added
<1> HIDE DEF B
<1>5. B = [i \in 0..KEY_BITS |-> IF i = 0 THEN 0 ELSE B[i - 1] + Added(m, n, i - 1)]
  BY <1>3, Zenon DEF Begins
<1>6. 0 \in 0..KEY_BITS /\ \A i \in 1..KEY_BITS : i \in 0..KEY_BITS /\ i # 0
  BY BitsAssumption
<1>7. \A i \in 0..KEY_BITS : B[i] = IF i = 0 THEN 0 ELSE B[i - 1] + Added(m, n, i - 1)
  BY <1>5, Zenon
<1>8. B[0] = 0 /\ \A i \in 1..KEY_BITS : B[i] = B[i - 1] + Added(m, n, i - 1)
  BY <1>6, <1>7, Zenon
<1> QED
  BY <1>4, <1>8

\* Numbers that have no bit in common add up.
LEMMA OrApart ==
  ASSUME NEW m \in Nat, NEW n \in Nat, m < Bit[KEY_BITS], n < Bit[KEY_BITS],
         \A i \in 0..(KEY_BITS - 1) : ~(Has(m, i) /\ Has(n, i))
  PROVE  Or(m, n) = m + n
<1>1. PICK or : /\ or[0] = 0
                /\ \A i \in 1..KEY_BITS : or[i] = or[i - 1] + Added(m, n, i - 1)
                /\ Or(m, n) = or[KEY_BITS]
  BY OrDefined
<1> DEFINE Sum(i) == (m % Bit[i]) + (n % Bit[i])
           Bad == {i \in 0..KEY_BITS : or[i] # Sum(i)}
<1>2. Bad = {}
  <2> SUFFICES ASSUME Bad # {} PROVE FALSE
    OBVIOUS
  <2>1. PICK j \in Bad : \A k \in Bad : j <= k
    <3>1. Bad \in SUBSET Nat
      OBVIOUS
    <3> HIDE DEF Bad
    <3> QED
      BY <3>1, Least
  <2>2. j \in 0..KEY_BITS /\ or[j] # Sum(j)
    BY <2>1
  <2>3. j # 0
    <3>1. Sum(0) = 0
      BY BitProperties
    <3> HIDE DEF Sum
    <3> QED
      BY <1>1, <2>2, <3>1
  <2>4. j - 1 \in 0..KEY_BITS /\ j - 1 \in Nat /\ j - 1 < KEY_BITS /\ (j - 1) + 1 = j /\ j \in 1..KEY_BITS
        /\ j - 1 \in 0..(KEY_BITS - 1)
    BY <2>2, <2>3, BitsAssumption
  <2>5. or[j - 1] = Sum(j - 1)
    <3>1. j - 1 \notin Bad
      <4> HIDE DEF Bad
      <4> QED
        BY <2>1, <2>4
    <3> HIDE DEF Sum
    <3> QED
      BY <2>4, <3>1
  <2>6. or[j] = Sum(j - 1) + Added(m, n, j - 1)
    <3> HIDE DEF Sum
    <3> QED
      BY <1>1, <2>4, <2>5
  <2>7. /\ m % Bit[(j - 1) + 1] = (m % Bit[j - 1]) + (IF Has(m, j - 1) THEN Bit[j - 1] ELSE 0)
        /\ n % Bit[(j - 1) + 1] = (n % Bit[j - 1]) + (IF Has(n, j - 1) THEN Bit[j - 1] ELSE 0)
    BY <2>4, ModStep
  <2>8. ~(Has(m, j - 1) /\ Has(n, j - 1))
    BY <2>4
  <2>9. m % Bit[j - 1] \in Int /\ n % Bit[j - 1] \in Int /\ Bit[j - 1] \in Int
    <3>1. Bit[j - 1] \in Nat \ {0} /\ m \in Int /\ n \in Int
      BY <2>4, BitProperties
    <3> QED
      BY <3>1, DivModDef
  <2>10. Sum(j) = Sum(j - 1) + Added(m, n, j - 1)
    BY <2>4, <2>7, <2>8, <2>9 DEF Added
  <2> HIDE DEF Sum
  <2> QED
    BY <2>2, <2>6, <2>10
<1>3. or[KEY_BITS] = Sum(KEY_BITS)
  <2>1. KEY_BITS \in 0..KEY_BITS
    BY BitsAssumption
  <2> HIDE DEF Sum
  <2> QED
    BY <1>2, <2>1
<1>4. m % Bit[KEY_BITS] = m /\ n % Bit[KEY_BITS] = n
  <2> DEFINE b == Bit[KEY_BITS]
  <2>1. b \in Nat \ {0}
    BY BitsAssumption, BitProperties
  <2>2. m < b /\ n < b
    OBVIOUS
  <2> HIDE DEF b
  <2>3. m = (b * 0) + m /\ n = (b * 0) + n
    BY <2>1
  <2>4. ((b * 0) + m) % b = m /\ ((b * 0) + n) % b = n
    BY <2>1, <2>2, ModUnique
  <2> QED
    BY <2>3, <2>4 DEF b
<1> QED
  BY <1>1, <1>3, <1>4

\* The highest bit of one of two numbers is that of their bits.
LEMMA OrTop ==
  ASSUME NEW m, NEW n, KEY_BITS # 0, Has(n, KEY_BITS - 1)
  PROVE  Or(m, n) \in Nat /\ Or(m, n) >= Bit[KEY_BITS - 1]
<1>1. PICK or : /\ or[0] = 0
                /\ \A i \in 1..KEY_BITS : or[i] = or[i - 1] + Added(m, n, i - 1)
                /\ Or(m, n) = or[KEY_BITS]
  BY OrDefined
<1>2. \A i \in 0..(KEY_BITS - 1) : Added(m, n, i) \in Nat
  <2>1. \A i \in 0..(KEY_BITS - 1) : Bit[i] \in Nat
    BY BitsAssumption, BitProperties
  <2> QED
    BY <2>1 DEF Added
<1> DEFINE Bad == {i \in 0..KEY_BITS : or[i] \notin Nat}
<1>3. Bad = {}
  <2> SUFFICES ASSUME Bad # {} PROVE FALSE
    OBVIOUS
  <2>1. PICK j \in Bad : \A k \in Bad : j <= k
    <3>1. Bad \in SUBSET Nat
      OBVIOUS
    <3> HIDE DEF Bad
    <3> QED
      BY <3>1, Least
  <2>2. j \in 0..KEY_BITS /\ or[j] \notin Nat
    BY <2>1
  <2>3. j # 0
    BY <1>1, <2>2
  <2>4. j - 1 \in 0..KEY_BITS /\ j \in 1..KEY_BITS /\ j - 1 \in 0..(KEY_BITS - 1)
    BY <2>2, <2>3, BitsAssumption
  <2>5. or[j - 1] \in Nat
    <3>1. j - 1 \notin Bad
      <4> HIDE DEF Bad
      <4> QED
        BY <2>1, <2>4
    <3> QED
      BY <2>4, <3>1
  <2> QED
    BY <1>1, <1>2, <2>2, <2>4, <2>5
<1>4. /\ KEY_BITS \in 1..KEY_BITS /\ KEY_BITS - 1 \in 0..KEY_BITS /\ KEY_BITS - 1 \in 0..(KEY_BITS - 1)
  BY BitsAssumption
<1>5. or[KEY_BITS - 1] \in Nat
  BY <1>3, <1>4
<1>6. Added(m, n, KEY_BITS - 1) = Bit[KEY_BITS - 1]
  BY DEF Added
<1>7. Bit[KEY_BITS - 1] \in Nat
  BY <1>4, BitProperties
<1> QED
  BY <1>1, <1>4, <1>5, <1>6, <1>7
\* The key of an instruction that fits is its code object and the instruction, side by side;
\* it does not reach the highest bit.
LEMMA KeyValue ==
  ASSUME NEW code \in Nat, NEW l \in Nat, l < Bit[LASTI_BITS]
  PROVE  /\ py_frame_key(code, l) = (Bit[LASTI_BITS] * MOJO_INT32(code)) + l
         /\ MOJO_INT32(code) \in Nat
         /\ py_frame_key(code, l) < Bit[KEY_BITS - 1]
<1> DEFINE a == MOJO_INT32(code)
           b == Bit[LASTI_BITS]
           r == Bit[REF_BITS]
           m == a * b
<1>1. /\ LASTI_BITS \in Nat /\ REF_BITS \in Nat /\ KEY_BITS \in Nat /\ KEY_BITS - 1 \in Nat
      /\ LASTI_BITS \in 0..KEY_BITS /\ REF_BITS \in 0..KEY_BITS /\ KEY_BITS - 1 \in 0..KEY_BITS
      /\ REF_BITS + LASTI_BITS \in 0..KEY_BITS /\ REF_BITS + LASTI_BITS <= KEY_BITS - 1
      /\ KEY_BITS \in 0..KEY_BITS /\ REF_BITS + LASTI_BITS <= KEY_BITS
      /\ LASTI_BITS <= KEY_BITS /\ KEY_BITS - 1 <= KEY_BITS /\ LASTI_BITS + REF_BITS = REF_BITS + LASTI_BITS
  BY BitsAssumption, KeyAssumption
<1>2. b \in Nat \ {0} /\ r \in Nat \ {0} /\ Bit[KEY_BITS - 1] \in Nat /\ Bit[KEY_BITS] \in Nat
  BY <1>1, BitProperties
<1>3. Bit[REF_BITS + LASTI_BITS] = r * b
  BY <1>1, BitAdd
<1>4. r * b <= Bit[KEY_BITS - 1] /\ Bit[KEY_BITS - 1] <= Bit[KEY_BITS] /\ b <= Bit[KEY_BITS]
  <2>1. REF_BITS + LASTI_BITS \in Nat
    BY <1>1
  <2>2. Bit[REF_BITS + LASTI_BITS] <= Bit[KEY_BITS - 1]
    BY <1>1, <2>1, BitGrows
  <2>3. Bit[KEY_BITS - 1] <= Bit[KEY_BITS] /\ Bit[LASTI_BITS] <= Bit[KEY_BITS]
    BY <1>1, BitGrows
  <2> HIDE DEF r, b
  <2> QED
    BY <1>3, <2>2, <2>3 DEF b
<1>5. a \in Nat /\ a < r
  <2>1. a = code % r /\ code \in Int
    BY DEF MOJO_INT32
  <2> HIDE DEF a, r
  <2> QED
    BY <1>2, <2>1, DivModDef
<1>6. l < b
  OBVIOUS
<1> HIDE DEF a, b, r
<1>7. m \in Nat /\ m + l < r * b
  <2>1. a * b \in Nat /\ r * b \in Nat /\ b \in Nat
    BY <1>2, <1>5
  <2>2. r - a \in Int /\ r - a >= 1
    BY <1>2, <1>5
  <2>3. b * (r - a) >= b
    BY <1>2, <2>2, MulMono
  <2>4. (b * r) - (b * a) = b * (r - a)
    BY <1>2, <1>5, Distr
  <2>5. b * r = r * b /\ b * a = a * b
    BY <1>2, <1>5
  <2> QED
    BY <1>6, <2>1, <2>3, <2>4, <2>5
<1>8. l % Bit[KEY_BITS] = l
  <2> DEFINE c == Bit[KEY_BITS]
  <2>1. c \in Nat \ {0} /\ l < c
    <3>1. c \in Nat
      BY <1>2
    <3>2. b <= c
      BY <1>4
    <3> HIDE DEF c
    <3> QED
      BY <1>2, <1>6, <3>1, <3>2
  <2> HIDE DEF c
  <2>2. l = (c * 0) + l
    BY <2>1
  <2>3. ((c * 0) + l) % c = l
    BY <2>1, ModUnique
  <2> QED
    BY <2>2, <2>3 DEF c
<1>9. \A i \in 0..(KEY_BITS - 1) : ~(Has(m, i) /\ Has(l, i))
  <2> SUFFICES ASSUME NEW i \in 0..(KEY_BITS - 1) PROVE ~Has(m, i) \/ ~Has(l, i)
    OBVIOUS
  <2> DEFINE c == Bit[i + 1]
  <2>1. i \in Nat /\ i \in 0..KEY_BITS /\ i + 1 \in Nat /\ i + 1 \in 0..KEY_BITS /\ i + 1 <= KEY_BITS
    BY <1>1
  <2>2. c \in Nat \ {0} /\ Bit[i] \in Nat \ {0}
    BY <2>1, BitProperties
  <2>3. CASE i < LASTI_BITS
    <3> DEFINE d == Bit[LASTI_BITS - (i + 1)]
    <3>1. LASTI_BITS - (i + 1) \in Nat /\ (i + 1) + (LASTI_BITS - (i + 1)) = LASTI_BITS
          /\ LASTI_BITS - (i + 1) \in 0..KEY_BITS
      BY <1>1, <2>1, <2>3
    <3>2. Bit[(i + 1) + (LASTI_BITS - (i + 1))] = c * d
      <4>1. (i + 1) + (LASTI_BITS - (i + 1)) <= KEY_BITS
        BY <1>1, <3>1
      <4> QED
        BY <2>1, <3>1, <4>1, BitAdd
    <3>3. d \in Nat
      BY <3>1, BitProperties
    <3>4. b = c * d
      BY <3>1, <3>2 DEF b
    <3> HIDE DEF c, d
    <3>5. m = (c * (d * a)) + 0 /\ d * a \in Int
      BY <1>5, <2>2, <3>3, <3>4
    <3>6. ((c * (d * a)) + 0) % c = 0
      BY <2>2, <3>5, ModUnique
    <3> HIDE DEF m
    <3>7. m % c = 0
      BY <3>5, <3>6
    <3>8. ~Has(m, i)
      BY <2>2, <3>7 DEF Has, c
    <3> QED
      BY <3>8
  <2>4. CASE ~(i < LASTI_BITS)
    <3>1. Bit[LASTI_BITS] <= Bit[i] /\ Bit[i] <= c
      <4>1. i <= KEY_BITS /\ LASTI_BITS <= i /\ i <= i + 1
        BY <1>1, <2>1, <2>4
      <4> QED
        BY <1>1, <2>1, <4>1, BitGrows
    <3>2. l < Bit[i] /\ l < c
      BY <1>2, <1>6, <2>2, <3>1 DEF b
    <3> HIDE DEF c
    <3>3. l = (c * 0) + l
      BY <2>2
    <3>4. ((c * 0) + l) % c = l
      BY <2>2, <3>2, ModUnique
    <3>5. l % c = l
      BY <3>3, <3>4
    <3>6. ~Has(l, i)
      BY <2>2, <3>2, <3>5 DEF Has, c
    <3> QED
      BY <3>6
  <2> QED
    BY <2>3, <2>4
<1>10. m < Bit[KEY_BITS] /\ l < Bit[KEY_BITS] /\ m + l < Bit[KEY_BITS - 1]
  <2>1. r * b \in Nat
    BY <1>2
  <2> HIDE DEF m
  <2> QED
    BY <1>2, <1>4, <1>6, <1>7, <2>1
<1>11. py_frame_key(code, l) = Or(m, l)
  BY <1>8 DEF py_frame_key, Word, a, b
<1>12. Or(m, l) = m + l
  <2> HIDE DEF m
  <2> QED
    BY <1>7, <1>9, <1>10, OrApart
<1>13. m = b * a
  BY <1>2, <1>5
<1> HIDE DEF m
<1> QED
  BY <1>5, <1>10, <1>11, <1>12, <1>13 DEF a, b

\* The key of a frame that has not begun reaches the highest bit.
LEMMA KeyTop ==
  ASSUME NEW code, NEW n \in {-1, -2}
  PROVE  py_frame_key(code, n) \in Nat /\ py_frame_key(code, n) >= Bit[KEY_BITS - 1]
<1> DEFINE c == Bit[KEY_BITS]
           d == Bit[KEY_BITS - 1]
           e == Bit[(KEY_BITS - 1) - 1]
<1>1. /\ KEY_BITS \in 1..KEY_BITS /\ KEY_BITS \in 0..KEY_BITS /\ KEY_BITS # 0 /\ (KEY_BITS - 1) + 1 = KEY_BITS
      /\ KEY_BITS - 1 \in 1..KEY_BITS /\ KEY_BITS - 1 \in 0..KEY_BITS /\ (KEY_BITS - 1) - 1 \in 0..KEY_BITS
  BY BitsAssumption, KeyAssumption
<1>2. c = 2 * d /\ d = 2 * e /\ c \in Nat \ {0} /\ d \in Nat \ {0} /\ e \in Nat \ {0}
  BY <1>1, BitProperties
<1> HIDE DEF c, d, e
<1>3. Word(n) = c + n
  <2>1. ((c * (-1)) + (c + n)) % c = c + n
    <3>1. c + n \in Int /\ 0 <= c + n /\ c + n < c /\ -1 \in Int
      BY <1>2
    <3> QED
      BY <1>2, <3>1, ModUnique
  <2>2. (c * (-1)) + (c + n) = n
    BY <1>2
  <2> QED
    BY <2>1, <2>2 DEF Word, c
<1>4. (c + n) % c = c + n
  <2>1. ((c * 0) + (c + n)) % c = c + n
    <3>1. c + n \in Int /\ 0 <= c + n /\ c + n < c
      BY <1>2
    <3> QED
      BY <1>2, <3>1, ModUnique
  <2>2. (c * 0) + (c + n) = c + n
    BY <1>2
  <2> QED
    BY <2>1, <2>2
<1>5. Has(Word(n), KEY_BITS - 1)
  <2>1. c + n >= d
    BY <1>2
  <2> QED
    BY <1>1, <1>3, <1>4, <2>1 DEF Has, c, d
<1> DEFINE x == MOJO_INT32(code) * Bit[LASTI_BITS]
           w == Word(n)
<1>6. py_frame_key(code, n) = Or(x, w)
  BY DEF py_frame_key
<1>7. Has(w, KEY_BITS - 1)
  BY <1>5
<1> HIDE DEF x, w
<1> QED
  BY <1>1, <1>6, <1>7, OrTop

\* Instructions that fit, and what becomes of that of a frame that has not begun.
Fitting == {-1, -2} \cup 0..(Bit[LASTI_BITS] - 1)

\* Keys that are the same are those of frames alike.
LEMMA KeyInjective ==
  ASSUME NEW c \in Nat, NEW d \in Nat, NEW x \in Fitting, NEW y \in Fitting,
         py_frame_key(c, x) = py_frame_key(d, y)
  PROVE  (x < 0 /\ y < 0) \/ (x = y /\ MOJO_INT32(c) = MOJO_INT32(d))
<1>1. Bit[LASTI_BITS] \in Nat \ {0} /\ Bit[KEY_BITS - 1] \in Nat
  <2>1. LASTI_BITS \in 0..KEY_BITS /\ KEY_BITS - 1 \in 0..KEY_BITS
    BY BitsAssumption, KeyAssumption
  <2> QED
    BY <2>1, BitProperties
<1>2. \A n \in Fitting : n \in {-1, -2} \/ (n \in Nat /\ n < Bit[LASTI_BITS])
  BY <1>1 DEF Fitting
<1>3. CASE x \in {-1, -2} /\ y \in {-1, -2}
  BY <1>3
<1>4. CASE x \in {-1, -2} /\ y \in Nat /\ y < Bit[LASTI_BITS]
  <2>1. py_frame_key(c, x) \in Nat /\ py_frame_key(c, x) >= Bit[KEY_BITS - 1]
    BY <1>4, KeyTop
  <2>2. py_frame_key(d, y) < Bit[KEY_BITS - 1]
    BY <1>4, KeyValue
  <2> QED
    BY <1>1, <2>1, <2>2
<1>5. CASE y \in {-1, -2} /\ x \in Nat /\ x < Bit[LASTI_BITS]
  <2>1. py_frame_key(d, y) \in Nat /\ py_frame_key(d, y) >= Bit[KEY_BITS - 1]
    BY <1>5, KeyTop
  <2>2. py_frame_key(c, x) < Bit[KEY_BITS - 1]
    BY <1>5, KeyValue
  <2> QED
    BY <1>1, <2>1, <2>2
<1>6. CASE x \in Nat /\ x < Bit[LASTI_BITS] /\ y \in Nat /\ y < Bit[LASTI_BITS]
  <2> DEFINE b == Bit[LASTI_BITS]
             p == MOJO_INT32(c)
             q == MOJO_INT32(d)
  <2>1. /\ py_frame_key(c, x) = (b * p) + x /\ py_frame_key(d, y) = (b * q) + y
        /\ p \in Nat /\ q \in Nat
    BY <1>6, KeyValue
  <2>2. b \in Nat \ {0} /\ x < b /\ y < b
    BY <1>1, <1>6
  <2> HIDE DEF b, p, q
  <2>3. ((b * p) + x) % b = x /\ ((b * q) + y) % b = y
    BY <1>6, <2>1, <2>2, ModUnique
  <2>4. (b * p) + x = (b * q) + y
    BY <2>1
  <2>5. x = y
    BY <2>3, <2>4
  <2>6. b * (p - q) = 0
    <3>1. (b * p) - (b * q) = b * (p - q)
      BY <2>1, <2>2, Distr
    <3>2. b * p \in Nat /\ b * q \in Nat
      BY <2>1, <2>2
    <3> QED
      BY <1>6, <2>4, <2>5, <3>1, <3>2
  <2>7. p - q \in Int /\ ~(p - q >= 1) /\ ~(p - q <= -1)
    <3>1. p - q \in Int
      BY <2>1
    <3>2. p - q >= 1 => b * (p - q) >= b
      BY <2>2, <3>1, MulMono
    <3>3. p - q <= -1 => b * (p - q) <= -b
      BY <2>2, <3>1, MulNeg
    <3> QED
      BY <2>2, <2>6, <3>1, <3>2, <3>3
  <2>8. p = q
    BY <2>1, <2>7
  <2> QED
    BY <2>5, <2>8 DEF p, q
<1> QED
  BY <1>2, <1>3, <1>4, <1>5, <1>6
\* The instruction a frame is emitted with.
Emitting(f) == IF version = 310 THEN 2 * f[2] ELSE f[2]

\* A frame that fits has an instruction that fits, doubled or not.
LEMMA FitsFitting ==
  ASSUME NEW f \in Code \X Lasti, Fits(f)
  PROVE  /\ f[1] \in Nat /\ f[2] \in Int /\ f[2] \in Fitting /\ Emitting(f) \in Fitting
         /\ f[2] < 0 => f[2] = -1
<1> DEFINE b == Bit[LASTI_BITS]
           c == Bit[LASTI_BITS - 1]
<1>1. b = 2 * c /\ b \in Nat \ {0} /\ c \in Nat \ {0}
  <2>1. LASTI_BITS \in 1..KEY_BITS /\ LASTI_BITS \in 0..KEY_BITS /\ LASTI_BITS - 1 \in 0..KEY_BITS
    BY BitsAssumption, KeyAssumption
  <2> QED
    BY <2>1, BitProperties
<1>2. f[1] \in Nat /\ f[2] \in Int
  BY KeyAssumption
<1>3. f[2] \in {-1} \cup 0..((IF version = 310 THEN c ELSE b) - 1)
  BY DEF Fits
<1> HIDE DEF b, c
<1> DEFINE l == f[2]
<1>4. l \in Int /\ l \in {-1} \cup 0..((IF version = 310 THEN c ELSE b) - 1)
  BY <1>2, <1>3
<1>5. Emitting(f) = IF version = 310 THEN 2 * l ELSE l
  BY DEF Emitting
<1> HIDE DEF l
<1>6. l \in {-1} \cup 0..(b - 1) /\ (l < 0 => l = -1)
  BY <1>1, <1>4
<1>7. (IF version = 310 THEN 2 * l ELSE l) \in {-1, -2} \cup 0..(b - 1)
  BY <1>1, <1>4
<1> QED
  BY <1>2, <1>5, <1>6, <1>7 DEF Fitting, l, b

\* Frames that are cached, or emitted, with the same key are alike.
LEMMA SameKeyAlike ==
  ASSUME NEW f \in Code \X Lasti, NEW g \in Code \X Lasti, Fits(f), Fits(g),
         \/ py_frame_key(f[1], f[2]) = py_frame_key(g[1], g[2])
         \/ EmittedKey(f[1], f[2]) = EmittedKey(g[1], g[2])
  PROVE  Alike(f, g)
<1>1. /\ f[1] \in Nat /\ f[2] \in Int /\ f[2] \in Fitting /\ Emitting(f) \in Fitting /\ (f[2] < 0 => f[2] = -1)
      /\ g[1] \in Nat /\ g[2] \in Int /\ g[2] \in Fitting /\ Emitting(g) \in Fitting /\ (g[2] < 0 => g[2] = -1)
  BY FitsFitting
<1>2. CASE py_frame_key(f[1], f[2]) = py_frame_key(g[1], g[2])
  <2>1. (f[2] < 0 /\ g[2] < 0) \/ (f[2] = g[2] /\ MOJO_INT32(f[1]) = MOJO_INT32(g[1]))
    BY <1>1, <1>2, KeyInjective
  <2> QED
    BY <1>1, <2>1 DEF Alike
<1>3. CASE EmittedKey(f[1], f[2]) = EmittedKey(g[1], g[2])
  <2>1. py_frame_key(f[1], Emitting(f)) = py_frame_key(g[1], Emitting(g))
    BY <1>3 DEF EmittedKey, Emitting
  <2>2. (Emitting(f) < 0 /\ Emitting(g) < 0) \/ (Emitting(f) = Emitting(g) /\ MOJO_INT32(f[1]) = MOJO_INT32(g[1]))
    BY <1>1, <2>1, KeyInjective
  <2>3. /\ Emitting(f) < 0 => f[2] < 0
        /\ Emitting(g) < 0 => g[2] < 0
        /\ Emitting(f) = Emitting(g) => f[2] = g[2]
    BY <1>1 DEF Emitting
  <2> QED
    BY <1>1, <2>2, <2>3 DEF Alike
<1> QED
  BY <1>2, <1>3

\* The frames there are, and the keys they are cached and emitted with.
Frames == Code \X Lasti
KeyOf(f) == py_frame_key(f[1], f[2])
EmittedAs(f) == EmittedKey(f[1], f[2])

\* Every frame of the cache is there by its key, and was emitted, ...
CachedRight == \A k \in DOMAIN cached : /\ cached[k].at \in Frames /\ KeyOf(cached[k].at) = k
                                        /\ cached[k].key = EmittedAs(cached[k].at)
                                        /\ cached[k].key \in DOMAIN shown
                                        /\ fitted => Fits(cached[k].at)

\* ... every frame that is shown was emitted with the key it is shown for, ...
ShownRight == \A k \in DOMAIN shown : /\ shown[k] \in Frames /\ EmittedAs(shown[k]) = k
                                      /\ fitted => Fits(shown[k])

\* ... and the frame that was resolved last has the key of the one that was asked for.
ServedRight == \A s \in served : /\ s.asked \in Frames /\ s.frame.at \in Frames
                                 /\ KeyOf(s.frame.at) = KeyOf(s.asked)
                                 /\ s.frame.key = EmittedAs(s.frame.at)
                                 /\ s.frame.key \in DOMAIN shown
                                 /\ fitted => Fits(s.asked) /\ Fits(s.frame.at)

\* The whole.
KeyInv == CachedRight /\ ShownRight /\ ServedRight

\* The invariant holds in every state, whatever version the process has.
LEMMA KeysInvariant == FrameKeySpec => []KeyInv
<1>1. FrameKeyInit => KeyInv
  BY DEF FrameKeyInit, KeyInv, CachedRight, ShownRight, ServedRight
<1>2. KeyInv /\ [FrameKeyNext]_keyVars => KeyInv'
  <2> SUFFICES ASSUME KeyInv, [FrameKeyNext]_keyVars PROVE KeyInv'
    OBVIOUS
  <2>1. CASE UNCHANGED keyVars
    BY <2>1 DEF keyVars, KeyInv, CachedRight, ShownRight, ServedRight, Fits, EmittedAs, EmittedKey
  <2>2. CASE FrameKeyNext
    <3>1. PICK f \in Frames : _py_thread__resolve_py_stack(f)
      BY <2>2 DEF FrameKeyNext, Frames
    <3>2. version' = version /\ fitted' = (fitted /\ Fits(f))
      BY <3>1 DEF _py_thread__resolve_py_stack
    <3>3. /\ \A g : Fits(g)' <=> Fits(g)
          /\ \A g : EmittedAs(g)' = EmittedAs(g)
      BY <3>2 DEF Fits, EmittedAs, EmittedKey
    <3>4. fitted' => fitted /\ Fits(f)
      BY <3>2
    <3> DEFINE key == KeyOf(f)
               frame == frame_new(f)
    <3>5. frame.at = f /\ frame.key = EmittedAs(f)
      BY DEF frame_new, EmittedAs
    <3>6. CASE /\ key \in DOMAIN cached /\ UNCHANGED <<cached, shown>>
               /\ served' = {[asked |-> f, frame |-> cached[key]]}
      BY <3>3, <3>4, <3>6 DEF KeyInv, CachedRight, ShownRight, ServedRight
    <3>7. CASE lru_cache__store(key, frame) /\ mojo_frame_emitted(frame) /\ served' = {[asked |-> f, frame |-> frame]}
      <4> HIDE DEF key, frame
      <4>1. PICK kept \in SUBSET DOMAIN cached :
                   cached' = [k \in kept \cup {key} |-> IF k = key THEN frame ELSE cached[k]]
        BY <3>7, Zenon DEF lru_cache__store
      <4>2. shown' = [k \in DOMAIN shown \cup {EmittedAs(f)} |-> IF k = EmittedAs(f) THEN f ELSE shown[k]]
        BY <3>5, <3>7 DEF mojo_frame_emitted
      <4>3. CachedRight'
        <5> SUFFICES ASSUME NEW k \in kept \cup {key}
                     PROVE  /\ cached'[k].at \in Frames /\ KeyOf(cached'[k].at) = k
                            /\ cached'[k].key = EmittedAs(cached'[k].at)
                            /\ cached'[k].key \in DOMAIN shown'
                            /\ fitted' => Fits(cached'[k].at)
          BY <3>3, <4>1 DEF CachedRight
        <5>1. CASE k = key
          BY <3>4, <3>5, <4>1, <4>2, <5>1 DEF key
        <5>2. CASE k # key
          BY <3>4, <4>1, <4>2, <5>2 DEF KeyInv, CachedRight
        <5> QED
          BY <5>1, <5>2
      <4>4. ShownRight'
        BY <3>3, <3>4, <4>2 DEF KeyInv, ShownRight
      <4>5. ServedRight'
        BY <3>3, <3>4, <3>5, <3>7, <4>2 DEF ServedRight
      <4> QED
        BY <4>3, <4>4, <4>5 DEF KeyInv
    <3>8. CASE served' = {} /\ UNCHANGED <<cached, shown>>
      BY <3>3, <3>4, <3>8 DEF KeyInv, CachedRight, ShownRight, ServedRight
    <3> QED
      BY <3>1, <3>6, <3>7, <3>8 DEF _py_thread__resolve_py_stack, KeyOf
  <2> QED
    BY <2>1, <2>2
<1> QED
  BY <1>1, <1>2, PTL DEF FrameKeySpec

\* The frame of the cache, and the one a reader of the stream shows, are like the one that
\* was asked for, whatever the cache evicted, as long as every instruction fits its bits.
THEOREM KeysCorrect == FrameKeySpec => []KeysApart
<1>1. KeyInv => KeysApart
  <2> SUFFICES ASSUME KeyInv, fitted, NEW s \in served
               PROVE  /\ Alike(s.asked, s.frame.at)
                      /\ s.frame.key \in DOMAIN shown /\ Alike(s.asked, shown[s.frame.key])
    BY DEF KeysApart
  <2> DEFINE f == s.asked
             g == s.frame.at
             h == shown[s.frame.key]
  <2>1. /\ f \in Frames /\ g \in Frames /\ h \in Frames /\ Fits(f) /\ Fits(g) /\ Fits(h)
        /\ KeyOf(f) = KeyOf(g) /\ EmittedAs(g) = EmittedAs(h) /\ s.frame.key \in DOMAIN shown
    BY DEF KeyInv, ServedRight, ShownRight
  <2> HIDE DEF f, g, h
  <2>2. Alike(f, g) /\ Alike(g, h)
    BY <2>1, SameKeyAlike DEF Frames, KeyOf, EmittedAs
  <2> QED
    BY <2>1, <2>2 DEF Alike, f, g, h
<1> QED
  BY <1>1, KeysInvariant, PTL
================================================================================

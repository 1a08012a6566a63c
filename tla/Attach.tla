--------------------------------- MODULE Attach ---------------------------------
(***************************************************************************)
(* Finding the interpreter of one process: _py_proc__run (py_proc.c) tries *)
(* again and again, until a timer expires, to read the memory map of the   *)
(* process (linux/py_proc.h), to tell the version of Python, and to find   *)
(* an interpreter state.  Meanwhile the process executes one program after *)
(* the other (the fork of Austin, env, a launcher, python), initialises    *)
(* its interpreter, and may end.  What one attempt has found in the memory *)
(* of a program is still in py_proc_t when the next attempt looks at       *)
(* another one.                                                            *)
(*                                                                         *)
(* An address is identified with the program it is an address of: reading  *)
(* it while another one is running fails.                                  *)
(***************************************************************************)
EXTENDS Integers, Sequences

CONSTANTS Targets,    \* the processes, and in which way they are attached
          Window,     \* addresses in the runtime section that are tried
          MaxFaults   \* bound: reads that fail by themselves

(* A program, as far as its binaries tell: whether it is Python, whether their *)
(* names or -V tell its version, which symbols they export, whether they have  *)
(* a .PyRuntime section, a writable mapping of the executable itself, and in   *)
(* .bss a pointer to the interpreter state (not since 3.11).                   *)
Image == [python : BOOLEAN, named : BOOLEAN, runtimeSym : BOOLEAN, versionSym : BOOLEAN,
          section : BOOLEAN, data : BOOLEAN, bss : BOOLEAN]

(* What the process executes, one after the other; whether Austin started it   *)
(* (py_proc__start) or not (py_proc__attach); self->child, for which there is   *)
(* a single attempt; and what Austin may read: everything, the maps file only,  *)
(* or nothing.                                                                  *)
ASSUME TargetsAssumption ==
  \A t \in Targets :
    /\ t.program \in Seq(Image) /\ t.program # <<>>
    /\ {t.spawned, t.child} \subseteq BOOLEAN
    /\ t.perm \in {"all", "maps", "none"}
ASSUME BoundAssumption == Window \in Nat \ {0} /\ MaxFaults \in Nat

None  == 0    \* no address, no path, no version
Ended == -1

VARIABLES
  target,   \* the process, which never changes
  image,    \* the one it executes now, or Ended
  up,       \* its interpreter is initialised
  expired,  \* the timer has expired
  pc,
  tried,    \* attempts > 0
  seen,     \* the program whose maps file is open
  symbols,  \* self->symbols: runtime and version
  runtime,  \* self->map.runtime.base ...
  exact,    \* ... and whether it was the section, not a guess
  bss,      \* self->map.bss.base
  path,     \* self->bin_path or self->lib_path
  loaded,   \* self->sym_loaded
  py_v,     \* self->py_v
  is_raddr, \* self->is_raddr
  error,    \* austin_errno
  faults

process == <<target, image, up, expired>>
found   == <<symbols, runtime, exact, bss, path, loaded>>
vars == <<target, image, up, expired, pc, tried, seen, symbols, runtime, exact, bss, path,
          loaded, py_v, is_raddr, error, faults>>

program == target.program
Spawned == target.spawned
Child   == target.child
Perm    == target.perm

Running == image # Ended
Is(field) == Running /\ program[image][field]

Init ==
  /\ target \in Targets
  /\ image = 1 /\ up = FALSE /\ expired = FALSE
  /\ pc = "loop" /\ tried = FALSE /\ seen = None
  /\ symbols = [runtime |-> None, version |-> None]
  /\ runtime = None /\ exact = FALSE /\ bss = None /\ path = None /\ loaded = FALSE
  /\ py_v = None /\ is_raddr = None
  /\ error = "EOK" /\ faults = 0

-------------------------------------------------------------------------------
(* The process. *)

Exec ==
  /\ Running /\ image < Len(program)
  /\ image' = image + 1
  /\ up' = FALSE
  /\ UNCHANGED <<target, expired, pc, tried, seen, found, py_v, is_raddr, error, faults>>

\* The interpreter has been initialised, and its main thread is listed.
ComeUp ==
  /\ Is("python") /\ ~up
  /\ up' = TRUE
  /\ UNCHANGED <<target, image, expired, pc, tried, seen, found, py_v, is_raddr, error,
                 faults>>

Exit ==
  /\ Running
  /\ image' = Ended
  /\ up' = FALSE
  /\ UNCHANGED <<target, expired, pc, tried, seen, found, py_v, is_raddr, error, faults>>

Tick ==
  /\ ~expired
  /\ expired' = TRUE
  /\ UNCHANGED <<target, image, up, pc, tried, seen, found, py_v, is_raddr, error, faults>>

-------------------------------------------------------------------------------
(* Reading the memory of the process: copy_memory. *)

Fault == faults < MaxFaults /\ faults' = faults + 1

Readable(address) == Perm = "all" /\ Running /\ address = image

ReadError ==
  IF ~Running THEN "EPROCNPID" ELSE IF Perm # "all" THEN "EPROCPERM" ELSE "EMEMCOPY"

\* _py_proc__check_interp_state of what is found at an address of the program:
\* it passes if this is an interpreter state with a thread, but offsets of
\* another version may not show that, or show it by accident.
CheckPasses(address, isHead) ==
  IF py_v = image THEN {Readable(address) /\ up /\ isHead}
  ELSE IF Readable(address) THEN BOOLEAN ELSE {FALSE}

\* An attempt fails and the loop goes on.
Again(e) ==
  /\ error' = e
  /\ pc' = "loop"

-------------------------------------------------------------------------------
(* _py_proc__run. *)

Attempt ==
  /\ pc = "loop" /\ ~expired
  /\ ~(Child /\ tried)
  /\ Running
  /\ tried' = TRUE
  /\ path' = None /\ loaded' = FALSE
  /\ pc' = "open"
  /\ UNCHANGED <<process, seen, symbols, runtime, exact, bss, py_v, is_raddr, error, faults>>

\* What py_proc__start and py_proc__attach make of the error.
Fails(e) ==
  /\ pc' = "failed"
  /\ error' = IF e # "EPROCNPID" THEN e ELSE IF Spawned THEN "EPROCFORK" ELSE "EPROCATTACH"

\* Mutant: one attempt is enough for every process.
GiveUpAfterOne ==
  /\ pc = "loop" /\ ~expired
  /\ \/ tried /\ Fails("EPROC")
     \/ ~tried /\ ~Running /\ Fails("EPROCNPID")
  /\ UNCHANGED <<process, tried, seen, found, py_v, is_raddr, faults>>

\* The loop gives up: a child had its attempt, or the process is gone.
GiveUp ==
  /\ pc = "loop" /\ ~expired
  /\ \/ Child /\ tried /\ Fails("EPROC")
     \/ ~(Child /\ tried) /\ ~Running /\ Fails("EPROCNPID")
  /\ UNCHANGED <<process, tried, seen, found, py_v, is_raddr, faults>>

\* Mutant: what the last error was is not looked at.
TimeOutScans ==
  /\ pc = "loop" /\ expired
  /\ pc' = "scan_last"
  /\ UNCHANGED <<process, tried, seen, found, py_v, is_raddr, faults, error>>

\* Mutant: every timeout starts another one.
TimeOutRestarts ==
  /\ pc = "loop" /\ expired
  /\ expired' = FALSE
  /\ UNCHANGED <<target, image, up, pc, error, tried, seen, found, py_v, is_raddr, faults>>

\* The timer has expired: unless the last error was one of permissions the .bss
\* section is scanned as a last resort.
TimeOut ==
  /\ pc = "loop" /\ expired
  /\ IF error = "EPROCPERM"
       THEN Fails(error)
       ELSE pc' = "scan_last" /\ UNCHANGED error
  /\ UNCHANGED <<process, tried, seen, found, py_v, is_raddr, faults>>

-------------------------------------------------------------------------------
(* _py_proc__init and _py_proc__parse_maps_file. *)

\* Whatever goes wrong with the maps file, _py_proc__init reports EPROC.
OpenMaps ==
  /\ pc = "open"
  /\ IF Running /\ Perm # "none"
       THEN pc' = "maps" /\ seen' = image /\ UNCHANGED error
       ELSE Again("EPROC") /\ UNCHANGED seen
  /\ UNCHANGED <<process, tried, found, py_v, is_raddr, faults>>

\* Mutant: a symbol that has been found is not looked for again.
ReadMapsKeepsSymbols ==
  /\ pc = "maps"
  /\ IF seen # image
       THEN Again("EPROC") /\ UNCHANGED found
       ELSE /\ symbols' = [runtime |-> IF Is("runtimeSym") /\ symbols.runtime = None
                                        THEN image ELSE symbols.runtime,
                           version |-> IF Is("versionSym") /\ symbols.version = None
                                        THEN image ELSE symbols.version]
            /\ path' = image
            /\ bss' = IF Is("python") THEN image ELSE bss
            /\ loaded' = Is("runtimeSym")
            /\ IF Is("python") THEN pc' = "mapped" /\ UNCHANGED error ELSE Again("EPROC")
            /\ UNCHANGED <<runtime, exact>>
  /\ UNCHANGED <<process, tried, seen, py_v, is_raddr, faults>>

\* The lines are read, and the binaries they name analysed: symbols and runtime
\* keep what they had if there is nothing new to be found.
ReadMaps ==
  /\ pc = "maps"
  /\ IF seen # image
       THEN Again("EPROC") /\ UNCHANGED found
       ELSE /\ symbols' = [runtime |-> IF Is("runtimeSym") THEN image ELSE symbols.runtime,
                           version |-> IF Is("versionSym") THEN image ELSE symbols.version]
            /\ IF Is("section")
                 THEN runtime' = image /\ exact' = TRUE
               ELSE IF runtime = None /\ Is("data")
                 THEN runtime' = image /\ exact' = FALSE
               ELSE UNCHANGED <<runtime, exact>>
            /\ path' = image
            /\ bss' = IF Is("python") THEN image ELSE bss
            /\ loaded' = Is("runtimeSym")
            /\ IF Is("python") THEN pc' = "mapped" /\ UNCHANGED error ELSE Again("EPROC")
  /\ UNCHANGED <<process, tried, seen, py_v, is_raddr, faults>>

\* The maps file must not have changed meanwhile.
CheckMaps ==
  /\ pc = "mapped"
  /\ IF seen = image THEN pc' = "version" /\ UNCHANGED error ELSE Again("EPROC")
  /\ UNCHANGED <<process, tried, seen, found, py_v, is_raddr, faults>>

-------------------------------------------------------------------------------
(* _py_proc__infer_python_version. *)

\* Mutant: the version is told once.
VersionOKOnce ==
  /\ pc = "version"
  /\ \/ symbols.version # None /\ Readable(symbols.version)
     \/ symbols.version = None /\ path # None /\ program[path].named
  /\ py_v' = IF py_v # None THEN py_v ELSE path
  /\ pc' = IF loaded \/ runtime # None THEN "deref" ELSE "scan"
  /\ UNCHANGED <<process, tried, seen, found, is_raddr, error, faults>>

\* The version is read at Py_Version if that symbol was ever found, else told by
\* the names of the binaries, or by running them.
VersionOK ==
  /\ pc = "version"
  /\ \/ symbols.version # None /\ Readable(symbols.version)
     \/ symbols.version = None /\ path # None /\ program[path].named
  /\ py_v' = IF symbols.version # None THEN symbols.version ELSE path
  /\ pc' = IF loaded \/ runtime # None THEN "deref" ELSE "scan"
  /\ UNCHANGED <<process, tried, seen, found, is_raddr, error, faults>>

VersionFails ==
  /\ pc = "version"
  /\ IF symbols.version # None
       THEN /\ \/ ~Readable(symbols.version) /\ UNCHANGED faults
               \/ Fault
            /\ Again(ReadError)
       ELSE /\ \/ ~program[path].named /\ UNCHANGED faults
               \/ Fault
            /\ Again("ENOVERSION")
  /\ UNCHANGED <<process, tried, seen, found, py_v, is_raddr>>

-------------------------------------------------------------------------------
(* _py_proc__deref_interp_head: the addresses tried are the runtime symbol, or *)
(* one after the other in the section; the section begins with the runtime     *)
(* structure, a guessed one may have it anywhere.                              *)

Addresses == IF symbols.runtime # None THEN 1..1 ELSE 1..Window

Target == IF symbols.runtime # None THEN symbols.runtime ELSE runtime

Positions == IF symbols.runtime # None \/ exact THEN {1} ELSE 0..Window

Unread == -2

\* At every address the structure cannot be read, or the head it has fails the
\* check, or passes; failed is where a read fails by itself, if not 0.  What the loop
\* leaves in interp_head_raddr is that of the last address that could be read.
Deref ==
  /\ pc = "deref"
  /\ \E position \in Positions, heads \in [Addresses -> {None, Unread, Target}],
        failed, lastRead \in Addresses \cup {0} :
       /\ IF failed = 0 THEN UNCHANGED faults ELSE Fault
       /\ \A i \in Addresses :
            LET passes == CheckPasses(Target, i = position) IN
            \/ heads[i] = Unread /\ (i = failed \/ ~Readable(Target))
            \/ heads[i] = None   /\ Readable(Target) /\ (i = failed \/ FALSE \in passes)
            \/ heads[i] = Target /\ i # failed /\ TRUE \in passes
       /\ lastRead # 0 => heads[lastRead] # Unread
       /\ \A i \in Addresses : i > lastRead => heads[i] = Unread
       /\ is_raddr' = IF lastRead = 0 THEN None ELSE heads[lastRead]
       /\ IF is_raddr' # None
            THEN pc' = "attached" /\ UNCHANGED error
            ELSE Again(IF Readable(Target) THEN "EPROC" ELSE ReadError)
  /\ UNCHANGED <<process, tried, seen, found, py_v>>

-------------------------------------------------------------------------------
(* _py_proc__scan_bss, without symbols or as the last resort. *)

Scanning == pc \in {"scan", "scan_last"}

ScanFinds ==
  /\ Scanning /\ py_v # None
  /\ TRUE \in CheckPasses(bss, Is("bss"))
  /\ is_raddr' = bss
  /\ pc' = "attached"
  /\ UNCHANGED <<process, tried, seen, found, py_v, error, faults>>

ScanFails ==
  /\ Scanning
  /\ \/ /\ py_v # None \/ ~Readable(bss)
        /\ FALSE \in CheckPasses(bss, Is("bss"))
        /\ UNCHANGED faults
     \/ Fault
  /\ IF pc = "scan_last" THEN Fails("EPROC")
                         ELSE Again(IF Readable(bss) THEN "EPROC" ELSE ReadError)
  /\ UNCHANGED <<process, tried, seen, found, py_v, is_raddr>>

\* The first pointer followed is checked with the offsets of a version that was
\* never told: V_DESC of a NULL py_v.
ScanCrashes ==
  /\ Scanning /\ py_v = None /\ Readable(bss)
  /\ pc' = "crashed"
  /\ UNCHANGED <<process, tried, seen, found, py_v, is_raddr, error, faults>>

-------------------------------------------------------------------------------

Final == pc \in {"attached", "failed", "crashed"}

Run ==
  \/ Attempt \/ GiveUp \/ TimeOut
  \/ OpenMaps \/ ReadMaps \/ CheckMaps
  \/ VersionOK \/ VersionFails
  \/ Deref
  \/ ScanFinds \/ ScanFails \/ ScanCrashes

Process == ~Final /\ (Exec \/ ComeUp \/ Exit)

Done == Final /\ UNCHANGED vars

Next == Run \/ Process \/ (~Final /\ Tick) \/ Done

\* Austin runs, and a Python program initialises its interpreter.  How long that
\* takes, compared with the timer, is left open.
Fairness == WF_vars(Run) /\ WF_vars(ComeUp /\ ~Final)

Spec == Init /\ [][Next]_vars /\ Fairness

-------------------------------------------------------------------------------
(* Properties. *)

\* The interpreter state that was accepted belongs to the program that runs, and
\* is read with the offsets of its version, although symbols, versions and
\* sections of the programs before it are kept: nothing half found in one attempt
\* is completed by the next.  (Unless a read fails, the version of the program cannot
\* be told, or Py_Version is left over from one before it: then the last scan goes
\* by a version of before.)
Stale == symbols.version \notin {None, image}

Told == Is("named") \/ Is("versionSym")

AttachedToWhatRuns ==
  pc = "attached" /\ faults = 0 /\ Told /\ ~Stale => up /\ is_raddr = image /\ py_v = image

\* A process is given up for the reason that is reported: it is said to have ended
\* only if it has (test_cli.py: "too quickly", "Cannot attach"), and until the
\* timer expires no process that might still become Python is given up.
VerdictOK ==
  pc = "failed" =>
    /\ error \in {"EPROCFORK", "EPROCATTACH"} => ~Running
    /\ ~expired /\ ~Child => error \in {"EPROCFORK", "EPROCATTACH"}
    /\ error = "EPROCPERM" => Perm # "all"

\* Austin comes to an end with the process: when the timer expires at the latest,
\* and with a child, which the list of processes is waiting for, without it.
RunEnds == (<>expired \/ Child) => <>Final

\* With time enough, a program with symbols that stays up is attached, whatever
\* was executed before it, however the attempts fell between its steps, and if
\* some reads failed; only a Py_Version left over from a program before it, which
\* it does not export itself, is in the way for good.
AttachesAtLast ==
  <>[](/\ up /\ Is("runtimeSym") /\ Is("named") /\ ~Stale
       /\ ~expired /\ ~Child /\ Perm = "all") => <>(pc = "attached")

\* A Python process whose maps can be read and whose memory cannot, as when
\* ptrace is restricted, is reported as one that needs more permissions
\* (test_cli.py: test_cli_permissions).  That of a maps file which cannot be opened
\* either is not: _py_proc__init puts EPROC in the place of EPROCPERM.  (A read that
\* fails for another reason may hide that of permissions.)
PermissionReported ==
  /\ pc = "failed" /\ tried /\ ~Child /\ Perm = "maps" /\ faults = 0
  /\ Len(program) = 1 /\ Is("python") /\ Is("named")
  => error = "EPROCPERM"
===============================================================================

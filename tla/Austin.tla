-------------------------------- MODULE Austin --------------------------------
(***************************************************************************)
(* The life of the profiler itself: main, do_single_process and            *)
(* do_child_processes (austin.c), the list of profiled processes           *)
(* (py_proc_list.c), and start, attach, wait and signal of one process     *)
(* (py_proc.c), against an operating system that forks, ends and reparents *)
(* processes between any two of Austin's steps, a wait thread that reaps   *)
(* the process Austin spawned, and a signal handler that may run at any    *)
(* moment.  What a sample contains is in Sampler.                          *)
(***************************************************************************)
EXTENDS Integers, Sequences, FiniteSets, SequencesExt

CONSTANTS Pid,        \* processes that may exist
          Root,       \* the one named on the command line
          InitPid,    \* the process that inherits orphans
          None,
          Scenarios   \* command lines, and the programs they meet

SIGINT  == 2
SIGTERM == 15

ASSUME PidAssumption ==
  /\ Root \in Pid
  /\ InitPid \notin Pid /\ None \notin Pid \cup {InitPid}

(* Which processes run a Python interpreter, and which one forks each other;    *)
(* whether Austin starts Root (attach_pid == 0), whether -C is given, whether   *)
(* there is an exposure (-x, -w), whether the start-up timeout may expire       *)
(* before Root is up, and whether the build is austinp (NATIVE).  As bounds,    *)
(* how often Austin may receive SIGINT or SIGTERM, and how many samples and     *)
(* reads of /proc may fail on live processes.                                   *)
ASSUME ScenariosAssumption ==
  Scenarios \subseteq [python : SUBSET Pid, parentOf : [Pid \ {Root} -> Pid],
                      spawned : BOOLEAN, children : BOOLEAN,
                      exposure : BOOLEAN, mayTimeOut : BOOLEAN, native : BOOLEAN,
                      maxSignals : Nat, maxFaults : Nat]

VARIABLES
  scenario,  \* the scenario, which never changes
  os,        \* the state of each process in the operating system
  ppid,      \* its current parent
  pc,        \* where the main thread is
  after,     \* where it goes when py_proc_list__update returns
  isPython,  \* py_proc->is_raddr of Root has been found
  rootProc,  \* the py_proc_t of Root: "live" or "destroyed"
  list,      \* the pids in the process list, first item first
  table,     \* ppid_for_pid
  rest,      \* the items the current loop over the list has still to visit
  todo,      \* the pids each active add_proc_children has still to try
  due,       \* UPDATE_INTERVAL has passed since the last complete update
  interrupt, \* the global interrupt flag
  error,     \* austin_errno, as far as main looks at it
  sampled,   \* history: processes sampled so far
  received,  \* history: the last signal received, 0 if none
  sent,      \* history: the last signal that reached Root from Austin, 0 if none
  misused,   \* history: Root's py_proc_t was used after it was destroyed
  signals, faults

world    == <<scenario, os, ppid>>
listVars == <<list, table, rest, todo, due>>
history  == <<sampled, received, sent, misused>>
vars == <<scenario, os, ppid, pc, after, isPython, rootProc, list, table, rest, todo, due,
          interrupt, error, sampled, received, sent, misused, signals, faults>>

Python   == scenario.python
Spawned  == scenario.spawned
Children == scenario.children
Exposure == scenario.exposure
Native   == scenario.native
MaxSignals == scenario.maxSignals
MaxFaults  == scenario.maxFaults

\* A process that kill(pid, 0) finds: a zombie still counts.
Exists(p) == os[p] \in {"boot", "run", "zombie"}
Alive(p)  == os[p] \in {"boot", "run"}

Init ==
  /\ scenario \in Scenarios
  /\ os = [p \in Pid |-> IF p = Root THEN "boot" ELSE "unborn"]
  /\ ppid = [p \in Pid |-> IF p = Root THEN InitPid ELSE scenario.parentOf[p]]
  /\ pc = "run" /\ after = "loop"
  /\ isPython = FALSE /\ rootProc = "live"
  /\ list = <<>> /\ table = [p \in Pid |-> None]
  /\ rest = <<>> /\ todo = <<>> /\ due = TRUE
  /\ interrupt = 0 /\ error = "EOK"
  /\ sampled = {} /\ received = 0 /\ sent = 0 /\ misused = FALSE
  /\ signals = 0 /\ faults = 0

-------------------------------------------------------------------------------
(* The operating system. *)

Fork(p) ==
  /\ p # Root /\ os[p] = "unborn" /\ Alive(ppid[p])
  /\ os' = [os EXCEPT ![p] = "boot"]
  /\ UNCHANGED ppid

\* The interpreter (or the non-Python program) is up: attaching can succeed.
Boot(p) ==
  /\ os[p] = "boot"
  /\ os' = [os EXCEPT ![p] = "run"]
  /\ UNCHANGED ppid

\* Only Austin's own child stays a zombie; other parents reap.
Exit(p) ==
  /\ Alive(p)
  /\ os' = [os EXCEPT ![p] = IF p = Root /\ Spawned THEN "zombie" ELSE "gone"]
  /\ ppid' = [c \in Pid |-> IF ppid[c] = p /\ os[c] # "unborn" THEN InitPid ELSE ppid[c]]

\* wait_thread: waitpid on the spawned process, until it ends.
Reap ==
  /\ os[Root] = "zombie"
  /\ os' = [os EXCEPT ![Root] = "gone"]
  /\ UNCHANGED ppid

Env ==
  /\ \/ \E p \in Pid : Fork(p) \/ Boot(p) \/ Exit(p)
     \/ Reap
  /\ UNCHANGED <<scenario, pc, after, isPython, rootProc, list, table, rest, todo, due,
                 interrupt, error, sampled, received, sent, misused, signals, faults>>

\* 0.1s pass.
Tick ==
  /\ ~due
  /\ due' = TRUE
  /\ UNCHANGED <<world, pc, after, isPython, rootProc, list, table, rest, todo,
                 interrupt, error, history, signals, faults>>

\* signal_callback_handler, once main has registered it.
HandleSignal(s) ==
  /\ pc \notin {"run", "done"}
  /\ signals < MaxSignals
  /\ signals' = signals + 1
  /\ interrupt' = -s
  /\ received' = s
  /\ UNCHANGED <<world, pc, after, isPython, rootProc, listVars, error,
                 sampled, sent, misused, faults>>

-------------------------------------------------------------------------------
(* Start or attach. *)

\* py_proc__start or py_proc__attach succeeds: Root runs Python.
RunOK ==
  /\ pc = "run"
  /\ os[Root] = "run" /\ Root \in Python
  /\ isPython' = TRUE
  /\ pc' = IF Children THEN "list_new" ELSE "single"
  /\ UNCHANGED <<world, after, rootProc, listVars, interrupt, error, history,
                 signals, faults>>

\* It fails: Root is gone, or no interpreter was found before the timeout.
\* Without -C this is the end (a spawned Root is terminated); with -C Root is
\* kept as the parent of processes that may be Python.
RunFails ==
  /\ pc = "run"
  /\ ~(os[Root] = "run" /\ Root \in Python)
  /\ os[Root] = "boot" => scenario.mayTimeOut
  /\ IF Children
       THEN /\ pc' = "list_new"
            /\ UNCHANGED <<rootProc, error, sent>>
       ELSE /\ pc' = "done"
            /\ rootProc' = "destroyed"
            /\ error' = "EPROC"
            /\ sent' = IF Spawned /\ Exists(Root) THEN SIGTERM ELSE sent
  /\ UNCHANGED <<world, after, isPython, listVars, interrupt, sampled, received,
                 misused, signals, faults>>

-------------------------------------------------------------------------------
(* py_proc__sample, py_proc__signal and py_proc__wait as the loops see them. *)

CanSample(p) == os[p] = "run" /\ (p = Root => isPython)

\* py_proc__sample fails for good reason, or on a read that raced the target.
SampleFails(p) ==
  \/ /\ ~CanSample(p)
     /\ UNCHANGED faults
  \/ /\ CanSample(p) /\ faults < MaxFaults
     /\ faults' = faults + 1

\* Mutant: no one waits for the wait thread.
WaitReturnsAtOnce(p) == TRUE

\* py_proc__wait may return: the wait thread has reaped the spawned process; for
\* any other process waitpid fails at once.  In austinp wait(NULL) takes its place,
\* which returns when a thread of any traced process ends ...
WaitReturns(p) == p = Root /\ Spawned => os[Root] = "gone"

Waiting ==
  \/ pc \in {"single_wait", "sample_wait", "list_wait"}
  \/ pc = "update_items" /\ todo = <<>> /\ rest # <<>> /\ ~Exists(Head(rest))

\* ... and need not return while one is left: what has been sampled is traced.
Traces == Native /\ Waiting /\ \E p \in sampled : Alive(p)

\* Mutant: what arrived is not looked at.
PassedTerm == SIGTERM

\* The signal main passes on.
Passed == IF interrupt < 0 THEN -interrupt ELSE SIGTERM

\* py_proc__signal on Root's py_proc_t.
SignalRoot(s) ==
  IF rootProc = "destroyed"
    THEN misused' = TRUE /\ UNCHANGED sent
    ELSE /\ sent' = IF Exists(Root) THEN s ELSE sent
         /\ UNCHANGED misused

\* The exposure has expired: interrupt++.  The handler may have run since the
\* loop last looked at interrupt.
Expire(next) ==
  /\ Exposure
  /\ \/ interrupt' = interrupt + 1
     \/ UNCHANGED interrupt
  /\ pc' = next

-------------------------------------------------------------------------------
(* do_single_process. *)

\* Mutant: only the expired exposure ends the loop.
SingleLoopExposureOnly ==
  /\ pc = "single"
  /\ pc' = IF interrupt <= 0 THEN "single_sample" ELSE "single_end"
  /\ UNCHANGED <<world, after, isPython, rootProc, listVars, interrupt, error,
                 history, signals, faults>>

SingleLoop ==
  /\ pc = "single"
  /\ pc' = IF interrupt = 0 THEN "single_sample" ELSE "single_end"
  /\ UNCHANGED <<world, after, isPython, rootProc, listVars, interrupt, error,
                 history, signals, faults>>

SingleSampleOK ==
  /\ pc = "single_sample"
  /\ CanSample(Root)
  /\ sampled' = sampled \cup {Root}
  /\ pc' = IF Exposure THEN "single_expire" ELSE "single"
  /\ UNCHANGED <<world, after, isPython, rootProc, listVars, interrupt, error,
                 received, sent, misused, signals, faults>>

\* Mutant: a failed sample does not end the loop.
SingleSampleFailsOn ==
  /\ pc = "single_sample"
  /\ SampleFails(Root)
  /\ pc' = "single"
  /\ UNCHANGED <<world, after, isPython, rootProc, listVars, interrupt, error,
                 history, signals>>

SingleSampleFails ==
  /\ pc = "single_sample"
  /\ SampleFails(Root)
  /\ pc' = "single_end"
  /\ UNCHANGED <<world, after, isPython, rootProc, listVars, interrupt, error,
                 history, signals>>

SingleExpire ==
  /\ pc = "single_expire"
  /\ Expire("single")
  /\ UNCHANGED <<world, after, isPython, rootProc, listVars, error, history,
                 signals, faults>>

SingleEnd ==
  /\ pc = "single_end"
  /\ pc' = "single_wait"
  /\ IF Spawned /\ interrupt # 0 THEN SignalRoot(Passed) ELSE UNCHANGED <<sent, misused>>
  /\ UNCHANGED <<world, after, isPython, rootProc, listVars, interrupt, error,
                 sampled, received, signals, faults>>

SingleWait ==
  /\ pc = "single_wait"
  /\ WaitReturns(Root)
  /\ rootProc' = "destroyed"
  /\ pc' = "done"
  /\ UNCHANGED <<world, after, isPython, listVars, interrupt, error, history,
                 signals, faults>>

-------------------------------------------------------------------------------
(* The process list. *)

Listed == ToSet(list)

\* The children of p in the pid table that are not in the list yet.
NewChildren(p) == {c \in Pid : table[c] = p /\ c \notin Listed}

\* Where the item of p is in the list.
Position(p) == CHOOSE i \in DOMAIN list : list[i] = p

\* Mutant: the item goes and its process object stays.
UnlinkOnly(p) ==
  /\ list' = RemoveAt(list, Position(p))
  /\ UNCHANGED rootProc

\* _py_proc_list__remove of the item of p.
Unlink(p) ==
  /\ list' = RemoveAt(list, Position(p))
  /\ rootProc' = IF p = Root THEN "destroyed" ELSE rootProc

\* py_proc_list__update, called too soon after the last one.
UpdateThrottled ==
  /\ pc = "update" /\ ~due
  /\ pc' = after
  /\ UNCHANGED <<world, after, isPython, rootProc, listVars, interrupt, error,
                 history, signals, faults>>

\* py_proc_list__update reads the parent of every process.
UpdateRead ==
  /\ pc = "update" /\ due
  /\ table' = [p \in Pid |-> IF Exists(p) THEN ppid[p] ELSE None]
  /\ rest' = list
  /\ pc' = "update_items"
  /\ UNCHANGED <<world, after, isPython, rootProc, list, todo, due, interrupt,
                 error, history, signals, faults>>

\* A process vanishes between readdir and getline: update returns with the part
\* of the table it had read, without a new timestamp.
UpdateReadFails ==
  /\ pc = "update" /\ due
  /\ faults < MaxFaults
  /\ faults' = faults + 1
  /\ \E seen \in SUBSET {p \in Pid : Exists(p)} :
       table' = [p \in Pid |-> IF p \in seen THEN ppid[p] ELSE None]
  /\ pc' = after
  /\ UNCHANGED <<world, after, isPython, rootProc, list, rest, todo, due,
                 interrupt, error, history, signals>>

\* The next item is running: its new children are to be tried.
UpdateItem ==
  /\ pc = "update_items" /\ todo = <<>> /\ rest # <<>>
  /\ Exists(Head(rest))
  /\ todo' = <<NewChildren(Head(rest))>>
  /\ rest' = Tail(rest)
  /\ UNCHANGED <<world, pc, after, isPython, rootProc, list, table, due, interrupt,
                 error, history, signals, faults>>

\* The next item is not running: it is waited for and removed.
UpdateDrops ==
  /\ pc = "update_items" /\ todo = <<>> /\ rest # <<>>
  /\ ~Exists(Head(rest))
  /\ WaitReturns(Head(rest))
  /\ Unlink(Head(rest))
  /\ rest' = Tail(rest)
  /\ UNCHANGED <<world, pc, after, isPython, table, todo, due, interrupt, error,
                 history, signals, faults>>

UpdateEnds ==
  /\ pc = "update_items" /\ todo = <<>> /\ rest = <<>>
  /\ due' = FALSE
  /\ pc' = after
  /\ UNCHANGED <<world, after, isPython, rootProc, list, table, rest, todo,
                 interrupt, error, history, signals, faults>>

\* py_proc_list__add_proc_children: one attempt to attach to a child; on
\* success the child goes to the front of the list and its own children are
\* tried next.
AttachChild(c) ==
  /\ todo # <<>> /\ c \in Head(todo)
  /\ LET left == [todo EXCEPT ![1] = @ \ {c}] IN
     IF os[c] = "run" /\ c \in Python /\ c \notin Listed
       THEN /\ list' = <<c>> \o list
            /\ todo' = <<NewChildren(c) \ {c}>> \o left
       ELSE /\ todo' = left
            /\ UNCHANGED list
  /\ UNCHANGED <<world, pc, after, isPython, rootProc, table, rest, due, interrupt,
                 error, history, signals, faults>>

AddChildrenReturns ==
  /\ todo # <<>> /\ Head(todo) = {}
  /\ todo' = Tail(todo)
  /\ UNCHANGED <<world, pc, after, isPython, rootProc, list, table, rest, due,
                 interrupt, error, history, signals, faults>>

\* One item of py_proc_list__sample is sampled ...
SampleItem ==
  /\ pc = "sample" /\ rest # <<>>
  /\ CanSample(Head(rest))
  /\ sampled' = sampled \cup {Head(rest)}
  /\ rest' = Tail(rest)
  /\ UNCHANGED <<world, pc, after, isPython, rootProc, list, table, todo, due,
                 interrupt, error, received, sent, misused, signals, faults>>

\* ... or cannot be, and then Austin waits for it to end
SampleItemFails ==
  /\ pc = "sample" /\ rest # <<>>
  /\ SampleFails(Head(rest))
  /\ pc' = "sample_wait"
  /\ UNCHANGED <<world, after, isPython, rootProc, listVars, interrupt, error,
                 history, signals>>

\* Mutant: the cursor stays on the item that is removed.
SampleItemStays ==
  /\ pc = "sample_wait"
  /\ WaitReturns(Head(rest))
  /\ Unlink(Head(rest))
  /\ pc' = "sample"
  /\ UNCHANGED <<world, after, isPython, rest, table, todo, due, interrupt, error,
                 history, signals, faults>>

\* ... and removes it.
SampleItemWaited ==
  /\ pc = "sample_wait"
  /\ WaitReturns(Head(rest))
  /\ Unlink(Head(rest))
  /\ rest' = Tail(rest)
  /\ pc' = "sample"
  /\ UNCHANGED <<world, after, isPython, table, todo, due, interrupt, error,
                 history, signals, faults>>

-------------------------------------------------------------------------------
(* do_child_processes. *)

ListNew ==
  /\ pc = "list_new"
  /\ list' = <<Root>>
  /\ IF isPython THEN pc' = "loop" /\ after' = "loop"
                 ELSE pc' = "update" /\ after' = "no_python"
  /\ UNCHANGED <<world, isPython, rootProc, table, rest, todo, due, interrupt,
                 error, history, signals, faults>>

\* Root is not Python: its children are tried by the pid saved before the
\* update, which may have removed Root.
NoPython ==
  /\ pc = "no_python"
  /\ todo' = <<NewChildren(Root)>>
  /\ pc' = "no_python_size"
  /\ UNCHANGED <<world, after, isPython, rootProc, list, table, rest, due, interrupt,
                 error, history, signals, faults>>

\* Mutant: the parent and one child make no children either.
NoPythonSizeTwo ==
  /\ pc = "no_python_size" /\ todo = <<>>
  /\ IF Len(list) <= 2
       THEN /\ error' = "EPROCNOCHILDREN"
            /\ pc' = "destroy"
            /\ IF Spawned THEN SignalRoot(SIGTERM) ELSE UNCHANGED <<sent, misused>>
       ELSE /\ pc' = "loop"
            /\ UNCHANGED <<error, sent, misused>>
  /\ UNCHANGED <<world, after, isPython, rootProc, listVars, interrupt, sampled,
                 received, signals, faults>>

NoPythonSize ==
  /\ pc = "no_python_size" /\ todo = <<>>
  /\ IF Len(list) = 1
       THEN /\ error' = "EPROCNOCHILDREN"
            /\ pc' = "destroy"
            /\ IF Spawned THEN SignalRoot(SIGTERM) ELSE UNCHANGED <<sent, misused>>
       ELSE /\ pc' = "loop"
            /\ UNCHANGED <<error, sent, misused>>
  /\ UNCHANGED <<world, after, isPython, rootProc, listVars, interrupt, sampled,
                 received, signals, faults>>

\* Mutant: the list is not updated between samples.
LoopSamplesOnly ==
  /\ pc = "loop"
  /\ pc' = IF list # <<>> /\ interrupt = 0 THEN "sample_first" ELSE "end"
  /\ UNCHANGED <<world, after, isPython, rootProc, listVars, interrupt, error, history,
                 signals, faults>>

Loop ==
  /\ pc = "loop"
  /\ IF list # <<>> /\ interrupt = 0
       THEN pc' = "update" /\ after' = "sample_first"
       ELSE pc' = "end" /\ UNCHANGED after
  /\ UNCHANGED <<world, isPython, rootProc, listVars, interrupt, error, history,
                 signals, faults>>

SampleFirst ==
  /\ pc = "sample_first"
  /\ rest' = list
  /\ pc' = "sample"
  /\ UNCHANGED <<world, after, isPython, rootProc, list, table, todo, due, interrupt,
                 error, history, signals, faults>>

SampleEnds ==
  /\ pc = "sample" /\ rest = <<>>
  /\ pc' = IF Exposure THEN "expire" ELSE "loop"
  /\ UNCHANGED <<world, after, isPython, rootProc, listVars, interrupt, error,
                 history, signals, faults>>

ChildrenExpire ==
  /\ pc = "expire"
  /\ Expire("loop")
  /\ UNCHANGED <<world, after, isPython, rootProc, listVars, error, history,
                 signals, faults>>

\* If Austin spawned Root it passes the signal on through Root, updates the
\* list once more and waits for what is in it.
End ==
  /\ pc = "end"
  /\ IF Spawned
       THEN /\ pc' = "update" /\ after' = "list_wait"
            /\ IF interrupt # 0 THEN SignalRoot(Passed) ELSE UNCHANGED <<sent, misused>>
       ELSE pc' = "destroy" /\ UNCHANGED <<after, sent, misused>>
  /\ UNCHANGED <<world, isPython, rootProc, listVars, interrupt, error, sampled,
                 received, signals, faults>>

\* py_proc_list__wait.
ListWait ==
  /\ pc = "list_wait"
  /\ \A p \in Listed : WaitReturns(p)
  /\ pc' = "destroy"
  /\ UNCHANGED <<world, after, isPython, rootProc, listVars, interrupt, error,
                 history, signals, faults>>

\* py_proc_list__destroy, when the list goes out of scope.
ListDestroy ==
  /\ pc = "destroy"
  /\ list' = <<>>
  /\ rootProc' = IF Root \in Listed THEN "destroyed" ELSE rootProc
  /\ pc' = "done"
  /\ UNCHANGED <<world, after, isPython, table, rest, todo, due, interrupt, error,
                 history, signals, faults>>

Single ==
  \/ SingleLoop \/ SingleSampleOK \/ SingleSampleFails \/ SingleExpire
  \/ SingleEnd \/ SingleWait

Update ==
  \/ UpdateThrottled \/ UpdateRead \/ UpdateReadFails
  \/ UpdateItem \/ UpdateDrops \/ UpdateEnds
  \/ (\E c \in Pid : AttachChild(c)) \/ AddChildrenReturns

Many ==
  \/ ListNew \/ NoPython \/ NoPythonSize \/ Loop \/ Update
  \/ SampleFirst \/ SampleItem \/ SampleItemFails \/ SampleItemWaited \/ SampleEnds
  \/ ChildrenExpire \/ End \/ ListWait \/ ListDestroy

Main == RunOK \/ RunFails \/ Single \/ Many

\* Austin has exited.
Done == pc = "done" /\ UNCHANGED vars

Next ==
  \/ Main
  \/ Env
  \/ Tick
  \/ \E s \in {SIGINT, SIGTERM} : HandleSignal(s)
  \/ Done

\* The main thread and the wait thread keep running, time passes, a program
\* that has been started comes up, and a process ends once it is signalled.
Fairness ==
  /\ WF_vars(~Traces /\ Main)
  /\ WF_vars(Tick)
  /\ WF_vars(Env /\ Reap)
  /\ WF_vars(Env /\ sent # 0 /\ Exit(Root))
  /\ \A p \in Pid : WF_vars(Env /\ Boot(p))

Spec == Init /\ [][Next]_vars /\ Fairness

-------------------------------------------------------------------------------
(* Properties. *)

\* Types, and how the list relates to the process objects: no process is listed
\* twice, and in -C mode Root's object lives exactly while Root is listed.
ListOK ==
  /\ list \in Seq(Pid) /\ IsInjective(list)
  /\ Listed \subseteq Python \cup {Root}
  /\ pc \notin {"run", "list_new", "done"} /\ Children
       => (rootProc = "live" <=> Root \in Listed)

\* While a loop walks the list, the items it has still to visit are the tail of
\* the list: attaching children (which inserts at the front) and removing the
\* current item never leave the cursor on an item that has been freed, nor make
\* it skip or repeat one.
CursorOK ==
  pc \in {"update_items", "sample", "sample_wait"} => IsSuffix(rest, list)

\* Austin does not exit before the process it spawned and sampled has ended and
\* been reaped.
NothingLeftBehind ==
  pc = "done" /\ Spawned /\ error = "EOK" => os[Root] = "gone"

\* The process object of Root is not used once it has been destroyed: the
\* procedures "take ownership of py_proc and are responsible for destroying it"
\* (austin.c), and main passes signals on through it at the very end.
NoUseAfterDestroy == ~misused

\* "Propagate the signal to the parent if we spawned it" (austin.c): what Austin
\* passes on is the last signal it received.  With an exposure it may be one lower,
\* if the handler runs between the loop's test of interrupt and interrupt++, and
\* SIGTERM if none was received.  A parent without Python children is terminated.
PassesSignalOn ==
  [][sent' # sent /\ pc # "no_python_size"
       => sent' \in IF received # 0 /\ ~Exposure THEN {received}
                    ELSE {received, received - 1, SIGTERM}]_vars

\* "Non-Python parent process has no Python children" (error.c) is reported
\* only if Austin has attached to none, or if the parent itself is no longer in
\* the list, whose size is then 1 with a child that is.
NoChildrenVerdict ==
  [][error' = "EPROCNOCHILDREN" /\ error # error' =>
       Listed \subseteq {Root} \/ (Root \notin Listed /\ ~Exists(Root))]_vars

\* When every process has ended Austin ends as well: no loop waits for a
\* process that was removed, none is waited for twice.
EndsWithTargets == <>[](\A p \in Pid : ~Alive(p)) => <>(pc = "done")

\* Austin stops when told to, unless it waits for a process to end by itself: for one
\* it has started, because that could not be sampled, so that the signal does not reach
\* the process; or, in austinp, for any that it traces.
Waits ==
  \/ /\ Spawned /\ Alive(Root) /\ sent = 0
     /\ pc = "single_wait" \/ (pc = "sample_wait" /\ Head(rest) = Root)
  \/ Traces

StopsOnSignal == received # 0 ~> pc = "done" \/ Waits

\* "Any child processes will be automatically detected as they are created"
\* (README.md): a Python process that stays up, as do Root and the Python
\* processes between the two, is sampled at last unless Austin is told to stop.
\* Not so if a process between has ended before the child was found; nor if a sample
\* of Root fails, as the first one does if Root is not Python: Austin drops Root, with
\* the children it may have later, or, if it has started Root, waits for it to end and
\* samples nothing meanwhile; nor while austinp waits for any process it traces.
Descends(c) ==
  \/ ppid[c] = Root
  \/ ppid[c] \in Python /\ os[ppid[c]] = "run" /\ ppid[ppid[c]] = Root

ChildrenAreSampled ==
  \A c \in Pid \ {Root} :
    <>[](Children /\ isPython /\ c \in Python /\ os[Root] = "run" /\ os[c] = "run" /\ Descends(c)
          /\ interrupt = 0 /\ pc # "done" /\ Root \in Listed /\ ~Waits)
      => <>(c \in sampled)
===============================================================================

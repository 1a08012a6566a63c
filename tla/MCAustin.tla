------------------------------- MODULE MCAustin -------------------------------
(* Austin with two other processes: a child of Root and a child of that child *)
(* (Chain), or one child of Root alone, or none.                              *)
EXTENDS Austin

CONSTANTS c1, c2

\* Who starts each process; one that would start itself never runs.
Chain     == [p \in Pid \ {Root} |-> IF p = c2 THEN c1 ELSE Root]
OnlyChild == [p \in Pid \ {Root} |-> IF p = c1 THEN Root ELSE p]
NoChild   == [p \in Pid \ {Root} |-> p]

Plain == [python |-> Pid, parentOf |-> Chain, spawned |-> TRUE, children |-> FALSE,
          exposure |-> FALSE, mayTimeOut |-> FALSE, native |-> FALSE, maxSignals |-> 1, maxFaults |-> 1]

\* A process is started, or attached to, and attached to by austinp.
Builds == {[spawned |-> spawned, native |-> FALSE] : spawned \in BOOLEAN}
            \cup {[spawned |-> FALSE, native |-> TRUE]}

\* One process: started, with or without an exposure, or attached.
SingleScenarios ==
  {[Plain EXCEPT !.parentOf = NoChild, !.spawned = spawned, !.exposure = exposure,
                 !.mayTimeOut = TRUE, !.maxSignals = 2] :
             spawned \in BOOLEAN, exposure \in BOOLEAN}

\* -C on a parent that is not Python and has a Python child: one that Austin starts, and
\* one that has been running before, in both builds.
LauncherScenarios ==
  {[Plain EXCEPT !.python = {c1}, !.parentOf = OnlyChild, !.spawned = build.spawned, !.native = build.native,
                 !.children = TRUE, !.exposure = TRUE, !.mayTimeOut = TRUE] :
     build \in Builds}

\* -C on a Python process that Austin starts, in both builds, or attaches to, with a
\* signal; and with a sample or a read that fails.
FamilyScenarios ==
  {[Plain EXCEPT !.children = TRUE, !.maxFaults = 0]}
    \cup {[Plain EXCEPT !.children = TRUE, !.spawned = build.spawned, !.native = build.native, !.maxSignals = 0] :
            build \in Builds}

MCScenarios == SingleScenarios \cup LauncherScenarios \cup FamilyScenarios
===============================================================================

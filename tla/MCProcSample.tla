----------------------------- MODULE MCProcSample -----------------------------
(* ProcSample with one interpreter of two threads, or with two interpreters, in *)
(* both builds, without churn where all the time is to be accounted for; and    *)
(* with memory, in each way to tell who holds the GIL.  A third thread may take *)
(* memory of its own, or that of a state which was freed.                       *)
EXTENDS ProcSample

CONSTANTS a1, a2, a3

OneInterp  == <<{a1, a2}>>
TwoInterps == <<{a1}, {a2}>>
Ids == [a \in Address |-> CASE a = a1 -> 1 [] a = a2 -> 2 [] a = a3 -> 0]

Plain == [start |-> OneInterp, id |-> Ids, begun |-> 2, threads |-> 2, native |-> FALSE, churn |-> FALSE,
          partial |-> FALSE, gil |-> "", time |-> 2]
Churning == [Plain EXCEPT !.churn = TRUE, !.threads = 3]

MCSubjects ==
  {[Churning EXCEPT !.partial = TRUE],
   [Churning EXCEPT !.native = TRUE, !.time = 1],
   [Churning EXCEPT !.native = TRUE, !.time = 0, !.start = TwoInterps],
   [Plain EXCEPT !.start = TwoInterps]}
    \cup {[Plain EXCEPT !.native = native, !.gil = told, !.time = 1] :
            native \in BOOLEAN, told \in {"interpreter", "runtime", "nowhere"}}
    \cup {[Churning EXCEPT !.gil = told, !.time = 0] : told \in {"interpreter", "runtime"}}
    \cup {[Churning EXCEPT !.gil = "runtime", !.native = TRUE, !.threads = 2, !.time = 0]}
===============================================================================

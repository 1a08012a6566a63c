----------------------------- MODULE MCNativeStack -----------------------------
(* Instances of NativeStack for TLC. *)
EXTENDS NativeStack

CONSTANTS n1, e1, e2, c1, c2, k1, k2

MCKernelStack == <<k1, k2>>

Call(key, run, shim) == [key |-> key, run |-> run, shim |-> shim]
Calls == {Call(n1, <<>>, FALSE), Call(e1, <<c1>>, FALSE), Call(e2, <<c2>>, FALSE),
          Call(e2, <<c2, c1>>, FALSE),
          Call(e1, <<>>, FALSE), Call(e1, <<>>, TRUE)}

\* Arrays of two frames run full with up to three calls.  Those of six hold all that
\* two calls run, in calls that run two frames too.
MCSettings == [version : {310, 311, 312}, size : {2}] \cup [version : {311, 312}, size : {6}]
MCStacks(s) ==
  LET calls == IF s.size = 2 THEN BoundedSeq(Calls, 3)
               ELSE BoundedSeq({call \in Calls : call.run \in {<<c1>>, <<c2, c1>>} \/ call.key = n1}, 2)
  IN  {stack \in calls : stack # <<>> /\ Possible(s.version, stack)}
===============================================================================

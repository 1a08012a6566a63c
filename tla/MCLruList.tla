------------------------------ MODULE MCLruList ------------------------------
(* LruList on a small instance, with a queue that evicts and one that expands. *)
EXTENDS LruList

MCModes ==
  {[capacity |-> 3, expand |-> FALSE, missFirst |-> FALSE],
   [capacity |-> 1, expand |-> TRUE,  missFirst |-> FALSE]}
==============================================================================

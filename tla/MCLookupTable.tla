----------------------------- MODULE MCLookupTable -----------------------------
(* LookupTable with pids 0 to 4 and a hash that makes some of them collide. *)
EXTENDS LookupTable

MCSlot(k, c) == 1 + ((3 * k) % c)
================================================================================

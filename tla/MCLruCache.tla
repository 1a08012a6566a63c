------------------------------ MODULE MCLruCache ------------------------------
(* LruCache on a small instance; keys and items are model values.  The caches  *)
(* are one whose client stores what may be cached already, one used as the     *)
(* frame cache is, and one used as the string cache is, which expands.         *)
EXTENDS LruCache

MCModes ==
  {[capacity |-> 3, expand |-> FALSE, missFirst |-> FALSE],
   [capacity |-> 2, expand |-> FALSE, missFirst |-> TRUE],
   [capacity |-> 1, expand |-> TRUE,  missFirst |-> TRUE]}
===============================================================================

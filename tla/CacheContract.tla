---------------------------- MODULE CacheContract ----------------------------
(***************************************************************************)
(* What a client of the structures of cache.h may rely on, with queues and *)
(* chains left out: a partial map from keys to values in which a lookup    *)
(* returns what was stored last, and a store may cost the client at most   *)
(* one other entry.  LruCache implements it, and so does LookupTable,      *)
(* which loses nothing and has a delete.                                   *)
(***************************************************************************)

CONSTANTS Key,        \* the keys a client uses
          Value,      \* the (non-NULL) values it stores
          NULL,       \* "no value": the result of a miss
          Unfindable, \* keys the table cannot find again (see LruCache)
          MayDelete   \* entries can be deleted one by one

VARIABLES map,      \* the value a lookup of each key would return
          call,     \* the last call, with its result
          mayEvict  \* never changed: FALSE for a cache created with LRU_CACHE_EXPAND

vars == <<map, call, mayEvict>>

\* The record of a call: the operation, the key and the value stored or returned.
Called(op, k, v) == [op |-> op, key |-> k, value |-> v]

Init ==
  /\ map = [k \in Key |-> NULL]
  /\ call = Called("new", NULL, NULL)
  /\ mayEvict \in BOOLEAN

Lookup(k) ==
  /\ call' = Called("get", k, map[k])
  /\ UNCHANGED <<map, mayEvict>>

Store(k, v) ==
  /\ \E lost \in {{}} \cup {{x} : x \in IF mayEvict THEN Key \ {k} ELSE {}} :
       map' = [x \in Key |->
                 IF x = k THEN IF k \in Unfindable THEN NULL ELSE v
                 ELSE IF x \in lost THEN NULL
                 ELSE map[x]]
  /\ call' = Called("set", k, v)
  /\ UNCHANGED mayEvict

Delete(k) ==
  /\ MayDelete
  /\ map' = [map EXCEPT ![k] = NULL]
  /\ call' = Called("del", k, NULL)
  /\ UNCHANGED mayEvict

Destroy ==
  /\ map' = [k \in Key |-> NULL]
  /\ call' = Called("clear", NULL, NULL)
  /\ UNCHANGED mayEvict

Next ==
  \/ \E k \in Key : Lookup(k) \/ Delete(k)
  \/ \E k \in Key, v \in Value : Store(k, v)
  \/ Destroy

Spec == Init /\ [][Next]_vars
==============================================================================

------------------------------- MODULE LruCache -------------------------------
(***************************************************************************)
(* The LRU cache of src/src/cache.c: a queue of items in order of use,     *)
(* front (most recent) first, and a hash table that maps a key to the      *)
(* queue item that holds its value.  The table and the queue are two       *)
(* structures kept coherent by hand: the table holds raw pointers into the *)
(* queue, and evicting an item frees it.                                   *)
(*                                                                         *)
(* Here the doubly linked queue is a sequence of items and the hash table  *)
(* a function; LruList has the linked list itself, LookupTable the chains. *)
(***************************************************************************)
EXTENDS Integers, Sequences, FiniteSets

CONSTANTS Key,         \* keys: frame keys, string keys
          Value,       \* values owned by the cache (frames, strings)
          Item,        \* addresses malloc may return for a queue_item_t
          NULL,
          ZeroKey,     \* the key 0, which is also the key of a chain's head
          Modes,       \* how a cache may be made and used
          MaxCapacity  \* bound: how far the model lets an expanding queue grow

\* The arguments of lru_cache_new, the queue's initial capacity and whether it is
\* LRU_CACHE_EXPAND; and whether the client stores a key only after missing it.
ASSUME ModesAssumption ==
  Modes \subseteq [capacity : Nat \ {0}, expand : BOOLEAN, missFirst : BOOLEAN]
ASSUME CapacityAssumption == MaxCapacity \in Nat
ASSUME NullAssumption == NULL \notin Item /\ NULL \notin Value /\ NULL \notin Key
ASSUME KeyAssumption == IsFiniteSet(Key)

VARIABLES mode,    \* how this cache was made and is used
          queue,   \* the items, front first
          key,     \* item->key
          value,   \* item->value
          hash,    \* the item the hash table holds for a key
          qcap,    \* queue->capacity
          hcap,    \* hash->capacity
          call,    \* the last call, with the value stored or returned
          since    \* history: the items used since an item was last used

vars == <<mode, queue, key, value, hash, qcap, hcap, call, since>>

Expand    == mode.expand
MissFirst == mode.missFirst

\* The record of a call: the operation, the key and the value stored or returned.
Called(op, k, v) == [op |-> op, key |-> k, value |-> v]

Live == {queue[i] : i \in 1..Len(queue)}

-------------------------------------------------------------------------------
(* The queue. *)

queueIsFull == Len(queue) = qcap

Enqueue(q, x) == <<x>> \o q

\* Mutant: the most recently used item is the one to go.
DequeueFront(q) == SubSeq(q, 2, Len(q))

Dequeue(q) == SubSeq(q, 1, Len(q) - 1)

\* The queue with its i-th item brought to the front.
ToFront(q, i) ==
  [j \in 1..Len(q) |-> IF j = 1 THEN q[i] ELSE IF j <= i THEN q[j - 1] ELSE q[j]]

-------------------------------------------------------------------------------
(* The hash table, as far as the cache sees it. *)

\* Mutant: the load factor is applied the wrong way round.
HashCapacitySmaller(c) == (c * 3) \div 4

\* (capacity * 4 / 3) | 1
HashCapacity(c) == LET n == (c * 4) \div 3 IN IF n % 2 = 0 THEN n + 1 ELSE n

\* A chain starts with a head whose key is 0 and whose value is NULL, and
\* chain__find compares the head too: key 0 is never found.
HashGet(k) == IF k = ZeroKey THEN NULL ELSE hash[k]

\* Mutant: a key that is there already keeps its value.
HashSetKeepsOld(h, capacity, k, x) ==
  IF h[k] # NULL \/ Cardinality({j \in Key : h[j] # NULL}) >= capacity
    THEN h
    ELSE [h EXCEPT ![k] = x]

\* hash_table__set ignores a new key once size has reached capacity.
HashSet(h, capacity, k, x) ==
  IF h[k] = NULL /\ Cardinality({j \in Key : h[j] # NULL}) >= capacity
    THEN h
    ELSE [h EXCEPT ![k] = x]

HashDel(h, k) == [h EXCEPT ![k] = NULL]

-------------------------------------------------------------------------------
(* The cache. *)

\* History: item x has just been used, in a queue whose items are then in S.
Touch(x, S) ==
  since' = [y \in Item |-> IF y = x \/ y \notin S THEN {}
                           ELSE (since[y] \cup {x}) \cap S]

Init ==
  /\ mode \in Modes
  /\ queue = <<>>
  /\ key = [x \in Item |-> NULL]
  /\ value = [x \in Item |-> NULL]
  /\ hash = [k \in Key |-> NULL]
  /\ qcap = mode.capacity
  /\ hcap = HashCapacity(mode.capacity)
  /\ call = Called("new", NULL, NULL)
  /\ since = [x \in Item |-> {}]

\* lru_cache__maybe_hit, the key is found.
Hit(k) ==
  /\ HashGet(k) # NULL
  /\ \E i \in 1..Len(queue) :
       /\ queue[i] = HashGet(k)
       /\ queue' = ToFront(queue, i)
  /\ call' = Called("get", k, value[HashGet(k)])
  /\ Touch(HashGet(k), Live)
  /\ UNCHANGED <<mode, key, value, hash, qcap, hcap>>

\* lru_cache__maybe_hit, the key is not found.
Miss(k) ==
  /\ HashGet(k) = NULL
  /\ call' = Called("get", k, NULL)
  /\ UNCHANGED <<mode, queue, key, value, hash, qcap, hcap, since>>

\* queue__enqueue of (k, v) in a fresh item, in front of the queue q and with
\* the table h of the given capacity, and the hash_table__set that follows.
EnqueueAndSet(q, h, capacity, k, v) ==
  \E x \in Item \ {q[i] : i \in 1..Len(q)} :
    /\ queue' = Enqueue(q, x)
    /\ key' = [y \in Item |-> IF y = x THEN k
                              ELSE IF y \in {q[i] : i \in 1..Len(q)} THEN key[y]
                              ELSE NULL]
    /\ value' = [y \in Item |-> IF y = x THEN v
                                ELSE IF y \in {q[i] : i \in 1..Len(q)} THEN value[y]
                                ELSE NULL]
    /\ hash' = HashSet(h, capacity, k, x)
    /\ Touch(x, {q[i] : i \in 1..Len(q)} \cup {x})

ClientStores(k) == MissFirst => HashGet(k) = NULL

\* lru_cache__store with room in the queue.
StoreWithRoom(k, v) ==
  /\ ClientStores(k)
  /\ ~queueIsFull
  /\ EnqueueAndSet(queue, hash, hcap, k, v)
  /\ call' = Called("set", k, v)
  /\ UNCHANGED <<mode, qcap, hcap>>

\* Mutant: the key of the evicted item stays in the table.
StoreAndEvictKeepsKey(k, v) ==
  /\ ClientStores(k)
  /\ queueIsFull
  /\ ~Expand
  /\ EnqueueAndSet(Dequeue(queue), hash, hcap, k, v)
  /\ call' = Called("set", k, v)
  /\ UNCHANGED <<mode, qcap, hcap>>

\* lru_cache__store into a full cache of fixed capacity: the rear item's key
\* is deleted from the table, then the item and its value are freed.
StoreAndEvict(k, v) ==
  /\ ClientStores(k)
  /\ queueIsFull
  /\ ~Expand
  /\ EnqueueAndSet(Dequeue(queue), HashDel(hash, key[queue[Len(queue)]]), hcap, k, v)
  /\ call' = Called("set", k, v)
  /\ UNCHANGED <<mode, qcap, hcap>>

\* hash_table__set of every entry of h in a new table of the given capacity:
\* entries beyond the capacity would be dropped, whichever come last.
Rehashes(h, capacity) ==
  LET keys == {k \in Key : h[k] # NULL}
      kept == {S \in SUBSET keys :
                 Cardinality(S) = IF Cardinality(keys) <= capacity
                                    THEN Cardinality(keys) ELSE capacity}
  IN  {[k \in Key |-> IF k \in S THEN h[k] ELSE NULL] : S \in kept}

\* lru_cache__store into a full cache that expands: the queue and the table
\* double and the table's items are moved across.
StoreAndExpand(k, v) ==
  /\ ClientStores(k)
  /\ queueIsFull
  /\ Expand
  /\ qcap * 2 <= MaxCapacity
  /\ qcap' = qcap * 2
  /\ hcap' = HashCapacity(qcap * 2)
  /\ \E h \in Rehashes(hash, HashCapacity(qcap * 2)) :
       EnqueueAndSet(queue, h, HashCapacity(qcap * 2), k, v)
  /\ call' = Called("set", k, v)
  /\ UNCHANGED mode

Store(k, v) == StoreWithRoom(k, v) \/ StoreAndEvict(k, v) \/ StoreAndExpand(k, v)

\* lru_cache__destroy, and lru_cache_new for the next process to be sampled.
Destroy ==
  /\ queue' = <<>>
  /\ key' = [x \in Item |-> NULL]
  /\ value' = [x \in Item |-> NULL]
  /\ hash' = [k \in Key |-> NULL]
  /\ qcap' = mode.capacity
  /\ hcap' = HashCapacity(mode.capacity)
  /\ since' = [x \in Item |-> {}]
  /\ call' = Called("clear", NULL, NULL)
  /\ UNCHANGED mode

Next ==
  \/ \E k \in Key : Hit(k) \/ Miss(k)
  \/ \E k \in Key, v \in Value : Store(k, v)
  \/ Destroy

Spec == Init /\ [][Next]_vars

-------------------------------------------------------------------------------
(* Properties. *)

\* Every variable has the type of the field it stands for.
TypeOK ==
  /\ mode \in Modes
  /\ queue \in Seq(Item)
  /\ key \in [Item -> Key \cup {NULL}]
  /\ value \in [Item -> Value \cup {NULL}]
  /\ hash \in [Key -> Item \cup {NULL}]
  /\ qcap \in Nat \ {0}
  /\ hcap = HashCapacity(qcap)
  /\ call \in [op : {"new", "get", "set", "clear"}, key : Key \cup {NULL}, value : Value \cup {NULL}]
  /\ since \in [Item -> SUBSET Item]

\* No item is in the queue twice, and the queue is never above its capacity:
\* the list surgery of lru_cache__maybe_hit and the == of queue__is_full.
QueueOK ==
  /\ Len(queue) <= qcap
  /\ \A i, j \in 1..Len(queue) : queue[i] = queue[j] => i = j

\* The hash table never leads to a freed item or to the item of another key,
\* and of two items with the same key it leads to the newer one.  The last
\* part is why evicting the older one, which deletes the key from the table,
\* cannot leave a pointer to freed memory behind.
NoDanglingEntry ==
  \A k \in Key : hash[k] # NULL =>
    \E i \in 1..Len(queue) :
      /\ queue[i] = hash[k]
      /\ key[queue[i]] = k
      /\ \A j \in 1..(i - 1) : key[queue[j]] # k

\* When every store follows a miss of the same key, as in resolve_py_stack and
\* _frame_from_code_raddr, the table leads to every item of the queue, so no
\* memory is held that a lookup cannot reach (key 0 excepted).
NoOrphan ==
  MissFirst => \A i \in 1..Len(queue) :
                 key[queue[i]] # ZeroKey => hash[key[queue[i]]] = queue[i]

\* The queue lists the items in order of use, most recent first.
UseOrder ==
  \A j \in 1..Len(queue) :
    since[queue[j]] = {queue[i] : i \in 1..(j - 1)}

\* Queue, table and the history of uses agree: the types, and the three properties
\* above, none of which is inductive without the others.
IInv == TypeOK /\ QueueOK /\ NoDanglingEntry /\ UseOrder

\* An item is freed only when the cache is destroyed or when the queue is full
\* and may not grow, and then every other item was used after it: "If the cache
\* is full, the least recently used key/value pair is evicted" (cache.h).  This
\* is what lets unwinding keep pointers to the frames of one stack: a frame
\* used within the last qcap uses is still there.
EvictsLeastRecent ==
  [][\A x \in Live \ Live' :
       \/ queue' = <<>>
       \/ /\ Len(queue) = qcap /\ ~Expand
          /\ Live \ {x} \subseteq since[x]]_vars

Contract ==
  INSTANCE CacheContract
    WITH map <- [k \in Key |-> IF HashGet(k) = NULL THEN NULL ELSE value[HashGet(k)]],
         Unfindable <- {ZeroKey},
         mayEvict <- ~Expand,
         MayDelete <- FALSE

\* The cache keeps the promise of CacheContract: a lookup returns the value
\* stored last, a store is visible to the next lookup (hash_table__set never
\* meets a table at capacity) and costs at most one other key, none if the
\* cache expands.
ImplementsContract == Contract!Spec
===============================================================================

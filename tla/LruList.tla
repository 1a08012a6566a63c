-------------------------------- MODULE LruList --------------------------------
(***************************************************************************)
(* The LRU cache with the doubly linked list that cache.c really keeps:    *)
(* every item has prev and next pointers, the queue has front, rear and    *)
(* count, and the hash table points into the middle of the list.  LruList  *)
(* implements LruCache, whose queue is what a walk from front finds.       *)
(***************************************************************************)
EXTENDS Integers, Sequences, FiniteSets

CONSTANTS Key, Value, Item, NULL, ZeroKey, Modes, MaxCapacity  \* as in LruCache

ASSUME ModesAssumption ==
  Modes \subseteq [capacity : Nat \ {0}, expand : BOOLEAN, missFirst : BOOLEAN]
ASSUME CapacityAssumption == MaxCapacity \in Nat
ASSUME NullAssumption == NULL \notin Item /\ NULL \notin Value /\ NULL \notin Key
ASSUME FiniteAssumption == IsFiniteSet(Key) /\ IsFiniteSet(Item)

VARIABLES mode,         \* how the cache was made and is used
          front, rear,  \* queue->front, queue->rear
          count,        \* queue->count
          prev, next,   \* item->prev, item->next
          key, value, hash, qcap, hcap,
          call           \* the last call, with the value stored or returned

vars == <<mode, front, rear, count, prev, next, key, value, hash, qcap, hcap, call>>

\* walk[n] is the item n next-pointers away from the front.
walk[n \in 0..Cardinality(Item)] ==
  IF n = 0 THEN front
  ELSE IF walk[n - 1] = NULL THEN NULL ELSE next[walk[n - 1]]

Listed == [i \in 1..count |-> walk[i - 1]]

\* The items used since an item was, which are those before it.
UsedSince ==
  [x \in Item |-> {Listed[i] : i \in {j \in 1..count : \E n \in (j + 1)..count : Listed[n] = x}}]

Lru == INSTANCE LruCache WITH queue <- Listed, since <- UsedSince

-------------------------------------------------------------------------------
(* The list; a list is a record of the queue's pointers and the items' own. *)

List == [front |-> front, rear |-> rear, count |-> count, prev |-> prev, next |-> next]

\* queue__dequeue: the rear item is unlinked and freed.
Dequeue(q) ==
  LET temp == q.rear
      rest == q.prev[temp]
  IN  [front |-> IF q.front = q.rear THEN NULL ELSE q.front,
       rear  |-> rest,
       count |-> q.count - 1,
       prev  |-> [q.prev EXCEPT ![temp] = NULL],
       next  |-> [x \in Item |-> IF x = rest \/ x = temp THEN NULL ELSE q.next[x]]]

\* queue__enqueue of a fresh (zeroed) item x.
Enqueue(q, x) ==
  [front |-> x,
   rear  |-> IF q.rear = NULL THEN x ELSE q.rear,
   count |-> q.count + 1,
   prev  |-> IF q.rear = NULL THEN q.prev ELSE [q.prev EXCEPT ![q.front] = x],
   next  |-> [q.next EXCEPT ![x] = q.front]]

\* Mutant: the item after x still points back to x.
BringToFrontHalf(q, x) ==
  LET before == q.prev[x]
      next1  == [q.next EXCEPT ![before] = IF x = q.rear THEN NULL ELSE q.next[x]]
  IN  [front |-> x,
       rear  |-> IF x = q.rear THEN before ELSE q.rear,
       count |-> q.count,
       prev  |-> [q.prev EXCEPT ![x] = NULL, ![q.front] = x],
       next  |-> [next1 EXCEPT ![x] = q.front]]

\* The surgery of lru_cache__maybe_hit on an item x that is not the front: the
\* item is unlinked from its neighbours (rear moves if x was the rear), then
\* linked before the front.
BringToFront(q, x) ==
  LET before == q.prev[x]
      after  == q.next[x]
      next1  == [q.next EXCEPT ![before] = IF x = q.rear THEN NULL ELSE after]
      prev1  == IF after = NULL THEN q.prev ELSE [q.prev EXCEPT ![after] = before]
  IN  [front |-> x,
       rear  |-> IF x = q.rear THEN before ELSE q.rear,
       count |-> q.count,
       prev  |-> [prev1 EXCEPT ![x] = NULL, ![q.front] = x],
       next  |-> [next1 EXCEPT ![x] = q.front]]

SetList(q) ==
  /\ front' = q.front /\ rear' = q.rear /\ count' = q.count
  /\ prev' = q.prev   /\ next' = q.next

-------------------------------------------------------------------------------
(* The cache. *)

Init ==
  /\ mode \in Modes
  /\ front = NULL /\ rear = NULL /\ count = 0
  /\ prev = [x \in Item |-> NULL]
  /\ next = [x \in Item |-> NULL]
  /\ key = [x \in Item |-> NULL]
  /\ value = [x \in Item |-> NULL]
  /\ hash = [k \in Key |-> NULL]
  /\ qcap = mode.capacity
  /\ hcap = Lru!HashCapacity(mode.capacity)
  /\ call = Lru!Called("new", NULL, NULL)

\* Mutant: an item found at the rear stays there.
HitNotRear(k) ==
  LET item == Lru!HashGet(k) IN
  /\ item # NULL
  /\ SetList(IF item \in {front, rear} THEN List ELSE BringToFront(List, item))
  /\ call' = Lru!Called("get", k, value[item])
  /\ UNCHANGED <<mode, key, value, hash, qcap, hcap>>

Hit(k) ==
  LET item == Lru!HashGet(k) IN
  /\ item # NULL
  /\ SetList(IF item = front THEN List ELSE BringToFront(List, item))
  /\ call' = Lru!Called("get", k, value[item])
  /\ UNCHANGED <<mode, key, value, hash, qcap, hcap>>

Miss(k) ==
  /\ Lru!HashGet(k) = NULL
  /\ call' = Lru!Called("get", k, NULL)
  /\ UNCHANGED <<mode, front, rear, count, prev, next, key, value, hash, qcap, hcap>>

\* An item is allocated exactly while it holds a value.
Allocated(x) == value[x] # NULL

\* The item x takes (k, v); the item freed, if any, is forgotten.
EnqueueAndSet(q, freed, h, capacity, k, v) ==
  \E x \in {y \in Item : ~Allocated(y)} \cup freed :
    /\ SetList(Enqueue(q, x))
    /\ key' = [y \in Item |-> IF y = x THEN k ELSE IF y \in freed THEN NULL ELSE key[y]]
    /\ value' = [y \in Item |-> IF y = x THEN v ELSE IF y \in freed THEN NULL ELSE value[y]]
    /\ hash' = Lru!HashSet(h, capacity, k, x)

Store(k, v) ==
  /\ Lru!ClientStores(k)
  /\ call' = Lru!Called("set", k, v)
  /\ UNCHANGED mode
  /\ \/ /\ count # qcap
        /\ EnqueueAndSet(List, {}, hash, hcap, k, v)
        /\ UNCHANGED <<qcap, hcap>>
     \/ /\ count = qcap /\ ~mode.expand
        /\ EnqueueAndSet(Dequeue(List), {rear}, Lru!HashDel(hash, key[rear]), hcap, k, v)
        /\ UNCHANGED <<qcap, hcap>>
     \/ /\ count = qcap /\ mode.expand
        /\ qcap * 2 <= MaxCapacity
        /\ qcap' = qcap * 2
        /\ hcap' = Lru!HashCapacity(qcap * 2)
        /\ \E h \in Lru!Rehashes(hash, Lru!HashCapacity(qcap * 2)) :
             EnqueueAndSet(List, {}, h, Lru!HashCapacity(qcap * 2), k, v)

Destroy ==
  /\ front' = NULL /\ rear' = NULL /\ count' = 0
  /\ prev' = [x \in Item |-> NULL]
  /\ next' = [x \in Item |-> NULL]
  /\ key' = [x \in Item |-> NULL]
  /\ value' = [x \in Item |-> NULL]
  /\ hash' = [k \in Key |-> NULL]
  /\ qcap' = mode.capacity
  /\ hcap' = Lru!HashCapacity(mode.capacity)
  /\ call' = Lru!Called("clear", NULL, NULL)
  /\ UNCHANGED mode

Next ==
  \/ \E k \in Key : Hit(k) \/ Miss(k)
  \/ \E k \in Key, v \in Value : Store(k, v)
  \/ Destroy

Spec == Init /\ [][Next]_vars

-------------------------------------------------------------------------------
(* Properties. *)

\* The list is well formed after any sequence of hits, stores and evictions: a
\* walk along next visits exactly the allocated items, count of them, and ends
\* at rear, and prev mirrors next.  A slip in the unlinking of maybe_hit (the
\* rear, a neighbour's back pointer) shows only several operations later, when
\* the rear is dequeued.
ListOK ==
  /\ {Listed[i] : i \in 1..count} = {x \in Item : Allocated(x)}
  /\ Cardinality({x \in Item : Allocated(x)}) = count
  /\ walk[count] = NULL
  /\ rear = IF count = 0 THEN NULL ELSE Listed[count]
  /\ \A i \in 1..count :
       prev[Listed[i]] = IF i = 1 THEN NULL ELSE Listed[i - 1]

\* The linked list implements the queue of LruCache: a hit moves one item to
\* the front and keeps the order of the others, an eviction removes the last.
ImplementsLruCache == Lru!Spec
===============================================================================

------------------------------ MODULE LookupTable ------------------------------
(***************************************************************************)
(* The hash table of src/src/cache.c and the lookup built on it: chains    *)
(* that start with a head, a table that refuses new keys beyond its        *)
(* capacity, and a lookup that doubles the table before that happens.  The *)
(* process list finds a process by its pid, and the parent of every pid of *)
(* the system, in two of these.                                            *)
(***************************************************************************)
EXTENDS Integers, Sequences, FiniteSets

CONSTANTS Key,        \* keys: pids
          Value,      \* the pointers stored, NULL (a parent pid of 0) included
          NULL,
          ZeroKey,    \* the key of a chain's head
          Size,       \* the argument of lookup_new
          Slot(_, _)  \* _hash_table__index: the slot of a key, given a capacity

ASSUME KeyAssumption == IsFiniteSet(Key)
ASSUME SizeAssumption == Size \in Nat \ {0}
ASSUME SlotAssumption == \A k \in Key, c \in Size..(4 * (Size + Cardinality(Key))) :
                           Slot(k, c) \in 1..c

VARIABLES table, \* lookup->hash: capacity, size and chains
          call   \* the last call, with the value stored or returned

vars == <<table, call>>

\* The record of a call: the operation, the key and the value stored or returned.
Called(op, k, v) == [op |-> op, key |-> k, value |-> v]

-------------------------------------------------------------------------------
(* A chain is the sequence of its links, the head (0, NULL) included; one that  *)
(* was never used, or has been emptied, has no links at all.                    *)

Head0 == <<[key |-> ZeroKey, value |-> NULL]>>

\* The links of a chain from position i on that have the key.
From(chain, i, k) == {j \in i..Len(chain) : chain[j].key = k}

First(S) == CHOOSE i \in S : \A j \in S : i <= j

Has(chain, k) == From(chain, 1, k) # {}

Find(chain, k) == IF Has(chain, k) THEN chain[First(From(chain, 1, k))].value ELSE NULL

\* Adding and removing begin after the head.
Add(chain, k, v) ==
  IF From(chain, 2, k) = {}
    THEN Append(chain, [key |-> k, value |-> v])
    ELSE [chain EXCEPT ![First(From(chain, 2, k))].value = v]

Without(chain, k) ==
  LET i == First(From(chain, 2, k))
  IN  IF From(chain, 2, k) = {} THEN chain
      ELSE SubSeq(chain, 1, i - 1) \o SubSeq(chain, i + 1, Len(chain))

-------------------------------------------------------------------------------
(* The table. *)

New(capacity) ==
  [capacity |-> capacity, size |-> 0, chains |-> [i \in 1..capacity |-> <<>>]]

Get(t, k) == Find(t.chains[Slot(k, t.capacity)], k)

\* Mutant: every store counts as a new entry.
SetCounts(t, k, v) ==
  LET i == Slot(k, t.capacity)
      old == IF t.chains[i] = <<>> THEN Head0 ELSE t.chains[i]
  IN  IF t.size >= t.capacity /\ ~Has(t.chains[i], k)
        THEN t
        ELSE [t EXCEPT !.chains[i] = Add(old, k, v), !.size = @ + 1]

\* hash_table__set ignores a new key when the table is at its capacity.
Set(t, k, v) ==
  LET i == Slot(k, t.capacity)
      old == IF t.chains[i] = <<>> THEN Head0 ELSE t.chains[i]
  IN  IF t.size >= t.capacity /\ ~Has(t.chains[i], k)
        THEN t
        ELSE [t EXCEPT !.chains[i] = Add(old, k, v),
                       !.size = @ + Len(Add(old, k, v)) - Len(old)]

\* hash_table__del; a chain left with its head alone is destroyed.
Del(t, k) ==
  LET i == Slot(k, t.capacity)
      old == t.chains[i]
  IN  IF t.size = 0 \/ old = <<>>
        THEN t
        ELSE [t EXCEPT !.chains[i] = IF Without(old, k) = Head0 THEN <<>> ELSE Without(old, k),
                       !.size = @ - (Len(old) - Len(Without(old, k)))]

IsFull(t) == t.size >= (3 * t.capacity) \div 4

\* hash_table__iteritems visits the links of a chain after its head, NULLs left out;
\* the entries of the chain are stored in new.
MoveChain(new, chain) ==
  LET moved[j \in 0..Len(chain)] ==
        IF j = 0 THEN new
        ELSE IF j = 1 \/ chain[j].value = NULL THEN moved[j - 1]
        ELSE Set(moved[j - 1], chain[j].key, chain[j].value)
  IN  moved[Len(chain)]

\* Mutant: the last chain is not visited.
DoubledButLast(t) ==
  LET moved[i \in 0..t.capacity] ==
        IF i = 0 THEN New(2 * t.capacity) ELSE MoveChain(moved[i - 1], t.chains[i])
  IN  moved[t.capacity - 1]

\* The new table of twice the capacity, with the items moved across, chain by chain.
Doubled(t) ==
  LET moved[i \in 0..t.capacity] ==
        IF i = 0 THEN New(2 * t.capacity) ELSE MoveChain(moved[i - 1], t.chains[i])
  IN  moved[t.capacity]

-------------------------------------------------------------------------------
(* The lookup. *)

Init ==
  /\ table = New(Size)
  /\ call = Called("new", NULL, NULL)

\* lookup__get
LookupGet(k) ==
  /\ call' = Called("get", k, Get(table, k))
  /\ UNCHANGED table

\* lookup__set
LookupSet(k, v) ==
  /\ table' = Set(IF IsFull(table) THEN Doubled(table) ELSE table, k, v)
  /\ call' = Called("set", k, v)

\* lookup__del
LookupDel(k) ==
  /\ table' = Del(table, k)
  /\ call' = Called("del", k, NULL)

\* lookup__clear
LookupClear ==
  /\ table' = New(table.capacity)
  /\ call' = Called("clear", NULL, NULL)

Next ==
  \/ \E k \in Key : LookupGet(k) \/ LookupDel(k) \/ \E v \in Value : LookupSet(k, v)
  \/ LookupClear

Spec == Init /\ [][Next]_vars

-------------------------------------------------------------------------------
(* Properties. *)

\* The chains hold each key once, in the slot where it is looked for, no chain
\* consists of its head alone, and size, which decides whether the next key is
\* ignored, is the number of entries.
TableOK ==
  LET links == {p \in (1..table.capacity) \X (2..(Cardinality(Key) + 1)) :
                  p[2] <= Len(table.chains[p[1]])}
      keyAt(p) == table.chains[p[1]][p[2]].key
  IN  /\ table.size = Cardinality(links)
      /\ table.size <= table.capacity
      /\ \A p, q \in links : keyAt(p) = keyAt(q) => p = q
      /\ \A p \in links : p[1] = Slot(keyAt(p), table.capacity)
      /\ \A i \in 1..table.capacity : table.chains[i] = <<>> \/ Len(table.chains[i]) > 1

Contract ==
  INSTANCE CacheContract
    WITH map <- [k \in Key |-> Get(table, k)],
         Unfindable <- {ZeroKey},
         mayEvict <- FALSE,
         MayDelete <- TRUE

\* A lookup returns what was stored last under the key, whatever else was
\* stored and deleted in between and however often the table was doubled; only
\* key 0, which is the key of every chain's head, is never found.
ImplementsContract == Contract!Spec
===============================================================================

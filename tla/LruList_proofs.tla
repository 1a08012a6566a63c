----------------------------- MODULE LruList_proofs -----------------------------
(***************************************************************************)
(* LruList implements LruCache, for any number of items and any capacity:  *)
(* the pointers of the list always spell a sequence (Spells), the surgery  *)
(* of a hit and of an eviction does to them what ToFront and Dequeue do to *)
(* the sequence, and a walk along next reads that sequence (Reads).        *)
(* That entries of the hash table are in the list comes from the invariant *)
(* of LruCache, under the mapping.                                         *)
(***************************************************************************)
EXTENDS LruList, SequenceTheorems, FiniteSetTheorems, WellFoundedInduction, TLAPS

Impl == INSTANCE LruCache_proofs WITH queue <- Listed, since <- UsedSince

Distinct(q) == \A i, j \in 1..Len(q) : q[i] = q[j] => i = j

\* The pointers of the list l spell the sequence q, and items outside are zeroed.
Spells(l, q) ==
  /\ q \in Seq(Item) /\ Distinct(q)
  /\ l.prev \in [Item -> Item \cup {NULL}] /\ l.next \in [Item -> Item \cup {NULL}]
  /\ l.count = Len(q)
  /\ l.front = IF Len(q) = 0 THEN NULL ELSE q[1]
  /\ l.rear = IF Len(q) = 0 THEN NULL ELSE q[Len(q)]
  /\ \A i \in 1..Len(q) : l.next[q[i]] = IF i = Len(q) THEN NULL ELSE q[i + 1]
  /\ \A i \in 1..Len(q) : l.prev[q[i]] = IF i = 1 THEN NULL ELSE q[i - 1]
  /\ \A x \in Item : (\A i \in 1..Len(q) : q[i] # x) => l.prev[x] = NULL

-------------------------------------------------------------------------------
(* Reading the list. *)

\* A set of naturals that is not empty has a least element.
LEMMA Least == ASSUME NEW S \in SUBSET Nat, S # {} PROVE \E m \in S : \A n \in S : m <= n
<1> DEFINE R == {ss \in Nat \X Nat : ss[1] < ss[2]}
<1>1. IsWellFoundedOn(R, Nat)
  BY NatLessThanWellFounded DEF OpToRel
<1>2. \A n, m \in Nat : n < m => <<n, m>> \in R
  OBVIOUS
<1> HIDE DEF R
<1>3. \E m \in S : \A n \in S : ~(<<n, m>> \in R)
  BY <1>1, WFMin
<1>4. PICK m \in S : \A n \in S : ~(<<n, m>> \in R)
  BY <1>3
<1>5. \A n \in S : ~(n < m)
  BY <1>2, <1>4
<1> QED
  BY <1>5

\* The list is not longer than there are items.
LEMMA Fits == ASSUME NEW q \in Seq(Item), Distinct(q) PROVE Len(q) <= Cardinality(Item) /\ Cardinality(Item) \in Nat
<1>1. q \in Injection(1..Len(q), Item)
  BY DEF Injection, IsInjective, Distinct
<1>2. IsFiniteSet(Item)
  BY FiniteAssumption
<1>3. Cardinality(1..Len(q)) <= Cardinality(Item)
  BY <1>1, <1>2, FS_Injection
<1>4. Len(q) \in Nat /\ Cardinality(1..Len(q)) = Len(q)
  <2>1. Len(q) \in Nat
    OBVIOUS
  <2>2. Cardinality(1..Len(q)) = IF 1 > Len(q) THEN 0 ELSE Len(q) - 1 + 1
    BY <2>1, FS_Interval
  <2> QED
    BY <2>1, <2>2
<1> QED
  BY <1>2, <1>3, <1>4, FS_CardinalityType

\* A walk along next from the front reads what the pointers spell, and then NULL.
LEMMA Walks ==
  ASSUME NEW q, Spells(List, q)
  PROVE  \A n \in 0..Cardinality(Item) : walk[n] = IF n < Len(q) THEN q[n + 1] ELSE NULL
<1> DEFINE N == 0..Cardinality(Item)
           g == [n \in N |-> IF n < Len(q) THEN q[n + 1] ELSE NULL]
<1>1. /\ q \in Seq(Item) /\ Distinct(q) /\ Len(q) \in Nat
      /\ front = IF Len(q) = 0 THEN NULL ELSE q[1]
      /\ \A i \in 1..Len(q) : next[q[i]] = IF i = Len(q) THEN NULL ELSE q[i + 1]
      /\ \A i \in 1..Len(q) : q[i] # NULL
  BY NullAssumption DEF Spells, List
<1>2. Cardinality(Item) \in Nat
  BY <1>1, Fits
<1>3. g = [n \in N |-> IF n = 0 THEN front ELSE IF g[n - 1] = NULL THEN NULL ELSE next[g[n - 1]]]
  <2>1. ASSUME NEW n \in N
        PROVE  g[n] = IF n = 0 THEN front ELSE IF g[n - 1] = NULL THEN NULL ELSE next[g[n - 1]]
    <3>1. CASE n = 0
      BY <1>1, <1>2, <3>1
    <3>2. CASE n # 0
      <4>1. n - 1 \in N /\ n \in Nat /\ g[n - 1] = IF n - 1 < Len(q) THEN q[n] ELSE NULL
        BY <1>2, <3>2
      <4>2. CASE n - 1 < Len(q)
        <5>1. n \in 1..Len(q) /\ g[n - 1] = q[n]
          BY <1>1, <3>2, <4>1, <4>2
        <5>2. next[q[n]] = IF n = Len(q) THEN NULL ELSE q[n + 1]
          BY <1>1, <5>1
        <5> QED
          BY <1>1, <3>2, <4>1, <5>1, <5>2
      <4>3. CASE ~(n - 1 < Len(q))
        BY <1>1, <3>2, <4>1, <4>3
      <4> QED
        BY <4>2, <4>3
    <3> QED
      BY <3>1, <3>2
  <2> QED
    BY <2>1
<1> HIDE DEF g
<1>4. walk = [n \in N |-> IF n = 0 THEN front ELSE IF walk[n - 1] = NULL THEN NULL ELSE next[walk[n - 1]]]
  BY <1>3 DEF walk
<1>5. {n \in N : walk[n] # g[n]} = {}
  <2> SUFFICES ASSUME {n \in N : walk[n] # g[n]} # {} PROVE FALSE
    OBVIOUS
  <2>1. {n \in N : walk[n] # g[n]} \in SUBSET Nat
    BY <1>2
  <2>2. PICK m \in N : walk[m] # g[m] /\ \A n \in N : walk[n] # g[n] => m <= n
    BY <2>1, Least
  <2>3. m # 0
    BY <1>3, <1>4, <2>2
  <2>4. m - 1 \in N /\ walk[m - 1] = g[m - 1]
    BY <1>2, <2>2, <2>3
  <2> QED
    BY <1>3, <1>4, <2>2, <2>4
<1> QED
  BY <1>5 DEF g

\* What LruList maps to the queue is what the pointers spell.
LEMMA Reads == ASSUME NEW q, Spells(List, q) PROVE Listed = q /\ count = Len(q)
<1>1. q \in Seq(Item) /\ Distinct(q) /\ Len(q) \in Nat /\ count = Len(q)
  BY DEF Spells, List
<1>2. Len(q) <= Cardinality(Item) /\ Cardinality(Item) \in Nat
  BY <1>1, Fits
<1>3. ASSUME NEW i \in 1..Len(q) PROVE walk[i - 1] = q[i]
  <2>1. i - 1 \in 0..Cardinality(Item) /\ i - 1 < Len(q) /\ i - 1 + 1 = i
    BY <1>1, <1>2
  <2> QED
    BY <2>1, Walks
<1>4. Listed = [i \in 1..Len(q) |-> q[i]]
  BY <1>1, <1>3 DEF Listed
<1> QED
  BY <1>1, <1>4

-------------------------------------------------------------------------------
(* The surgery. *)

\* A hit on the ith item brings it to the front and keeps the order of the others.
LEMMA BringToFrontSpells ==
  ASSUME NEW l, NEW q, Spells(l, q), NEW i \in 2..Len(q)
  PROVE  Spells(BringToFront(l, q[i]), Impl!ToFront(q, i))
<1> DEFINE n == Len(q)
           x == q[i]
           m == BringToFront(l, x)
           r == Impl!ToFront(q, i)
<1>1. /\ n \in Nat /\ i \in 2..n /\ q \in Seq(Item) /\ NULL \notin Item
      /\ \A j \in 1..n : q[j] \in Item
      /\ \A j, k \in 1..n : q[j] = q[k] => j = k
      /\ l.prev \in [Item -> Item \cup {NULL}] /\ l.next \in [Item -> Item \cup {NULL}]
      /\ l.count = n /\ l.front = q[1] /\ l.rear = q[n]
      /\ \A j \in 1..n : l.next[q[j]] = IF j = n THEN NULL ELSE q[j + 1]
      /\ \A j \in 1..n : l.prev[q[j]] = IF j = 1 THEN NULL ELSE q[j - 1]
  BY NullAssumption DEF Spells, Distinct
<1>2. /\ r \in Seq(Item) /\ Len(r) = n
      /\ r[1] = x /\ (\A j \in 2..i : r[j] = q[j - 1]) /\ (\A j \in (i + 1)..n : r[j] = q[j])
  <2>1. r = [j \in 1..n |-> IF j = 1 THEN q[i] ELSE IF j <= i THEN q[j - 1] ELSE q[j]]
    BY DEF Impl!ToFront
  <2>2. \A j \in 1..n : r[j] \in Item
    BY <1>1, <2>1
  <2>3. r \in Seq(Item) /\ Len(r) = n
    BY <1>1, <2>1, <2>2
  <2>4. 1 \in 1..n /\ i \in Int
    BY <1>1
  <2>5. r[1] = x
    BY <2>1, <2>4
  <2>6. ASSUME NEW j \in 2..i PROVE r[j] = q[j - 1]
    <3>1. j \in 1..n /\ j # 1 /\ j <= i
      BY <1>1
    <3> QED
      BY <2>1, <3>1
  <2>7. ASSUME NEW j \in (i + 1)..n PROVE r[j] = q[j]
    <3>1. j \in 1..n /\ j # 1 /\ ~(j <= i)
      BY <1>1
    <3> QED
      BY <2>1, <3>1
  <2> QED
    BY <2>3, <2>5, <2>6, <2>7
<1>3. /\ l.prev[x] = q[i - 1] /\ l.next[x] = (IF i = n THEN NULL ELSE q[i + 1])
      /\ (x = l.rear) <=> (i = n)
  <2>1. i \in 1..n /\ n \in 1..n /\ i # 1
    BY <1>1
  <2> QED
    BY <1>1, <2>1
<1>4. /\ m.front = x /\ m.rear = (IF i = n THEN q[i - 1] ELSE q[n]) /\ m.count = n
      /\ m.next = [[l.next EXCEPT ![q[i - 1]] = IF i = n THEN NULL ELSE q[i + 1]] EXCEPT ![x] = q[1]]
      /\ m.prev = [(IF i = n THEN l.prev ELSE [l.prev EXCEPT ![q[i + 1]] = q[i - 1]])
                     EXCEPT ![x] = NULL, ![q[1]] = x]
  <2>1. q[i - 1] \in Item /\ (i # n => q[i + 1] \in Item /\ q[i + 1] # NULL)
    BY <1>1
  <2> QED
    BY <1>1, <1>3, <2>1 DEF BringToFront
<1> HIDE DEF m, r, x
<1>5. x = q[i] /\ x \in Item /\ q[1] \in Item /\ q[i - 1] \in Item /\ (i # n => q[i + 1] \in Item)
  BY <1>1 DEF x
<1>6. /\ m.next \in [Item -> Item \cup {NULL}] /\ m.prev \in [Item -> Item \cup {NULL}]
      /\ \A y \in Item : m.next[y] = IF y = x THEN q[1]
                                     ELSE IF y = q[i - 1] THEN (IF i = n THEN NULL ELSE q[i + 1])
                                     ELSE l.next[y]
      /\ \A y \in Item : m.prev[y] = IF y = q[1] THEN x ELSE IF y = x THEN NULL
                                     ELSE IF i # n /\ y = q[i + 1] THEN q[i - 1]
                                     ELSE l.prev[y]
  <2>1. [l.next EXCEPT ![q[i - 1]] = IF i = n THEN NULL ELSE q[i + 1]] \in [Item -> Item \cup {NULL}]
    BY <1>1, <1>5
  <2>2. (IF i = n THEN l.prev ELSE [l.prev EXCEPT ![q[i + 1]] = q[i - 1]]) \in [Item -> Item \cup {NULL}]
    BY <1>1, <1>5
  <2>3. m.next \in [Item -> Item \cup {NULL}] /\ m.prev \in [Item -> Item \cup {NULL}]
    BY <1>4, <1>5, <2>1, <2>2
  <2>4. ASSUME NEW y \in Item
        PROVE  m.next[y] = IF y = x THEN q[1]
                           ELSE IF y = q[i - 1] THEN (IF i = n THEN NULL ELSE q[i + 1])
                           ELSE l.next[y]
    BY <1>1, <1>4, <1>5, <2>1
  <2>5. ASSUME NEW y \in Item
        PROVE  m.prev[y] = IF y = q[1] THEN x ELSE IF y = x THEN NULL
                           ELSE IF i # n /\ y = q[i + 1] THEN q[i - 1]
                           ELSE l.prev[y]
    BY <1>1, <1>4, <1>5, <2>2
  <2> QED
    BY <2>3, <2>4, <2>5
<1>7. Distinct(r)
  <2> SUFFICES ASSUME NEW j \in 1..n, NEW k \in 1..n, r[j] = r[k] PROVE j = k
    BY <1>2 DEF Distinct
  <2>1. ASSUME NEW h \in 1..n
        PROVE  \E a \in 1..n :
                 r[h] = q[a] /\ a = IF h = 1 THEN i ELSE IF h <= i THEN h - 1 ELSE h
    <3> DEFINE a == IF h = 1 THEN i ELSE IF h <= i THEN h - 1 ELSE h
    <3>1. a \in 1..n
      BY <1>1
    <3>2. r[h] = q[a]
      BY <1>2, <1>5
    <3> QED
      BY <3>1, <3>2
  <2>2. PICK a \in 1..n : r[j] = q[a] /\ a = IF j = 1 THEN i ELSE IF j <= i THEN j - 1 ELSE j
    BY <2>1
  <2>3. PICK b \in 1..n : r[k] = q[b] /\ b = IF k = 1 THEN i ELSE IF k <= i THEN k - 1 ELSE k
    BY <2>1
  <2>4. a = b
    <3>1. q[a] = q[b]
      BY <2>2, <2>3
    <3>2. \A g, h \in 1..n : q[g] = q[h] => g = h
      BY <1>1
    <3> QED
      BY <3>1, <3>2
  <2>5. j \in Int /\ k \in Int /\ i \in Int /\ j >= 1 /\ k >= 1 /\ i >= 2
    BY <1>1
  <2>6. CASE j = 1
    <3>1. a = i
      BY <2>2, <2>6
    <3> QED
      BY <2>3, <2>4, <2>5, <2>6, <3>1
  <2>7. CASE j # 1 /\ j <= i
    <3>1. a = j - 1
      BY <2>2, <2>7
    <3> QED
      BY <2>3, <2>4, <2>5, <2>7, <3>1
  <2>8. CASE ~(j <= i)
    <3>1. a = j
      BY <2>2, <2>5, <2>8
    <3> QED
      BY <2>3, <2>4, <2>5, <2>8, <3>1
  <2> QED
    BY <2>6, <2>7, <2>8
<1>8. ASSUME NEW j \in 1..n PROVE m.next[r[j]] = IF j = n THEN NULL ELSE r[j + 1]
  <2>1. CASE j = 1
    BY <1>1, <1>2, <1>5, <1>6, <2>1
  <2>2. CASE j \in 2..(i - 1)
    <3>1. r[j] = q[j - 1] /\ r[j + 1] = q[j] /\ j # n /\ j - 1 \in 1..n /\ j - 1 # i /\ j - 1 # i - 1 /\ j - 1 # n
      BY <1>1, <1>2, <2>2
    <3>2. q[j - 1] # x /\ q[j - 1] # q[i - 1] /\ q[j - 1] \in Item
      BY <1>1, <1>5, <3>1
    <3>3. l.next[q[j - 1]] = q[j - 1 + 1]
      BY <1>1, <3>1
    <3> QED
      BY <1>1, <1>6, <3>1, <3>2, <3>3
  <2>3. CASE j = i
    <3>1. r[j] = q[i - 1] /\ (i # n => r[j + 1] = q[i + 1]) /\ q[i - 1] # x
      BY <1>1, <1>2, <1>5, <2>3, SMTT(60)
    <3> QED
      BY <1>5, <1>6, <2>3, <3>1
  <2>4. CASE j \in (i + 1)..n
    <3>1. /\ j \in Int /\ i \in 1..n /\ i - 1 \in 1..n /\ j # i /\ j # i - 1
          /\ j # n => j + 1 \in (i + 1)..n
      BY <1>1, <2>4
    <3>2. r[j] = q[j] /\ (j # n => r[j + 1] = q[j + 1])
      BY <1>2, <2>4, <3>1
    <3>3. q[j] # x /\ q[j] # q[i - 1] /\ q[j] \in Item
      BY <1>1, <1>5, <3>1
    <3> HIDE DEF n
    <3>4. m.next[q[j]] = l.next[q[j]]
      BY <1>6, <3>3
    <3>5. l.next[q[j]] = IF j = n THEN NULL ELSE q[j + 1]
      BY <1>1
    <3> QED
      BY <3>2, <3>4, <3>5
  <2> QED
    BY <1>1, <2>1, <2>2, <2>3, <2>4
<1>9. ASSUME NEW j \in 1..n PROVE m.prev[r[j]] = IF j = 1 THEN NULL ELSE r[j - 1]
  <2>1. CASE j = 1
    <3>1. x # q[1]
      BY <1>1, <1>5
    <3> QED
      BY <1>2, <1>5, <1>6, <2>1, <3>1
  <2>2. CASE j = 2
    BY <1>1, <1>2, <1>5, <1>6, <2>2
  <2>3. CASE j \in 3..i
    <3>0. /\ j - 1 \in 1..n /\ j - 1 # 1 /\ j - 1 # i /\ j - 1 # i + 1
          /\ j \in 2..i /\ j - 1 \in 2..i /\ j - 1 - 1 = j - 2
      BY <1>1, <2>3
    <3>1. r[j] = q[j - 1] /\ r[j - 1] = q[j - 2] /\ j - 1 \in 1..n /\ j - 1 # 1 /\ j - 1 # i /\ j - 1 # i + 1
      BY <1>2, <3>0
    <3>2. q[j - 1] # q[1] /\ q[j - 1] # x /\ (i # n => q[j - 1] # q[i + 1]) /\ q[j - 1] \in Item
      BY <1>1, <1>5, <3>1, SMTT(60)
    <3>3. l.prev[q[j - 1]] = q[j - 1 - 1] /\ j - 1 - 1 = j - 2
      BY <1>1, <3>1
    <3> QED
      BY <1>6, <2>3, <3>1, <3>2, <3>3
  <2>4. CASE j = i + 1
    <3>1. i # n /\ r[j] = q[i + 1] /\ r[j - 1] = q[i - 1] /\ q[i + 1] # q[1] /\ q[i + 1] # x
      BY <1>1, <1>2, <1>5, <2>4, SMTT(60)
    <3> QED
      BY <1>1, <1>5, <1>6, <2>4, <3>1
  <2>5. CASE j \in (i + 2)..n
    <3>0. /\ j \in (i + 1)..n /\ j - 1 \in (i + 1)..n /\ j # 1 /\ j # i /\ j # i + 1
          /\ 1 \in 1..n /\ i \in 1..n /\ i + 1 \in 1..n
      BY <1>1, <2>5
    <3>1. r[j] = q[j] /\ r[j - 1] = q[j - 1] /\ q[j] # q[1] /\ q[j] # x /\ q[j] # q[i + 1] /\ q[j] \in Item
      BY <1>1, <1>2, <1>5, <3>0
    <3> QED
      BY <1>1, <1>6, <2>5, <3>1
  <2> QED
    BY <1>1, <2>1, <2>2, <2>3, <2>4, <2>5
<1>10. m.rear = r[n]
  BY <1>1, <1>2, <1>4, <1>5
<1>11. ASSUME NEW y \in Item, \A j \in 1..n : r[j] # y PROVE m.prev[y] = NULL
  <2>1. ASSUME NEW j \in 1..n PROVE q[j] # y
    <3>1. \E k \in 1..n : r[k] = q[j]
      <4>1. CASE j = i
        BY <1>1, <1>2, <1>5, <4>1
      <4>2. CASE j < i
        <5>1. j + 1 \in 2..i /\ r[j + 1] = q[j + 1 - 1] /\ j + 1 - 1 = j
          BY <1>1, <1>2, <4>2
        <5> QED
          BY <1>1, <5>1
      <4>3. CASE j > i
        BY <1>1, <1>2, <4>3
      <4> QED
        BY <1>1, <4>1, <4>2, <4>3
    <3> QED
      BY <1>11, <3>1
  <2>2. l.prev[y] = NULL
    BY <2>1 DEF Spells
  <2>3. y # q[1] /\ y # x /\ (i # n => y # q[i + 1])
    BY <1>1, <1>5, <2>1
  <2> QED
    BY <1>6, <2>2, <2>3
<1>12. Len(r) # 0 /\ m.front = r[1]
  BY <1>1, <1>2, <1>4
<1>13. Spells(m, r)
  <2>1. \A j \in 1..Len(r) : m.next[r[j]] = IF j = Len(r) THEN NULL ELSE r[j + 1]
    BY <1>2, <1>8
  <2>2. \A j \in 1..Len(r) : m.prev[r[j]] = IF j = 1 THEN NULL ELSE r[j - 1]
    BY <1>2, <1>9
  <2>3. \A y \in Item : (\A j \in 1..Len(r) : r[j] # y) => m.prev[y] = NULL
    BY <1>2, <1>11
  <2>4. m.count = Len(r) /\ m.rear = r[Len(r)]
    BY <1>2, <1>4, <1>10
  <2> QED
    BY <1>2, <1>6, <1>7, <1>12, <2>1, <2>2, <2>3, <2>4 DEF Spells
<1> QED
  BY <1>13 DEF m, r, x

\* What enqueuing and dequeuing make of a sequence.
LEMMA Longer ==
  ASSUME NEW q \in Seq(Item), NEW x \in Item
  PROVE  /\ Impl!Enqueue(q, x) \in Seq(Item) /\ Len(Impl!Enqueue(q, x)) = Len(q) + 1
         /\ Impl!Enqueue(q, x)[1] = x
         /\ \A j \in 2..(Len(q) + 1) : Impl!Enqueue(q, x)[j] = q[j - 1]
<1> DEFINE n == Len(q)
           r == Impl!Enqueue(q, x)
<1>1. n \in Nat
  OBVIOUS
<1>2. r = <<x>> \o q /\ <<x>> \in Seq(Item) /\ Len(<<x>>) = 1 /\ <<x>>[1] = x
  BY DEF Impl!Enqueue
<1>3. /\ r \in Seq(Item) /\ Len(r) = 1 + n
      /\ \A j \in 1..(1 + n) : r[j] = IF j <= 1 THEN <<x>>[j] ELSE q[j - 1]
  BY <1>1, <1>2, ConcatProperties
<1>4. 1 \in 1..(1 + n) /\ 1 + n = n + 1
  BY <1>1
<1>5. ASSUME NEW j \in 2..(n + 1) PROVE r[j] = q[j - 1]
  <2>1. j \in 1..(1 + n) /\ ~(j <= 1)
    BY <1>1
  <2> QED
    BY <1>3, <2>1
<1> QED
  BY <1>2, <1>3, <1>4, <1>5

LEMMA Shorter ==
  ASSUME NEW q \in Seq(Item), Len(q) # 0
  PROVE  /\ Impl!Dequeue(q) \in Seq(Item) /\ Len(Impl!Dequeue(q)) = Len(q) - 1
         /\ \A j \in 1..(Len(q) - 1) : Impl!Dequeue(q)[j] = q[j]
         /\ Len(q) \in 1..Len(q) /\ Len(q) - 1 \in Nat
<1>1. /\ Len(q) \in Nat /\ Len(q) - 1 \in Nat /\ Len(q) \in 1..Len(q)
      /\ \A j \in 1..(Len(q) - 1) : q[j] \in Item
  OBVIOUS
<1>2. Impl!Dequeue(q) = SubSeq(q, 1, Len(q) - 1)
  BY DEF Impl!Dequeue
<1>3. /\ SubSeq(q, 1, Len(q) - 1) \in Seq(Item)
      /\ Len(SubSeq(q, 1, Len(q) - 1)) = IF 1 <= Len(q) - 1 THEN Len(q) - 1 - 1 + 1 ELSE 0
      /\ \A j \in 1..(Len(q) - 1 - 1 + 1) : SubSeq(q, 1, Len(q) - 1)[j] = q[1 + j - 1]
  BY <1>1, SubSeqProperties
<1>4. /\ Len(q) - 1 - 1 + 1 = Len(q) - 1 /\ (~(1 <= Len(q) - 1) => Len(q) - 1 = 0)
      /\ \A j \in 1..(Len(q) - 1) : 1 + j - 1 = j
  <2> SUFFICES ASSUME NEW a \in Nat, a # 0
               PROVE  /\ a - 1 - 1 + 1 = a - 1 /\ (~(1 <= a - 1) => a - 1 = 0)
                      /\ \A j \in 1..(a - 1) : 1 + j - 1 = j
    BY <1>1
  <2> QED
    OBVIOUS
<1> QED
  BY <1>1, <1>2, <1>3, <1>4

\* A fresh item is linked before the front.
LEMMA EnqueueSpells ==
  ASSUME NEW l, NEW q, Spells(l, q), NEW x \in Item, \A i \in 1..Len(q) : q[i] # x
  PROVE  Spells(Enqueue(l, x), Impl!Enqueue(q, x))
<1> DEFINE n == Len(q)
           m == Enqueue(l, x)
           r == Impl!Enqueue(q, x)
<1>1. /\ n \in Nat /\ q \in Seq(Item) /\ NULL \notin Item
      /\ \A j \in 1..n : q[j] \in Item /\ q[j] # x
      /\ \A j, k \in 1..n : q[j] = q[k] => j = k
      /\ l.prev \in [Item -> Item \cup {NULL}] /\ l.next \in [Item -> Item \cup {NULL}]
      /\ l.count = n /\ l.prev[x] = NULL
      /\ \A j \in 1..n : l.next[q[j]] = IF j = n THEN NULL ELSE q[j + 1]
      /\ \A j \in 1..n : l.prev[q[j]] = IF j = 1 THEN NULL ELSE q[j - 1]
  BY NullAssumption DEF Spells, Distinct
<1>2. /\ l.front = (IF n = 0 THEN NULL ELSE q[1]) /\ l.rear = (IF n = 0 THEN NULL ELSE q[n])
      /\ (l.rear = NULL) <=> (n = 0)
  <2>1. l.front = (IF n = 0 THEN NULL ELSE q[1]) /\ l.rear = (IF n = 0 THEN NULL ELSE q[n])
    BY DEF Spells
  <2>2. n # 0 => n \in 1..n
    BY <1>1
  <2> QED
    BY <1>1, <2>1, <2>2
<1>3. /\ r \in Seq(Item) /\ Len(r) = n + 1 /\ r[1] = x
      /\ \A j \in 2..(n + 1) : r[j] = q[j - 1]
  BY <1>1, Longer
<1>4. /\ m.front = x /\ m.rear = (IF n = 0 THEN x ELSE q[n]) /\ m.count = n + 1
      /\ m.prev = (IF n = 0 THEN l.prev ELSE [l.prev EXCEPT ![q[1]] = x])
      /\ m.next = [l.next EXCEPT ![x] = IF n = 0 THEN NULL ELSE q[1]]
  BY <1>1, <1>2 DEF Enqueue
<1> HIDE DEF m, r
<1>5. n # 0 => q[1] \in Item /\ q[1] # x
  <2>1. n # 0 => 1 \in 1..n
    BY <1>1
  <2> QED
    BY <1>1, <2>1
<1>6. /\ m.next \in [Item -> Item \cup {NULL}] /\ m.prev \in [Item -> Item \cup {NULL}]
      /\ \A y \in Item : m.next[y] = IF y = x THEN (IF n = 0 THEN NULL ELSE q[1]) ELSE l.next[y]
      /\ \A y \in Item : m.prev[y] = IF n # 0 /\ y = q[1] THEN x ELSE l.prev[y]
  <2>1. (IF n = 0 THEN NULL ELSE q[1]) \in Item \cup {NULL}
    BY <1>5
  <2>2. CASE n = 0
    BY <1>1, <1>4, <2>1, <2>2
  <2>3. CASE n # 0
    BY <1>1, <1>4, <1>5, <2>1, <2>3
  <2> QED
    BY <2>2, <2>3
<1>7. Distinct(r)
  <2> SUFFICES ASSUME NEW j \in 1..(n + 1), NEW k \in 1..(n + 1), r[j] = r[k] PROVE j = k
    BY <1>3 DEF Distinct
  <2>1. \A h \in 1..(n + 1) : h = 1 \/ (h \in 2..(n + 1) /\ h - 1 \in 1..n)
    BY <1>1
  <2>2. CASE j = 1
    BY <1>1, <1>3, <2>1, <2>2
  <2>3. CASE k = 1
    BY <1>1, <1>3, <2>1, <2>3
  <2>4. CASE j # 1 /\ k # 1
    <3>1. j - 1 \in 1..n /\ k - 1 \in 1..n /\ q[j - 1] = q[k - 1]
      BY <1>3, <2>1, <2>4
    <3>2. j - 1 = k - 1
      BY <1>1, <3>1
    <3>3. j \in Int /\ k \in Int
      BY <1>1
    <3> QED
      BY <3>2, <3>3
  <2> QED
    BY <2>2, <2>3, <2>4
<1>8. ASSUME NEW j \in 1..(n + 1) PROVE m.next[r[j]] = IF j = n + 1 THEN NULL ELSE r[j + 1]
  <2>1. CASE j = 1
    <3>1. n # 0 => 2 \in 2..(n + 1) /\ r[2] = q[2 - 1] /\ 2 - 1 = 1
      BY <1>1, <1>3
    <3>2. n = 0 <=> j = n + 1
      BY <1>1, <2>1
    <3>3. m.next[r[j]] = IF n = 0 THEN NULL ELSE q[1]
      BY <1>3, <1>6, <2>1
    <3> QED
      BY <2>1, <3>1, <3>2, <3>3
  <2>2. CASE j # 1
    <3>1. /\ j \in 2..(n + 1) /\ j - 1 \in 1..n /\ j - 1 + 1 = j /\ (j - 1 = n <=> j = n + 1)
          /\ j # n + 1 => j + 1 \in 2..(n + 1) /\ j + 1 - 1 = j
      BY <1>1, <2>2
    <3>2. r[j] = q[j - 1] /\ (j # n + 1 => r[j + 1] = q[j])
      BY <1>3, <3>1
    <3>3. q[j - 1] \in Item /\ q[j - 1] # x
      BY <1>1, <3>1
    <3>4. l.next[q[j - 1]] = IF j - 1 = n THEN NULL ELSE q[j]
      BY <1>1, <3>1
    <3> QED
      BY <1>6, <3>1, <3>2, <3>3, <3>4
  <2> QED
    BY <2>1, <2>2
<1>9. ASSUME NEW j \in 1..(n + 1) PROVE m.prev[r[j]] = IF j = 1 THEN NULL ELSE r[j - 1]
  <2>1. CASE j = 1
    BY <1>1, <1>3, <1>5, <1>6, <2>1
  <2>2. CASE j = 2
    <3>1. 2 \in 2..(n + 1) /\ 2 - 1 = 1 /\ n # 0
      BY <1>1, <2>2
    <3>2. r[2] = q[1]
      BY <1>3, <3>1
    <3> QED
      BY <1>3, <1>5, <1>6, <2>2, <3>1, <3>2
  <2>3. CASE j # 1 /\ j # 2
    <3>1. /\ j \in 2..(n + 1) /\ j - 1 \in 2..(n + 1) /\ j - 1 \in 1..n /\ j - 1 # 1 /\ 1 \in 1..n
      BY <1>1, <2>3
    <3>2. r[j] = q[j - 1] /\ r[j - 1] = q[j - 1 - 1]
      BY <1>3, <3>1
    <3>3. q[j - 1] # q[1] /\ q[j - 1] \in Item
      BY <1>1, <3>1
    <3>4. l.prev[q[j - 1]] = q[j - 1 - 1]
      BY <1>1, <3>1
    <3> QED
      BY <1>6, <2>3, <3>2, <3>3, <3>4
  <2> QED
    BY <2>1, <2>2, <2>3
<1>10. m.rear = r[n + 1]
  <2>1. CASE n = 0
    BY <1>3, <1>4, <2>1
  <2>2. CASE n # 0
    <3>1. n + 1 \in 2..(n + 1) /\ n + 1 - 1 = n
      BY <1>1, <2>2
    <3> QED
      BY <1>3, <1>4, <2>2, <3>1
  <2> QED
    BY <2>1, <2>2
<1>11. ASSUME NEW y \in Item, \A j \in 1..(n + 1) : r[j] # y PROVE m.prev[y] = NULL
  <2>1. ASSUME NEW j \in 1..n PROVE q[j] # y
    <3>1. j + 1 \in 1..(n + 1) /\ j + 1 \in 2..(n + 1) /\ j + 1 - 1 = j
      BY <1>1
    <3>2. r[j + 1] = q[j]
      BY <1>3, <3>1
    <3> QED
      BY <1>11, <3>1, <3>2
  <2>2. l.prev[y] = NULL
    BY <2>1 DEF Spells
  <2>3. n # 0 => 1 \in 1..n
    BY <1>1
  <2>4. n # 0 => y # q[1]
    BY <2>1, <2>3
  <2> QED
    BY <1>6, <2>2, <2>4
<1>12. n + 1 # 0
  BY <1>1
<1>13. Spells(m, r)
  <2>1. \A j \in 1..Len(r) : m.next[r[j]] = IF j = Len(r) THEN NULL ELSE r[j + 1]
    BY <1>3, <1>8
  <2>2. \A j \in 1..Len(r) : m.prev[r[j]] = IF j = 1 THEN NULL ELSE r[j - 1]
    BY <1>3, <1>9
  <2>3. \A y \in Item : (\A j \in 1..Len(r) : r[j] # y) => m.prev[y] = NULL
    BY <1>3, <1>11
  <2>4. m.count = Len(r) /\ m.rear = r[Len(r)] /\ m.front = r[1] /\ Len(r) # 0
    BY <1>3, <1>4, <1>10, <1>12
  <2> QED
    BY <1>3, <1>6, <1>7, <2>1, <2>2, <2>3, <2>4 DEF Spells
<1> QED
  BY <1>13 DEF m, r

\* The rear item is unlinked.
LEMMA DequeueSpells ==
  ASSUME NEW l, NEW q, Spells(l, q), Len(q) # 0
  PROVE  Spells(Dequeue(l), Impl!Dequeue(q))
<1> DEFINE n == Len(q)
           m == Dequeue(l)
           r == Impl!Dequeue(q)
           before == IF n = 1 THEN NULL ELSE q[n - 1]
<1>1. /\ n \in Nat /\ n # 0 /\ q \in Seq(Item) /\ NULL \notin Item
      /\ \A j \in 1..n : q[j] \in Item
      /\ \A j, k \in 1..n : q[j] = q[k] => j = k
      /\ l.prev \in [Item -> Item \cup {NULL}] /\ l.next \in [Item -> Item \cup {NULL}]
      /\ l.count = n /\ l.front = q[1] /\ l.rear = q[n]
      /\ \A j \in 1..n : l.next[q[j]] = IF j = n THEN NULL ELSE q[j + 1]
      /\ \A j \in 1..n : l.prev[q[j]] = IF j = 1 THEN NULL ELSE q[j - 1]
  BY NullAssumption DEF Spells, Distinct
<1>2. n \in 1..n /\ 1 \in 1..n /\ (n # 1 => n - 1 \in 1..n) /\ n - 1 \in Nat
  <2> SUFFICES ASSUME NEW a \in Nat, a # 0
               PROVE  a \in 1..a /\ 1 \in 1..a /\ (a # 1 => a - 1 \in 1..a) /\ a - 1 \in Nat
    BY <1>1
  <2> QED
    OBVIOUS
<1>3. r \in Seq(Item) /\ Len(r) = n - 1 /\ \A j \in 1..(n - 1) : r[j] = q[j]
  BY <1>1, Shorter
<1>4. /\ l.prev[q[n]] = before
      /\ (q[1] = q[n]) <=> (n = 1)
  BY <1>1, <1>2
<1>5. /\ m.front = (IF n = 1 THEN NULL ELSE q[1]) /\ m.rear = before /\ m.count = n - 1
      /\ m.prev = [l.prev EXCEPT ![q[n]] = NULL]
      /\ m.next = [x \in Item |-> IF x = before \/ x = q[n] THEN NULL ELSE l.next[x]]
  BY <1>1, <1>4 DEF Dequeue
<1> HIDE DEF m, r, before
<1>6. /\ m.next \in [Item -> Item \cup {NULL}] /\ m.prev \in [Item -> Item \cup {NULL}]
      /\ \A y \in Item : m.next[y] = IF y = before \/ y = q[n] THEN NULL ELSE l.next[y]
      /\ \A y \in Item : m.prev[y] = IF y = q[n] THEN NULL ELSE l.prev[y]
  BY <1>1, <1>2, <1>5
<1>7. Distinct(r)
  BY <1>1, <1>3 DEF Distinct
<1>8. ASSUME NEW j \in 1..(n - 1) PROVE m.next[r[j]] = IF j = n - 1 THEN NULL ELSE r[j + 1]
  <2>1. /\ j \in 1..n /\ j # n /\ n # 1 /\ n - 1 \in 1..n
        /\ j # n - 1 => j + 1 \in 1..(n - 1)
    BY <1>1
  <2>2. r[j] = q[j] /\ q[j] \in Item /\ q[j] # q[n] /\ before = q[n - 1]
    BY <1>1, <1>2, <1>3, <2>1 DEF before
  <2>3. (q[j] = before) <=> (j = n - 1)
    BY <1>1, <2>1, <2>2
  <2>4. l.next[q[j]] = q[j + 1]
    BY <1>1, <2>1
  <2>5. j # n - 1 => r[j + 1] = q[j + 1]
    BY <1>3, <2>1
  <2> QED
    BY <1>6, <2>2, <2>3, <2>4, <2>5
<1>9. ASSUME NEW j \in 1..(n - 1) PROVE m.prev[r[j]] = IF j = 1 THEN NULL ELSE r[j - 1]
  <2>1. j \in 1..n /\ j # n /\ (j # 1 => j - 1 \in 1..(n - 1))
    BY <1>1
  <2>2. r[j] = q[j] /\ q[j] \in Item /\ q[j] # q[n] /\ (j # 1 => r[j - 1] = q[j - 1])
    BY <1>1, <1>2, <1>3, <2>1
  <2>3. l.prev[q[j]] = IF j = 1 THEN NULL ELSE q[j - 1]
    BY <1>1, <2>1
  <2> QED
    BY <1>6, <2>2, <2>3
<1>10. /\ m.rear = IF n - 1 = 0 THEN NULL ELSE r[n - 1]
       /\ m.front = IF n - 1 = 0 THEN NULL ELSE r[1]
  <2>1. (n - 1 = 0 <=> n = 1) /\ (n # 1 => n - 1 \in 1..(n - 1) /\ 1 \in 1..(n - 1))
    BY <1>2
  <2> QED
    BY <1>3, <1>5, <2>1 DEF before
<1>11. ASSUME NEW y \in Item, \A j \in 1..(n - 1) : r[j] # y PROVE m.prev[y] = NULL
  <2>1. CASE y = q[n]
    BY <1>6, <2>1
  <2>2. CASE y # q[n]
    <3>1. ASSUME NEW j \in 1..n PROVE q[j] # y
      <4>1. j = n \/ j \in 1..(n - 1)
        BY <1>1
      <4> QED
        BY <1>3, <1>11, <2>2, <4>1
    <3>2. l.prev[y] = NULL
      BY <3>1 DEF Spells
    <3> QED
      BY <1>6, <2>2, <3>2
  <2> QED
    BY <2>1, <2>2
<1>12. Spells(m, r)
  <2>1. \A j \in 1..Len(r) : m.next[r[j]] = IF j = Len(r) THEN NULL ELSE r[j + 1]
    BY <1>3, <1>8
  <2>2. \A j \in 1..Len(r) : m.prev[r[j]] = IF j = 1 THEN NULL ELSE r[j - 1]
    BY <1>3, <1>9
  <2>3. \A y \in Item : (\A j \in 1..Len(r) : r[j] # y) => m.prev[y] = NULL
    BY <1>3, <1>11
  <2>4. /\ m.count = Len(r)
        /\ m.rear = (IF Len(r) = 0 THEN NULL ELSE r[Len(r)])
        /\ m.front = (IF Len(r) = 0 THEN NULL ELSE r[1])
    BY <1>3, <1>5, <1>10
  <2> QED
    BY <1>3, <1>6, <1>7, <2>1, <2>2, <2>3, <2>4 DEF Spells
<1> QED
  BY <1>12 DEF m, r

-------------------------------------------------------------------------------
(* The order of use. *)

Items(q) == {q[i] : i \in 1..Len(q)}

\* The items before y in q.
Before(q, y) == {q[i] : i \in {j \in 1..Len(q) : \E n \in (j + 1)..Len(q) : q[n] = y}}

LEMMA BeforeIs ==
  ASSUME NEW q \in Seq(Item), NEW y
  PROVE  \A z : z \in Before(q, y) <=> \E j, n \in 1..Len(q) : j < n /\ q[j] = z /\ q[n] = y
<1>1. Len(q) \in Nat
  OBVIOUS
<1>2. ASSUME NEW z, z \in Before(q, y)
      PROVE  \E j, n \in 1..Len(q) : j < n /\ q[j] = z /\ q[n] = y
  <2>1. PICK j \in 1..Len(q) : q[j] = z /\ \E n \in (j + 1)..Len(q) : q[n] = y
    BY <1>2 DEF Before
  <2>2. PICK n \in (j + 1)..Len(q) : q[n] = y
    BY <2>1
  <2>3. n \in 1..Len(q) /\ j < n
    BY <1>1
  <2> QED
    BY <2>1, <2>2, <2>3
<1>3. ASSUME NEW z, NEW j \in 1..Len(q), NEW n \in 1..Len(q), j < n, q[j] = z, q[n] = y
      PROVE  z \in Before(q, y)
  <2>1. n \in (j + 1)..Len(q)
    BY <1>1, <1>3
  <2> QED
    BY <1>3, <2>1 DEF Before
<1> QED
  BY <1>2, <1>3

\* An item brought to the front has been used since every other item of the queue was.
LEMMA TouchFront ==
  ASSUME NEW q \in Seq(Item), Distinct(q), NEW i \in 1..Len(q), NEW y \in Item
  PROVE  Before(Impl!ToFront(q, i), y) =
           IF y = q[i] \/ y \notin Items(q) THEN {} ELSE (Before(q, y) \cup {q[i]}) \cap Items(q)
<1> DEFINE n == Len(q)
           r == Impl!ToFront(q, i)
<1>1. n \in Nat /\ i \in 1..n /\ (\A j, k \in 1..n : q[j] = q[k] => j = k) /\ \A j \in 1..n : q[j] \in Item
  BY DEF Distinct
<1>2. r = [j \in 1..n |-> IF j = 1 THEN q[i] ELSE IF j <= i THEN q[j - 1] ELSE q[j]]
  BY DEF Impl!ToFront
<1>3. r \in Seq(Item) /\ Len(r) = n
  <2>1. \A j \in 1..n : r[j] \in Item
    BY <1>1, <1>2
  <2> QED
    BY <1>1, <1>2, <2>1
<1>4. ASSUME NEW j \in 1..n
      PROVE  r[j] = IF j = 1 THEN q[i] ELSE IF j <= i THEN q[j - 1] ELSE q[j]
  BY <1>2
<1> HIDE DEF r
<1>5. ASSUME NEW z PROVE z \in Before(r, y) <=> \E j, k \in 1..n : j < k /\ r[j] = z /\ r[k] = y
  BY <1>3, BeforeIs
<1>6. ASSUME NEW z PROVE z \in Before(q, y) <=> \E j, k \in 1..n : j < k /\ q[j] = z /\ q[k] = y
  BY BeforeIs
<1>7. \A j \in 1..n : \E h \in 1..n : r[j] = q[h]
  BY <1>1, <1>4
<1>8. CASE y \notin Items(q)
  <2>1. ASSUME NEW z, z \in Before(r, y) PROVE FALSE
    <3>1. PICK k \in 1..n : r[k] = y
      BY <1>5, <2>1
    <3> QED
      BY <1>7, <1>8, <3>1 DEF Items
  <2> QED
    BY <1>8, <2>1 DEF r
<1>9. CASE y = q[i]
  <2>1. ASSUME NEW z, z \in Before(r, y) PROVE FALSE
    <3>1. PICK j \in 1..n, k \in 1..n : j < k /\ r[k] = q[i]
      BY <1>5, <1>9, <2>1
    <3>2. k # 1
      BY <1>1, <3>1
    <3>3. CASE k <= i
      <4>1. k - 1 \in 1..n /\ k - 1 # i
        BY <1>1, <3>2, <3>3
      <4>2. r[k] = q[k - 1]
        BY <1>4, <3>2, <3>3
      <4> QED
        BY <1>1, <3>1, <4>1, <4>2
    <3>4. CASE ~(k <= i)
      <4>1. r[k] = q[k] /\ k # i
        BY <1>1, <1>4, <3>2, <3>4
      <4> QED
        BY <1>1, <3>1, <4>1
    <3> QED
      BY <3>3, <3>4
  <2> QED
    BY <1>9, <2>1 DEF r
<1>10. CASE y # q[i] /\ y \in Items(q)
  <2>1. PICK b \in 1..n : y = q[b] /\ b # i
    BY <1>10 DEF Items
  <2> DEFINE c == IF b < i THEN b + 1 ELSE b
  <2>2. c \in 2..n /\ c \in 1..n /\ c # 1 /\ b \in Int /\ i \in Int
    BY <1>1, <2>1
  <2>3. r[c] = y
    <3>1. b < i => c <= i /\ c - 1 = b
      BY <2>2
    <3>2. ~(b < i) => ~(c <= i) /\ c = b
      BY <2>1, <2>2
    <3> QED
      BY <1>4, <2>1, <2>2, <3>1, <3>2
  <2>4. ASSUME NEW k \in 1..n, r[k] = y PROVE k = c
    <3>1. k # 1
      BY <1>4, <1>10, <2>4
    <3>2. CASE k <= i
      <4>1. k - 1 \in 1..n /\ r[k] = q[k - 1]
        BY <1>1, <1>4, <3>1, <3>2
      <4>2. k - 1 = b
        BY <1>1, <2>1, <2>4, <4>1
      <4> QED
        BY <2>2, <3>2, <4>2
    <3>3. CASE ~(k <= i)
      <4>1. k = b
        BY <1>1, <1>4, <2>1, <2>4, <3>1, <3>3
      <4> QED
        BY <2>2, <3>3, <4>1
    <3> QED
      BY <3>2, <3>3
  <2>5. ASSUME NEW k \in 1..n, q[k] = y PROVE k = b
    BY <1>1, <2>1, <2>5
  <2> HIDE DEF c
  <2>6. ASSUME NEW z, z \in Before(r, y) PROVE z \in (Before(q, y) \cup {q[i]}) \cap Items(q)
    <3>1. PICK j \in 1..n, k \in 1..n : j < k /\ r[j] = z /\ r[k] = y
      BY <1>5, <2>6
    <3>2. k = c
      BY <2>4, <3>1
    <3>3. CASE j = 1
      BY <1>1, <1>4, <3>1, <3>3 DEF Items
    <3>4. CASE j # 1 /\ j <= i
      <4>1. j - 1 \in 1..n /\ z = q[j - 1]
        BY <1>1, <1>4, <3>1, <3>4
      <4>2. j - 1 < b
        BY <2>1, <2>2, <3>1, <3>2, <3>4 DEF c
      <4> QED
        BY <1>6, <2>1, <4>1, <4>2 DEF Items
    <3>5. CASE ~(j <= i)
      <4>1. z = q[j] /\ j # 1
        BY <1>1, <1>4, <3>1, <3>5
      <4>2. j < b
        BY <2>1, <2>2, <3>1, <3>2, <3>5 DEF c
      <4> QED
        BY <1>6, <2>1, <4>1, <4>2 DEF Items
    <3> QED
      BY <3>3, <3>4, <3>5
  <2>7. ASSUME NEW z, z \in Before(q, y) \cup {q[i]} PROVE z \in Before(r, y)
    <3>1. CASE z = q[i]
      <4>1. 1 \in 1..n /\ r[1] = z /\ 1 < c
        BY <1>1, <1>4, <2>2, <3>1
      <4> QED
        BY <1>5, <2>2, <2>3, <4>1
    <3>2. CASE z # q[i]
      <4>1. PICK j \in 1..n, k \in 1..n : j < k /\ q[j] = z /\ q[k] = y
        BY <1>6, <2>7, <3>2
      <4>2. k = b /\ j # i
        BY <2>5, <3>2, <4>1
      <4>3. CASE j < i
        <5>1. j + 1 \in 1..n /\ j + 1 # 1 /\ j + 1 <= i /\ j + 1 - 1 = j
          BY <1>1, <4>3
        <5>2. r[j + 1] = z
          BY <1>4, <4>1, <5>1
        <5>3. j + 1 < c
          BY <2>1, <2>2, <4>1, <4>2, <4>3 DEF c
        <5> QED
          BY <1>5, <2>2, <2>3, <5>1, <5>2, <5>3
      <4>4. CASE ~(j < i)
        <5>1. j # 1 /\ ~(j <= i)
          BY <1>1, <4>2, <4>4
        <5>2. r[j] = z
          BY <1>4, <4>1, <5>1
        <5>3. j < c
          BY <2>1, <2>2, <4>1, <4>2, <4>4 DEF c
        <5> QED
          BY <1>5, <2>2, <2>3, <5>2, <5>3
      <4> QED
        BY <4>3, <4>4
    <3> QED
      BY <3>1, <3>2
  <2>8. Before(r, y) = (Before(q, y) \cup {q[i]}) \cap Items(q)
    BY <2>6, <2>7
  <2> QED
    BY <1>10, <2>8 DEF r
<1> QED
  BY <1>8, <1>9, <1>10

\* A new item has been used since every other item was.
LEMMA TouchNew ==
  ASSUME NEW q \in Seq(Item), NEW x \in Item, x \notin Items(q), NEW y \in Item
  PROVE  Before(Impl!Enqueue(q, x), y) =
           IF y = x \/ y \notin Items(q) THEN {} ELSE Before(q, y) \cup {x}
<1> DEFINE n == Len(q)
           r == Impl!Enqueue(q, x)
<1>1. n \in Nat /\ \A j \in 1..n : q[j] \in Item /\ q[j] # x
  BY DEF Items
<1>2. r \in Seq(Item) /\ Len(r) = n + 1 /\ r[1] = x /\ \A j \in 2..(n + 1) : r[j] = q[j - 1]
  BY Longer
<1> HIDE DEF r
<1>3. ASSUME NEW z PROVE z \in Before(r, y) <=> \E j, k \in 1..(n + 1) : j < k /\ r[j] = z /\ r[k] = y
  BY <1>2, BeforeIs
<1>4. ASSUME NEW z PROVE z \in Before(q, y) <=> \E j, k \in 1..n : j < k /\ q[j] = z /\ q[k] = y
  BY BeforeIs
<1>5. ASSUME NEW z, z \in Before(r, y) PROVE y # x /\ y \in Items(q) /\ z \in Before(q, y) \cup {x}
  <2>1. PICK j \in 1..(n + 1), k \in 1..(n + 1) : j < k /\ r[j] = z /\ r[k] = y
    BY <1>3, <1>5
  <2>2. k \in 2..(n + 1) /\ k - 1 \in 1..n /\ (j = 1 \/ (j \in 2..(n + 1) /\ j - 1 \in 1..n /\ j - 1 < k - 1))
    BY <1>1, <2>1
  <2>3. y = q[k - 1]
    BY <1>2, <2>1, <2>2
  <2>4. CASE j = 1
    BY <1>1, <1>2, <2>1, <2>2, <2>3, <2>4 DEF Items
  <2>5. CASE j # 1
    <3>1. z = q[j - 1]
      BY <1>2, <2>1, <2>2, <2>5
    <3> QED
      BY <1>1, <1>4, <2>2, <2>3, <2>5, <3>1 DEF Items
  <2> QED
    BY <2>4, <2>5
<1>6. ASSUME y # x, y \in Items(q), NEW z, z \in Before(q, y) \cup {x} PROVE z \in Before(r, y)
  <2>1. CASE z = x
    <3>1. PICK k \in 1..n : q[k] = y
      BY <1>6 DEF Items
    <3>2. k + 1 \in 2..(n + 1) /\ k + 1 - 1 = k /\ 1 \in 1..(n + 1) /\ k + 1 \in 1..(n + 1) /\ 1 < k + 1
      BY <1>1
    <3>3. r[k + 1] = y
      BY <1>2, <3>1, <3>2
    <3> QED
      BY <1>2, <1>3, <2>1, <3>2, <3>3
  <2>2. CASE z # x
    <3>1. PICK j \in 1..n, k \in 1..n : j < k /\ q[j] = z /\ q[k] = y
      BY <1>4, <1>6, <2>2
    <3>2. /\ k + 1 \in 2..(n + 1) /\ k + 1 - 1 = k /\ k + 1 \in 1..(n + 1)
          /\ j + 1 \in 2..(n + 1) /\ j + 1 - 1 = j /\ j + 1 \in 1..(n + 1) /\ j + 1 < k + 1
      BY <1>1, <3>1
    <3>3. r[k + 1] = y /\ r[j + 1] = z
      <4>1. PICK a \in 2..(n + 1) : a = k + 1 /\ a - 1 = k
        BY <3>2
      <4>2. PICK b \in 2..(n + 1) : b = j + 1 /\ b - 1 = j
        BY <3>2
      <4>3. r[a] = q[k] /\ r[b] = q[j]
        BY <1>2, <4>1, <4>2
      <4> QED
        BY <3>1, <4>1, <4>2, <4>3
    <3> QED
      BY <1>3, <3>2, <3>3
  <2> QED
    BY <2>1, <2>2
<1>7. Before(r, y) = IF y = x \/ y \notin Items(q) THEN {} ELSE Before(q, y) \cup {x}
  BY <1>5, <1>6
<1> QED
  BY <1>7 DEF r

\* The rear goes, and the others keep the items before them.
LEMMA RearGoes ==
  ASSUME NEW q \in Seq(Item), Distinct(q), Len(q) # 0
  PROVE  /\ Impl!Dequeue(q) \in Seq(Item)
         /\ Items(Impl!Dequeue(q)) = Items(q) \ {q[Len(q)]}
         /\ \A y \in Items(Impl!Dequeue(q)) : Before(Impl!Dequeue(q), y) = Before(q, y)
<1> DEFINE n == Len(q)
           r == Impl!Dequeue(q)
<1>1. n \in Nat /\ (\A j, k \in 1..n : q[j] = q[k] => j = k) /\ \A j \in 1..n : q[j] \in Item
  BY DEF Distinct
<1>2. n \in 1..n /\ n - 1 \in Nat
  BY Shorter
<1>3. r \in Seq(Item) /\ Len(r) = n - 1 /\ \A j \in 1..(n - 1) : r[j] = q[j]
  BY Shorter
<1> HIDE DEF r
<1>4. \A j \in 1..n : j = n \/ j \in 1..(n - 1)
  BY <1>1
<1>5. \A j \in 1..(n - 1) : j \in 1..n /\ j # n
  BY <1>1
<1>6. Items(r) = Items(q) \ {q[n]}
  <2>1. ASSUME NEW z, z \in Items(r) PROVE z \in Items(q) /\ z # q[n]
    BY <1>1, <1>2, <1>3, <1>5, <2>1 DEF Items
  <2>2. ASSUME NEW z, z \in Items(q), z # q[n] PROVE z \in Items(r)
    <3>1. PICK j \in 1..n : z = q[j]
      BY <2>2 DEF Items
    <3>2. j \in 1..(n - 1)
      BY <1>4, <2>2, <3>1
    <3> QED
      BY <1>3, <3>1, <3>2 DEF Items
  <2> QED
    BY <2>1, <2>2
<1>7. ASSUME NEW y \in Items(r) PROVE Before(r, y) = Before(q, y)
  <2>1. ASSUME NEW z PROVE z \in Before(r, y) <=> \E j, k \in 1..(n - 1) : j < k /\ r[j] = z /\ r[k] = y
    BY <1>3, BeforeIs
  <2>2. ASSUME NEW z PROVE z \in Before(q, y) <=> \E j, k \in 1..n : j < k /\ q[j] = z /\ q[k] = y
    BY BeforeIs
  <2>3. ASSUME NEW z, z \in Before(r, y) PROVE z \in Before(q, y)
    <3>1. PICK j \in 1..(n - 1), k \in 1..(n - 1) : j < k /\ r[j] = z /\ r[k] = y
      BY <2>1, <2>3
    <3> QED
      BY <1>3, <1>5, <2>2, <3>1
  <2>4. ASSUME NEW z, z \in Before(q, y) PROVE z \in Before(r, y)
    <3>1. PICK j \in 1..n, k \in 1..n : j < k /\ q[j] = z /\ q[k] = y
      BY <2>2, <2>4
    <3>2. k # n
      BY <1>6, <3>1
    <3>3. k \in 1..(n - 1) /\ j \in 1..(n - 1)
      BY <1>1, <3>1, <3>2
    <3> QED
      BY <1>3, <2>1, <3>1, <3>3
  <2> QED
    BY <2>3, <2>4
<1> QED
  BY <1>3, <1>6, <1>7 DEF r

-------------------------------------------------------------------------------
(* The invariant. *)

\* Items in the list hold a value, and the others are zeroed.
Tidy(q) ==
  \A x \in Item : IF x \in Items(q) THEN value[x] # NULL ELSE value[x] = NULL /\ key[x] = NULL

Spelt == \E q : Spells(List, q) /\ Tidy(q)

\* The list spells a queue, and that queue is what LruCache says a queue is.
Inv == Spelt /\ Impl!IInv

\* The assumptions of LruCache are those of LruList, so its invariant holds here too.
LEMMA KeysFinite == Impl!KeyAssumption
BY FiniteAssumption DEF Impl!IsFiniteSet, IsFiniteSet

LEMMA QueueInit == Impl!Init => Impl!IInv
<1>1. Impl!KeyAssumption
  BY KeysFinite
<1> QED
  BY <1>1, Impl!InitIInv, Impl!ModesAssumption, Impl!CapacityAssumption, Impl!NullAssumption
     DEF Impl!InitIInv

LEMMA QueueNext == Impl!IInv /\ [Impl!Next]_(Impl!vars) => Impl!IInv'
<1>1. Impl!KeyAssumption
  BY KeysFinite
<1> QED
  BY <1>1, Impl!NextIInv, Impl!ModesAssumption, Impl!CapacityAssumption, Impl!NullAssumption
     DEF Impl!NextIInv

\* What the mapping reads in a state whose pointers spell q.
ReadsOK ==
  \A q : Spells(List, q) =>
           /\ Listed = q /\ count = Len(q) /\ q \in Seq(Item) /\ Distinct(q) /\ Len(q) \in Nat
           /\ front = (IF Len(q) = 0 THEN NULL ELSE q[1])
           /\ rear = (IF Len(q) = 0 THEN NULL ELSE q[Len(q)])
           /\ UsedSince = [x \in Item |-> Before(q, x)]

LEMMA ReadsNow == ReadsOK
<1> SUFFICES ASSUME NEW q, Spells(List, q)
             PROVE  /\ Listed = q /\ count = Len(q) /\ q \in Seq(Item) /\ Distinct(q)
                    /\ Len(q) \in Nat
                    /\ front = (IF Len(q) = 0 THEN NULL ELSE q[1])
                    /\ rear = (IF Len(q) = 0 THEN NULL ELSE q[Len(q)])
                    /\ UsedSince = [x \in Item |-> Before(q, x)]
  BY DEF ReadsOK
<1>1. Listed = q /\ count = Len(q)
  BY Reads
<1>2. /\ q \in Seq(Item) /\ Distinct(q) /\ Len(q) \in Nat
      /\ front = (IF Len(q) = 0 THEN NULL ELSE q[1])
      /\ rear = (IF Len(q) = 0 THEN NULL ELSE q[Len(q)])
  BY DEF Spells, List
<1>3. UsedSince = [x \in Item |-> Before(q, x)]
  BY <1>1 DEF UsedSince, Before
<1> QED
  BY <1>1, <1>2, <1>3

LEMMA ReadsNext == ReadsOK'
BY ReadsNow, PTL

\* A list that is set spells what it spelt.
LEMMA SetSpells == ASSUME NEW l, NEW q, Spells(l, q), SetList(l) PROVE Spells(List', q)
BY DEF Spells, SetList, List

-------------------------------------------------------------------------------
(* Every step is a step of LruCache. *)

\* A hit.
LEMMA HitMaps == ASSUME Inv, NEW k \in Key, Hit(k) PROVE Impl!Hit(k) /\ Spelt'
<1> DEFINE x == Lru!HashGet(k)
<1>1. PICK q : Spells(List, q) /\ Tidy(q)
  BY DEF Inv, Spelt
<1>2. /\ Listed = q /\ count = Len(q) /\ q \in Seq(Item) /\ Distinct(q) /\ Len(q) \in Nat
      /\ front = (IF Len(q) = 0 THEN NULL ELSE q[1])
      /\ UsedSince = [y \in Item |-> Before(q, y)]
  BY <1>1, ReadsNow DEF ReadsOK
<1>3. /\ x # NULL /\ x = hash[k] /\ x = Impl!HashGet(k)
      /\ SetList(IF x = front THEN List ELSE BringToFront(List, x))
      /\ call' = Lru!Called("get", k, value[x])
      /\ UNCHANGED <<mode, key, value, hash, qcap, hcap>>
  BY DEF Hit, Lru!HashGet, Impl!HashGet
<1>4. PICK i \in 1..Len(q) : q[i] = x
  <2>1. \E i \in 1..Len(Listed) : Listed[i] = hash[k]
    BY <1>3 DEF Inv, Impl!IInv, Impl!NoDanglingEntry
  <2> QED
    BY <1>2, <1>3, <2>1
<1> DEFINE r == Impl!ToFront(q, i)
<1> HIDE DEF x, r
<1>5. Spells(List', r)
  <2>1. CASE i = 1
    <3>1. front = q[1]
      BY <1>2, <2>1
    <3>2. r = q
      <4>1. r = [j \in 1..Len(q) |-> q[j]]
        BY <2>1 DEF r, Impl!ToFront
      <4> QED
        BY <1>2, <4>1
    <3>3. SetList(List)
      BY <1>3, <1>4, <2>1, <3>1
    <3> QED
      BY <1>1, <3>2, <3>3, SetSpells
  <2>2. CASE i # 1
    <3>1. i \in 2..Len(q) /\ 1 \in 1..Len(q)
      BY <1>2, <2>2
    <3>2. front = q[1]
      BY <1>2, <3>1
    <3>3. q[i] # q[1]
      BY <1>2, <2>2, <3>1 DEF Distinct
    <3>4. SetList(BringToFront(List, q[i]))
      BY <1>3, <1>4, <3>2, <3>3
    <3>5. Spells(BringToFront(List, q[i]), r)
      BY <1>1, <3>1, BringToFrontSpells DEF r
    <3> QED
      BY <3>4, <3>5, SetSpells
  <2> QED
    BY <2>1, <2>2
<1>6. Listed' = r /\ UsedSince' = [y \in Item |-> Before(r, y)]
  BY <1>5, ReadsNext DEF ReadsOK
<1>7. Items(r) = Items(q)
  <2>1. Len(r) = Len(q)
    <3>1. r = [j \in 1..Len(q) |-> IF j = 1 THEN q[i] ELSE IF j <= i THEN q[j - 1] ELSE q[j]]
      BY DEF r, Impl!ToFront
    <3>2. r \in Seq(Item)
      BY <1>5 DEF Spells
    <3> QED
      BY <1>2, <3>1, <3>2
  <2>2. \A j \in 1..Len(q) : r[j] = IF j = 1 THEN q[i] ELSE IF j <= i THEN q[j - 1] ELSE q[j]
    BY DEF r, Impl!ToFront
  <2>3. ASSUME NEW j \in 1..Len(q) PROVE \E h \in 1..Len(q) : r[j] = q[h]
    BY <1>2, <2>2
  <2>4. ASSUME NEW h \in 1..Len(q) PROVE \E j \in 1..Len(q) : r[j] = q[h]
    <3>1. CASE h = i
      BY <1>2, <2>2, <3>1
    <3>2. CASE h < i
      <4>1. PICK j \in 1..Len(q) : j = h + 1 /\ j # 1 /\ j <= i /\ j - 1 = h
        BY <1>2, <3>2
      <4> QED
        BY <2>2, <4>1
    <3>3. CASE h > i
      <4>1. h # 1 /\ ~(h <= i)
        BY <1>2, <3>3
      <4> QED
        BY <2>2, <4>1
    <3> QED
      BY <1>2, <3>1, <3>2, <3>3
  <2>5. ASSUME NEW z, z \in Items(r) PROVE z \in Items(q)
    BY <2>1, <2>3, <2>5 DEF Items
  <2>6. ASSUME NEW z, z \in Items(q) PROVE z \in Items(r)
    BY <2>1, <2>4, <2>6 DEF Items
  <2> QED
    BY <2>5, <2>6
<1>8. Impl!Touch(x, Items(q))
  <2>1. ASSUME NEW y \in Item
        PROVE  Before(r, y) = IF y = x \/ y \notin Items(q) THEN {}
                              ELSE (UsedSince[y] \cup {x}) \cap Items(q)
    BY <1>2, <1>4, TouchFront DEF r
  <2> QED
    BY <1>6, <2>1 DEF Impl!Touch
<1>9. Impl!Live = Items(q)
  BY <1>2 DEF Impl!Live, Items
<1>10. Impl!Hit(k)
  <2>1. x = Impl!HashGet(k) /\ Impl!HashGet(k) # NULL
    BY <1>3
  <2>2. Listed[i] = Impl!HashGet(k) /\ Listed' = Impl!ToFront(Listed, i) /\ i \in 1..Len(Listed)
    BY <1>2, <1>4, <1>6, <2>1 DEF r
  <2>3. call' = Impl!Called("get", k, value[Impl!HashGet(k)])
    BY <1>3, <2>1 DEF Lru!Called, Impl!Called
  <2> QED
    BY <1>3, <1>8, <1>9, <2>1, <2>2, <2>3 DEF Impl!Hit
<1>11. Spelt'
  <2>1. value' = value /\ key' = key
    BY <1>3
  <2>2. Tidy(r)'
    BY <1>1, <1>7, <2>1 DEF Tidy, Items
  <2> QED
    BY <1>5, <2>2 DEF Spelt
<1> QED
  BY <1>10, <1>11

\* LruList and the proofs of LruCache read the same definitions, as two instances.
LEMMA SameHashSet ==
  ASSUME NEW h, NEW c, NEW k, NEW x PROVE Lru!HashSet(h, c, k, x) = Impl!HashSet(h, c, k, x)
BY DEF Lru!HashSet, Impl!HashSet, Lru!Cardinality, Impl!Cardinality,
       Lru!IsFiniteSet, Impl!IsFiniteSet

LEMMA SameRehashes == ASSUME NEW h, NEW c PROVE Lru!Rehashes(h, c) = Impl!Rehashes(h, c)
BY DEF Lru!Rehashes, Impl!Rehashes, Lru!Cardinality, Impl!Cardinality,
       Lru!IsFiniteSet, Impl!IsFiniteSet

LEMMA SameHelpers ==
  /\ \A c : Lru!HashCapacity(c) = Impl!HashCapacity(c)
  /\ \A h, k : Lru!HashDel(h, k) = Impl!HashDel(h, k)
  /\ \A k : Lru!HashGet(k) = Impl!HashGet(k)
  /\ \A o, k, v : Lru!Called(o, k, v) = Impl!Called(o, k, v)
  /\ \A k : Lru!ClientStores(k) = Impl!ClientStores(k)
BY DEF Lru!HashCapacity, Impl!HashCapacity, Lru!HashDel, Impl!HashDel, Lru!HashGet,
       Impl!HashGet, Lru!Called, Impl!Called, Lru!ClientStores, Impl!ClientStores,
       Lru!MissFirst, Impl!MissFirst

\* A new item in front of what is left of the queue: q0 is the queue, l and q the list
\* and the queue after the items in freed have gone.
LEMMA EnqueueMaps ==
  ASSUME NEW q0, Spells(List, q0), Tidy(q0),
         NEW l, NEW q, NEW freed, Spells(l, q),
         freed \subseteq Items(q0), Items(q) = Items(q0) \ freed,
         \A y \in Items(q) : Before(q, y) = Before(q0, y),
         NEW h, NEW c, NEW k, NEW v \in Value,
         EnqueueAndSet(l, freed, h, c, k, v)
  PROVE  Impl!EnqueueAndSet(q, h, c, k, v) /\ Spelt'
<1>1. /\ UsedSince = [y \in Item |-> Before(q0, y)] /\ q0 \in Seq(Item) /\ Len(q0) \in Nat
      /\ Items(q0) \subseteq Item
  <2>1. UsedSince = [y \in Item |-> Before(q0, y)] /\ q0 \in Seq(Item) /\ Len(q0) \in Nat
    BY ReadsNow DEF ReadsOK
  <2>2. Items(q0) \subseteq Item
    BY <2>1 DEF Items
  <2> QED
    BY <2>1, <2>2
<1>2. q \in Seq(Item) /\ Distinct(q) /\ Len(q) \in Nat
  BY DEF Spells
<1>3. PICK x \in {y \in Item : ~Allocated(y)} \cup freed :
        /\ SetList(Enqueue(l, x))
        /\ key' = [y \in Item |-> IF y = x THEN k ELSE IF y \in freed THEN NULL ELSE key[y]]
        /\ value' = [y \in Item |-> IF y = x THEN v ELSE IF y \in freed THEN NULL ELSE value[y]]
        /\ hash' = Lru!HashSet(h, c, k, x)
  BY DEF EnqueueAndSet
<1>4. x \in Item \ Items(q)
  BY <1>1, <1>3 DEF Tidy, Allocated
<1> DEFINE r == Impl!Enqueue(q, x)
           S == Items(q) \cup {x}
<1>5. Spells(List', r)
  <2>1. \A i \in 1..Len(q) : q[i] # x
    BY <1>4 DEF Items
  <2>2. Spells(Enqueue(l, x), r)
    BY <1>4, <2>1, EnqueueSpells
  <2> QED
    BY <1>3, <2>2, SetSpells
<1>6. Listed' = r /\ UsedSince' = [y \in Item |-> Before(r, y)]
  BY <1>5, ReadsNext DEF ReadsOK
<1>7. Items(r) = S
  <2>1. Len(r) = Len(q) + 1 /\ r[1] = x /\ \A j \in 2..(Len(q) + 1) : r[j] = q[j - 1]
    BY <1>2, <1>4, Longer
  <2>2. ASSUME NEW z, z \in Items(r) PROVE z \in S
    <3>1. PICK j \in 1..(Len(q) + 1) : z = r[j]
      BY <2>1, <2>2 DEF Items
    <3>2. j = 1 \/ (j \in 2..(Len(q) + 1) /\ j - 1 \in 1..Len(q))
      BY <1>2
    <3> QED
      BY <2>1, <3>1, <3>2 DEF Items
  <2>3. ASSUME NEW z, z \in S PROVE z \in Items(r)
    <3>1. CASE z = x
      <4>1. 1 \in 1..(Len(q) + 1)
        BY <1>2
      <4> QED
        BY <2>1, <3>1, <4>1 DEF Items
    <3>2. CASE z # x
      <4>1. PICK i \in 1..Len(q) : z = q[i]
        BY <2>3, <3>2 DEF Items
      <4>2. PICK j \in 2..(Len(q) + 1) : j - 1 = i
        BY <1>2
      <4>3. r[j] = q[i]
        BY <2>1, <4>2
      <4>4. j \in 1..(Len(q) + 1)
        BY <1>2
      <4> QED
        BY <2>1, <4>1, <4>3, <4>4 DEF Items
    <3> QED
      BY <3>1, <3>2
  <2> QED
    BY <2>2, <2>3
<1>8. Impl!Touch(x, S)
  <2>1. ASSUME NEW y \in Item
        PROVE  Before(r, y) = IF y = x \/ y \notin S THEN {} ELSE (UsedSince[y] \cup {x}) \cap S
    <3>1. Before(r, y) = IF y = x \/ y \notin Items(q) THEN {} ELSE Before(q, y) \cup {x}
      BY <1>2, <1>4, TouchNew
    <3>2. Before(q, y) \subseteq Items(q)
      BY DEF Before, Items
    <3>3. y \in Items(q) => UsedSince[y] = Before(q, y)
      BY <1>1
    <3> QED
      BY <3>1, <3>2, <3>3
  <2> QED
    BY <1>6, <2>1 DEF Impl!Touch
<1>9. ASSUME NEW y \in Item
      PROVE  /\ key'[y] = IF y = x THEN k ELSE IF y \in Items(q) THEN key[y] ELSE NULL
             /\ value'[y] = IF y = x THEN v ELSE IF y \in Items(q) THEN value[y] ELSE NULL
  <2>1. /\ key'[y] = IF y = x THEN k ELSE IF y \in freed THEN NULL ELSE key[y]
        /\ value'[y] = IF y = x THEN v ELSE IF y \in freed THEN NULL ELSE value[y]
    BY <1>3
  <2>2. y \notin Items(q0) => key[y] = NULL /\ value[y] = NULL
    BY DEF Tidy
  <2> QED
    BY <2>1, <2>2
<1>10. Impl!EnqueueAndSet(q, h, c, k, v)
  <2>1. /\ key' = [y \in Item |-> IF y = x THEN k ELSE IF y \in Items(q) THEN key[y] ELSE NULL]
        /\ value' = [y \in Item |-> IF y = x THEN v ELSE IF y \in Items(q) THEN value[y] ELSE NULL]
    BY <1>3, <1>9
  <2>2. hash' = Impl!HashSet(h, c, k, x)
    BY <1>3, SameHashSet
  <2>3. Listed' = Impl!Enqueue(q, x)
    BY <1>6
  <2> QED
    BY <1>4, <1>8, <2>1, <2>2, <2>3 DEF Impl!EnqueueAndSet, Items
<1>11. Spelt'
  <2>1. ASSUME NEW y \in Item
        PROVE  IF y \in Items(r) THEN value'[y] # NULL ELSE value'[y] = NULL /\ key'[y] = NULL
    <3>1. v # NULL
      BY NullAssumption
    <3>2. y \in Items(q) => value[y] # NULL
      BY DEF Tidy
    <3> QED
      BY <1>7, <1>9, <3>1, <3>2
  <2>2. Tidy(r)'
    BY <2>1 DEF Tidy, Items
  <2> QED
    BY <1>5, <2>2 DEF Spelt
<1> QED
  BY <1>10, <1>11

\* A store, in each of its three cases.
LEMMA StoreMaps ==
  ASSUME Inv, NEW k \in Key, NEW v \in Value, Store(k, v) PROVE Impl!Store(k, v) /\ Spelt'
<1>1. PICK q : Spells(List, q) /\ Tidy(q)
  BY DEF Inv, Spelt
<1>2. /\ Listed = q /\ count = Len(q) /\ q \in Seq(Item) /\ Distinct(q) /\ Len(q) \in Nat
      /\ rear = (IF Len(q) = 0 THEN NULL ELSE q[Len(q)])
  BY <1>1, ReadsNow DEF ReadsOK
<1>3. Impl!ClientStores(k) /\ call' = Impl!Called("set", k, v) /\ mode' = mode
  BY SameHelpers DEF Store
<1>4. ASSUME NEW h, NEW c, EnqueueAndSet(List, {}, h, c, k, v)
      PROVE  Impl!EnqueueAndSet(Listed, h, c, k, v) /\ Spelt'
  BY <1>1, <1>2, <1>4, EnqueueMaps
<1>5. CASE count # qcap /\ EnqueueAndSet(List, {}, hash, hcap, k, v) /\ UNCHANGED <<qcap, hcap>>
  <2>1. Impl!StoreWithRoom(k, v)
    BY <1>2, <1>3, <1>4, <1>5 DEF Impl!StoreWithRoom, Impl!queueIsFull
  <2> QED
    BY <1>4, <1>5, <2>1 DEF Impl!Store
<1>6. CASE /\ count = qcap /\ ~mode.expand
           /\ EnqueueAndSet(Dequeue(List), {rear}, Lru!HashDel(hash, key[rear]), hcap, k, v)
           /\ UNCHANGED <<qcap, hcap>>
  <2>1. Len(q) # 0
    BY <1>2, <1>6 DEF Inv, Impl!IInv, Impl!TypeOK
  <2>2. Spells(Dequeue(List), Impl!Dequeue(q))
    BY <1>1, <2>1, DequeueSpells
  <2>3. rear = q[Len(q)] /\ rear \in Items(q)
    <3>1. Len(q) \in 1..Len(q)
      BY <1>2, <2>1, Shorter
    <3> QED
      BY <1>2, <2>1, <3>1 DEF Items
  <2>4. /\ Items(Impl!Dequeue(q)) = Items(q) \ {rear}
        /\ \A y \in Items(Impl!Dequeue(q)) : Before(Impl!Dequeue(q), y) = Before(q, y)
    BY <1>2, <2>1, <2>3, RearGoes
  <2>5. /\ Impl!EnqueueAndSet(Impl!Dequeue(q), Lru!HashDel(hash, key[rear]), hcap, k, v)
        /\ Spelt'
    BY <1>1, <1>6, <2>2, <2>3, <2>4, EnqueueMaps
  <2>6. Impl!EnqueueAndSet(Impl!Dequeue(Listed), Impl!HashDel(hash, key[Listed[Len(Listed)]]),
                           hcap, k, v)
    BY <1>2, <2>3, <2>5, SameHelpers
  <2>7. Impl!queueIsFull /\ ~Impl!Expand
    BY <1>2, <1>6 DEF Impl!queueIsFull, Impl!Expand
  <2>8. Impl!StoreAndEvict(k, v)
    BY <1>3, <1>6, <2>6, <2>7 DEF Impl!StoreAndEvict
  <2> QED
    BY <2>5, <2>8 DEF Impl!Store
<1>7. CASE /\ count = qcap /\ mode.expand /\ qcap * 2 <= MaxCapacity /\ qcap' = qcap * 2
           /\ hcap' = Lru!HashCapacity(qcap * 2)
           /\ \E h \in Lru!Rehashes(hash, Lru!HashCapacity(qcap * 2)) :
                EnqueueAndSet(List, {}, h, Lru!HashCapacity(qcap * 2), k, v)
  <2> DEFINE c == Lru!HashCapacity(qcap * 2)
  <2>1. PICK h \in Lru!Rehashes(hash, c) : EnqueueAndSet(List, {}, h, c, k, v)
    BY <1>7
  <2>2. Impl!EnqueueAndSet(Listed, h, c, k, v) /\ Spelt'
    BY <1>4, <2>1
  <2>3. c = Impl!HashCapacity(qcap * 2) /\ h \in Impl!Rehashes(hash, c)
    BY <2>1, SameHelpers, SameRehashes
  <2>4. Impl!queueIsFull /\ Impl!Expand
    BY <1>2, <1>7 DEF Impl!queueIsFull, Impl!Expand
  <2>5. hcap' = c
    BY <1>7
  <2> HIDE DEF c
  <2>6. Impl!StoreAndExpand(k, v)
    BY <1>3, <1>7, <2>2, <2>3, <2>4, <2>5 DEF Impl!StoreAndExpand
  <2> QED
    BY <2>2, <2>6 DEF Impl!Store
<1> QED
  BY <1>5, <1>6, <1>7 DEF Store

\* The empty list.
LEMMA EmptySpells ==
  ASSUME NEW l, l.front = NULL, l.rear = NULL, l.count = 0,
         l.prev = [x \in Item |-> NULL], l.next = [x \in Item |-> NULL]
  PROVE  Spells(l, <<>>)
<1>1. <<>> \in Seq(Item) /\ Len(<<>>) = 0 /\ 1..0 = {}
  OBVIOUS
<1> QED
  BY <1>1 DEF Spells, Distinct

LEMMA DestroyMaps == ASSUME Destroy PROVE Impl!Destroy /\ Spelt'
<1>1. Spells(List', <<>>)
  BY EmptySpells DEF Destroy, List
<1>2. Listed' = <<>> /\ UsedSince' = [y \in Item |-> Before(<<>>, y)]
  BY <1>1, ReadsNext DEF ReadsOK
<1>3. Len(<<>>) = 0 /\ Items(<<>>) = {} /\ \A y : Before(<<>>, y) = {}
  BY DEF Items, Before
<1>4. Impl!Destroy
  <2>1. UsedSince' = [y \in Item |-> {}]
    BY <1>2, <1>3
  <2> QED
    BY <1>2, <2>1, SameHelpers DEF Destroy, Impl!Destroy
<1>5. Tidy(<<>>)'
  BY <1>3 DEF Destroy, Tidy, Items
<1> QED
  BY <1>1, <1>4, <1>5 DEF Spelt

LEMMA InitMaps == Init => Impl!Init /\ Spelt
<1> SUFFICES ASSUME Init PROVE Impl!Init /\ Spelt
  OBVIOUS
<1>1. Spells(List, <<>>)
  BY EmptySpells DEF Init, List
<1>2. Listed = <<>> /\ UsedSince = [y \in Item |-> Before(<<>>, y)]
  BY <1>1, ReadsNow DEF ReadsOK
<1>3. Len(<<>>) = 0 /\ Items(<<>>) = {} /\ \A y : Before(<<>>, y) = {}
  BY DEF Items, Before
<1>4. Impl!Init
  <2>1. UsedSince = [y \in Item |-> {}]
    BY <1>2, <1>3
  <2> QED
    BY <1>2, <2>1, SameHelpers DEF Init, Impl!Init
<1>5. Tidy(<<>>)
  BY <1>3 DEF Init, Tidy
<1> QED
  BY <1>1, <1>4, <1>5 DEF Spelt

\* A step of the list is a step of LruCache, or leaves its queue as it is.
LEMMA NextMaps == Inv /\ [Next]_vars => Inv' /\ [Impl!Next]_(Impl!vars)
<1> SUFFICES ASSUME Inv, [Next]_vars PROVE Spelt' /\ [Impl!Next]_(Impl!vars)
  BY QueueNext DEF Inv
<1>1. ASSUME NEW k \in Key, Hit(k) PROVE Spelt' /\ Impl!Next
  BY <1>1, HitMaps DEF Impl!Next
<1>2. ASSUME UNCHANGED <<mode, front, rear, count, prev, next, key, value, hash, qcap, hcap>>
      PROVE  Spelt' /\ Listed' = Listed /\ UsedSince' = UsedSince
  <2>1. PICK q : Spells(List, q) /\ Tidy(q)
    BY DEF Inv, Spelt
  <2>2. Spells(List', q)
    BY <1>2, <2>1 DEF Spells, List
  <2>3. Tidy(q)'
    BY <1>2, <2>1 DEF Tidy, Items
  <2>4. Listed = q /\ UsedSince = [y \in Item |-> Before(q, y)]
    BY <2>1, ReadsNow DEF ReadsOK
  <2>5. Listed' = q /\ UsedSince' = [y \in Item |-> Before(q, y)]
    BY <2>2, ReadsNext DEF ReadsOK
  <2> QED
    BY <2>2, <2>3, <2>4, <2>5 DEF Spelt
<1>3. ASSUME NEW k \in Key, Miss(k) PROVE Spelt' /\ Impl!Next
  <2>1. Impl!Miss(k)
    BY <1>2, <1>3, SameHelpers DEF Miss, Impl!Miss
  <2> QED
    BY <1>2, <1>3, <2>1 DEF Miss, Impl!Next
<1>4. ASSUME NEW k \in Key, NEW v \in Value, Store(k, v) PROVE Spelt' /\ Impl!Next
  BY <1>4, StoreMaps DEF Impl!Next
<1>5. ASSUME Destroy PROVE Spelt' /\ Impl!Next
  BY <1>5, DestroyMaps DEF Impl!Next
<1>6. ASSUME UNCHANGED vars PROVE Spelt' /\ UNCHANGED Impl!vars
  BY <1>2, <1>6 DEF vars, Impl!vars
<1> QED
  BY <1>1, <1>3, <1>4, <1>5, <1>6 DEF Next

LEMMA Invariance == Spec => []Inv
<1>1. Init => Inv
  BY InitMaps, QueueInit DEF Inv
<1> QED
  BY <1>1, NextMaps, PTL DEF Spec

-------------------------------------------------------------------------------
(* Theorems. *)

LEMMA StepOfLruCache == Impl!Next => Lru!Next
BY DEF Lru!Next, Impl!Next, Lru!Hit, Impl!Hit, Lru!HashGet, Impl!HashGet, Lru!Called,
  Impl!Called, Lru!ClientStores, Impl!ClientStores, Lru!MissFirst, Impl!MissFirst, Lru!Miss,
  Impl!Miss, Lru!Touch, Impl!Touch, Lru!Live, Impl!Live, Lru!ToFront, Impl!ToFront, Lru!Store,
  Impl!Store, Lru!StoreWithRoom, Impl!StoreWithRoom, Lru!StoreAndEvict, Impl!StoreAndEvict,
  Lru!StoreAndExpand, Impl!StoreAndExpand, Lru!queueIsFull, Impl!queueIsFull, Lru!Expand,
  Impl!Expand, Lru!EnqueueAndSet, Impl!EnqueueAndSet, Lru!Enqueue, Impl!Enqueue, Lru!Dequeue,
  Impl!Dequeue, Lru!HashSet, Impl!HashSet, Lru!HashDel, Impl!HashDel, Lru!HashCapacity,
  Impl!HashCapacity, Lru!Rehashes, Impl!Rehashes, Lru!Destroy, Impl!Destroy,
  Lru!Cardinality, Impl!Cardinality, Lru!IsFiniteSet, Impl!IsFiniteSet

\* The linked list does what LruCache says, for every capacity, so all that is proved of
\* LruCache holds of what a walk along the list finds.
THEOREM Refinement == Spec => ImplementsLruCache
<1>1. Init => Lru!Init
  <2>1. Impl!Init => Lru!Init
    BY DEF Impl!Init, Lru!Init, Lru!Called, Impl!Called, Lru!HashCapacity, Impl!HashCapacity
  <2> QED
    BY <2>1, InitMaps
<1>2. Inv /\ [Next]_vars => [Lru!Next]_(Lru!vars)
  <2>1. Impl!vars = Lru!vars
    BY DEF Impl!vars, Lru!vars
  <2>2. UNCHANGED Impl!vars => UNCHANGED Lru!vars
    BY DEF Impl!vars, Lru!vars
  <2> QED
    BY <2>2, NextMaps, StepOfLruCache
<1> QED
  BY <1>1, <1>2, Invariance, PTL DEF Spec, ImplementsLruCache, Lru!Spec

\* The list is well formed after any sequence of hits, stores and evictions.
THEOREM ListCorrect == Spec => []ListOK
<1>1. Inv => ListOK
  <2> SUFFICES ASSUME Inv PROVE ListOK
    OBVIOUS
  <2>1. PICK q : Spells(List, q) /\ Tidy(q)
    BY DEF Inv, Spelt
  <2>2. /\ Listed = q /\ count = Len(q) /\ q \in Seq(Item) /\ Distinct(q) /\ Len(q) \in Nat
        /\ rear = (IF Len(q) = 0 THEN NULL ELSE q[Len(q)])
    BY <2>1, ReadsNow DEF ReadsOK
  <2>3. Items(q) = {x \in Item : Allocated(x)}
    <3>1. Items(q) \subseteq Item
      BY <2>2 DEF Items
    <3> QED
      BY <2>1, <3>1 DEF Tidy, Allocated
  <2>4. {Listed[i] : i \in 1..count} = {x \in Item : Allocated(x)}
    BY <2>2, <2>3 DEF Items
  <2>5. Cardinality({x \in Item : Allocated(x)}) = count
    <3>1. q \in Bijection(1..Len(q), Items(q))
      <4>1. q \in [1..Len(q) -> Items(q)]
        BY <2>2 DEF Items
      <4>2. q \in Injection(1..Len(q), Items(q))
        BY <2>2, <4>1 DEF Injection, IsInjective, Distinct
      <4>3. q \in Surjection(1..Len(q), Items(q))
        BY <4>1 DEF Surjection, Items
      <4> QED
        BY <4>2, <4>3 DEF Bijection
    <3>2. Cardinality(Items(q)) = Len(q)
      BY <2>2, <3>1, FS_CountingElements, FS_NatBijection DEF ExistsBijection
    <3> QED
      BY <2>2, <2>3, <3>2
  <2>6. walk[count] = NULL
    <3>1. Len(q) \in 0..Cardinality(Item)
      BY <2>2, Fits
    <3> QED
      BY <2>1, <2>2, <3>1, Walks
  <2>7. \A i \in 1..count : prev[Listed[i]] = IF i = 1 THEN NULL ELSE Listed[i - 1]
    <3>1. \A i \in 1..Len(q) : prev[q[i]] = IF i = 1 THEN NULL ELSE q[i - 1]
      BY <2>1 DEF Spells, List
    <3> QED
      BY <2>2, <3>1
  <2> QED
    BY <2>2, <2>4, <2>5, <2>6, <2>7 DEF ListOK
<1> QED
  BY <1>1, Invariance, PTL
===============================================================================

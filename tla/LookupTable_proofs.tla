--------------------------- MODULE LookupTable_proofs ---------------------------
(***************************************************************************)
(* For every finite set of keys, every size and every hash: the chains     *)
(* hold each key once, where it is looked for, and the lookup keeps the    *)
(* promise of CacheContract, however often it is doubled.                  *)
(*                                                                         *)
(* The size of a table is the number of its keys.  It decides when the     *)
(* table is doubled, which it is before it refuses a key; the new table    *)
(* refuses none, having room for twice as many keys as the old one.        *)
(***************************************************************************)
EXTENDS LookupTable, SequenceTheorems, FiniteSetTheorems, FunctionTheorems, WellFoundedInduction, TLAPS

Any  == [key : Key \cup {ZeroKey}, value : Value \cup {NULL}]
Link == [key : Key, value : Value]

\* A set of naturals that is not empty has a least element.
LEMMA Least == ASSUME NEW S \in SUBSET Nat, S # {} PROVE \E m \in S : \A n \in S : m <= n
<1> DEFINE R == {ss \in Nat \X Nat : ss[1] < ss[2]}
<1>1. IsWellFoundedOn(R, Nat)
  BY NatLessThanWellFounded DEF OpToRel
<1>2. \A n, m \in Nat : n < m => <<n, m>> \in R
  OBVIOUS
<1> HIDE DEF R
<1>3. \E m \in S : \A n \in S : ~(<<n, m>> \in R)
  BY <1>1, WFMin
<1>4. PICK m \in S : \A n \in S : ~(<<n, m>> \in R)
  BY <1>3
<1>5. \A n \in S : ~(n < m)
  BY <1>2, <1>4
<1> QED
  BY <1>5

-------------------------------------------------------------------------------
(* Chains. *)

\* A chain in use: its head, and links with different keys.
Chain(chain) ==
  /\ chain \in Seq(Any) /\ Len(chain) >= 1
  /\ chain[1] = [key |-> ZeroKey, value |-> NULL]
  /\ \A i \in 2..Len(chain) : chain[i] \in Link
  /\ \A i, j \in 2..Len(chain) : chain[i].key = chain[j].key => i = j

KeysIn(chain) == {chain[i].key : i \in 2..Len(chain)}

\* The head alone is a chain.
LEMMA HeadAlone == Chain(Head0) /\ KeysIn(Head0) = {} /\ Len(Head0) = 1
<1> DEFINE head == [key |-> ZeroKey, value |-> NULL]
<1>1. head \in Any /\ Head0 = <<head>>
  BY DEF Any, Head0
<1> HIDE DEF head
<1>2. Head0 \in Seq(Any) /\ Len(Head0) = 1 /\ Head0[1] = head
  BY <1>1
<1>3. 2..Len(Head0) = {}
  BY <1>2
<1> QED
  BY <1>2, <1>3 DEF Chain, KeysIn, head

\* Any other chain has a link after the head.
LEMMA Longer == ASSUME NEW chain, Chain(chain), chain # Head0 PROVE Len(chain) > 1
<1>1. /\ chain \in Seq(Any) /\ Len(chain) \in Nat /\ Len(chain) >= 1
      /\ chain[1] = [key |-> ZeroKey, value |-> NULL]
  BY DEF Chain
<1>2. Chain(Head0) /\ Len(Head0) = 1
  BY HeadAlone
<1>3. Head0 \in Seq(Any) /\ Head0[1] = [key |-> ZeroKey, value |-> NULL]
  BY <1>2 DEF Chain
<1>4. ASSUME Len(chain) = 1 PROVE FALSE
  <2>1. \A i \in 1..Len(chain) : chain[i] = Head0[i]
    BY <1>1, <1>3, <1>4
  <2>2. Len(chain) = Len(Head0)
    BY <1>2, <1>4
  <2>3. chain = Head0
    BY <1>1, <1>3, <2>1, <2>2, SeqEqual
  <2> QED
    BY <2>3
<1>5. Len(chain) \in Nat /\ Len(chain) >= 1
  BY <1>1
<1>6. Len(chain) # 1
  BY <1>4
<1>7. \A n \in Nat : n >= 1 /\ n # 1 => n > 1
  OBVIOUS
<1> QED
  BY <1>5, <1>6, <1>7

\* The link with a key is found after the head, if there is one.
LEMMA Located ==
  ASSUME NEW chain, Chain(chain), NEW k
  PROVE  /\ From(chain, 2, k) = {} <=> k \notin KeysIn(chain)
         /\ \A i \in 2..Len(chain) : chain[i].key = k => First(From(chain, 2, k)) = i
<1>1. Len(chain) \in Nat
  BY DEF Chain
<1>2. From(chain, 2, k) = {} <=> k \notin KeysIn(chain)
  BY DEF From, KeysIn
<1>3. ASSUME NEW i \in 2..Len(chain), chain[i].key = k
      PROVE  First(From(chain, 2, k)) = i
  <2>1. From(chain, 2, k) = {i}
    BY <1>3 DEF From, Chain
  <2>2. \E j \in {i} : \A m \in {i} : j <= m
    BY <1>3
  <2> QED
    BY <2>1, <2>2 DEF First
<1> QED
  BY <1>2, <1>3

\* What is found in a chain: the value under the key, but nothing under the key of
\* the head.
LEMMA Found ==
  ASSUME NEW chain, Chain(chain), NEW k
  PROVE  /\ k = ZeroKey \/ k \notin KeysIn(chain) => Find(chain, k) = NULL
         /\ k # ZeroKey => \A i \in 2..Len(chain) : chain[i].key = k => Find(chain, k) = chain[i].value
         /\ Has(chain, k) <=> k = ZeroKey \/ k \in KeysIn(chain)
<1>1. Len(chain) \in Nat /\ 1 \in 1..Len(chain) /\ chain[1].key = ZeroKey /\ chain[1].value = NULL
  BY DEF Chain
<1> DEFINE S == From(chain, 1, k)
<1>2. S = {i \in 1..Len(chain) : chain[i].key = k}
  BY DEF From
<1> HIDE DEF S
<1>3. CASE k = ZeroKey
  <2>1. 1 \in S /\ \A i \in S : 1 <= i
    BY <1>1, <1>2, <1>3
  <2>2. First(S) = 1
    <3>1. \A i \in S : i \in Nat /\ 1 <= i
      BY <1>2
    <3>2. \A i \in S : (\A j \in S : i <= j) => i = 1
      BY <2>1, <3>1
    <3> QED
      BY <2>1, <3>2 DEF First
  <2>3. Find(chain, k) = chain[1].value
    BY <2>1, <2>2 DEF Find, Has, S
  <2> QED
    BY <1>1, <1>3, <2>1, <2>3 DEF Has, S
<1>4. CASE k # ZeroKey
  <2>1. S = {i \in 2..Len(chain) : chain[i].key = k}
    BY <1>1, <1>2, <1>4
  <2>2. S = {} <=> k \notin KeysIn(chain)
    BY <2>1 DEF KeysIn
  <2>3. ASSUME NEW i \in 2..Len(chain), chain[i].key = k PROVE S = {i} /\ First(S) = i
    <3>1. S = {i}
      BY <2>1, <2>3 DEF Chain
    <3>2. \E j \in {i} : \A m \in {i} : j <= m
      BY <2>3
    <3> QED
      BY <3>1, <3>2 DEF First
  <2> QED
    BY <1>4, <2>2, <2>3 DEF Find, Has, S
<1> QED
  BY <1>3, <1>4

\* A chain that is not in use.
LEMMA Nowhere == ASSUME NEW k PROVE ~Has(<<>>, k) /\ Find(<<>>, k) = NULL /\ KeysIn(<<>>) = {}
BY DEF Has, Find, From, KeysIn

\* What is added is found, and the rest as before.
LEMMA Added ==
  ASSUME NEW chain, Chain(chain), NEW k \in Key, NEW v \in Value
  PROVE  LET new == Add(chain, k, v)
         IN  /\ Chain(new) /\ KeysIn(new) = KeysIn(chain) \cup {k} /\ Len(new) >= 2
             /\ Len(new) = IF k \in KeysIn(chain) THEN Len(chain) ELSE Len(chain) + 1
             /\ \A x : Find(new, x) = IF x = ZeroKey THEN NULL ELSE IF x = k THEN v ELSE Find(chain, x)
<1> DEFINE new == Add(chain, k, v)
<1>1. Len(chain) \in Nat /\ chain \in Seq(Any) /\ Len(chain) >= 1
  BY DEF Chain
<1>2. /\ Chain(new) /\ KeysIn(new) = KeysIn(chain) \cup {k} /\ Len(new) >= 2
      /\ Len(new) = IF k \in KeysIn(chain) THEN Len(chain) ELSE Len(chain) + 1
      /\ \E i \in 2..Len(new) : /\ new[i].key = k /\ new[i].value = v
                                /\ \A j \in 2..Len(new) : j # i => j \in 2..Len(chain) /\ new[j] = chain[j]
  <2>1. CASE k \notin KeysIn(chain)
    <3> DEFINE link == [key |-> k, value |-> v]
    <3>1. new = Append(chain, link) /\ link \in Link /\ link \in Any /\ link.key = k /\ link.value = v
      BY <2>1, Located DEF Add, Link, Any
    <3> HIDE DEF link, new
    <3>2. /\ new \in Seq(Any) /\ Len(new) = Len(chain) + 1 /\ new[Len(chain) + 1] = link
          /\ \A i \in 1..Len(chain) : new[i] = chain[i]
      BY <1>1, <3>1
    <3>3. \A i \in 2..Len(chain) : chain[i].key # k
      BY <2>1 DEF KeysIn
    <3>4. \A i \in 2..Len(new) : i = Len(chain) + 1 \/ i \in 2..Len(chain)
      BY <1>1, <3>2
    <3>5. Chain(new)
      BY <1>1, <3>1, <3>2, <3>3, <3>4 DEF Chain
    <3>6. KeysIn(new) = KeysIn(chain) \cup {k}
      <4>1. Len(chain) + 1 \in 2..Len(new) /\ \A i \in 2..Len(chain) : i \in 2..Len(new) /\ new[i] = chain[i]
        BY <1>1, <3>2
      <4> QED
        BY <3>1, <3>2, <3>4, <4>1 DEF KeysIn
    <3>7. Len(chain) + 1 \in 2..Len(new)
      BY <1>1, <3>2
    <3> QED
      BY <1>1, <2>1, <3>1, <3>2, <3>4, <3>5, <3>6, <3>7
  <2>2. CASE k \in KeysIn(chain)
    <3>1. PICK i \in 2..Len(chain) : chain[i].key = k
      BY <2>2 DEF KeysIn
    <3>2. new = [chain EXCEPT ![i] = [chain[i] EXCEPT !.value = v]]
      BY <2>2, <3>1, Located DEF Add
    <3> DEFINE link == [chain[i] EXCEPT !.value = v]
    <3>3. link \in Link /\ link \in Any /\ link.key = k /\ link.value = v
      BY <3>1 DEF Chain, Link, Any
    <3> HIDE DEF new, link
    <3>4. /\ new \in Seq(Any) /\ Len(new) = Len(chain) /\ new[i] = link
          /\ \A j \in 1..Len(chain) : j # i => new[j] = chain[j]
      BY <1>1, <3>1, <3>2, <3>3 DEF link
    <3>5. \A j \in 2..Len(chain) : new[j] \in Link /\ new[j].key = chain[j].key
      BY <3>1, <3>3, <3>4 DEF Chain
    <3>6. new[1] = chain[1]
      BY <1>1, <3>1, <3>4
    <3>7. Chain(new)
      BY <1>1, <3>4, <3>5, <3>6 DEF Chain
    <3>8. KeysIn(new) = KeysIn(chain) \cup {k}
      BY <2>2, <3>4, <3>5 DEF KeysIn
    <3> QED
      BY <1>1, <2>2, <3>1, <3>3, <3>4, <3>7, <3>8
  <2> QED
    BY <2>1, <2>2
<1> HIDE DEF new
<1>3. ASSUME NEW x
      PROVE  Find(new, x) = IF x = ZeroKey THEN NULL ELSE IF x = k THEN v ELSE Find(chain, x)
  <2>1. PICK i \in 2..Len(new) : /\ new[i].key = k /\ new[i].value = v
                                 /\ \A j \in 2..Len(new) : j # i => j \in 2..Len(chain) /\ new[j] = chain[j]
    BY <1>2
  <2>2. CASE x = ZeroKey
    BY <2>2, <1>2, Found
  <2>3. CASE x # ZeroKey /\ x = k
    BY <2>1, <2>3, <1>2, Found
  <2>4. CASE x # ZeroKey /\ x # k /\ x \in KeysIn(new)
    <3>1. PICK j \in 2..Len(new) : new[j].key = x
      BY <2>4 DEF KeysIn
    <3>2. j \in 2..Len(chain) /\ new[j] = chain[j]
      BY <2>1, <2>4, <3>1
    <3>3. Find(new, x) = new[j].value /\ Find(chain, x) = chain[j].value
      BY <1>2, <2>4, <3>1, <3>2, Found
    <3> QED
      BY <2>4, <3>2, <3>3
  <2>5. CASE x # ZeroKey /\ x # k /\ x \notin KeysIn(new)
    <3>1. x \notin KeysIn(chain)
      BY <1>2, <2>5
    <3> QED
      BY <2>5, <3>1, <1>2, Found
  <2> QED
    BY <2>2, <2>3, <2>4, <2>5
<1> QED
  BY <1>2, <1>3 DEF new

\* What is removed is not found, and the rest as before.
LEMMA Removed ==
  ASSUME NEW chain, Chain(chain), NEW k
  PROVE  LET new == Without(chain, k)
         IN  /\ Chain(new) /\ KeysIn(new) = KeysIn(chain) \ {k}
             /\ Len(new) = IF k \in KeysIn(chain) THEN Len(chain) - 1 ELSE Len(chain)
             /\ \A x : Find(new, x) = IF x = k THEN NULL ELSE Find(chain, x)
<1> DEFINE new == Without(chain, k)
<1>1. Len(chain) \in Nat /\ chain \in Seq(Any) /\ Len(chain) >= 1
  BY DEF Chain
<1>2. CASE k \notin KeysIn(chain)
  <2>1. new = chain
    BY <1>2, Located DEF Without
  <2>2. Find(chain, k) = NULL
    BY <1>2, Found
  <2> QED
    BY <1>2, <2>1, <2>2
<1>3. CASE k \in KeysIn(chain)
  <2>1. PICK p \in 2..Len(chain) : chain[p].key = k
    BY <1>3 DEF KeysIn
  <2> DEFINE a == SubSeq(chain, 1, p - 1)
             b == SubSeq(chain, p + 1, Len(chain))
  <2>2. new = a \o b
    BY <1>3, <2>1, Located DEF Without
  <2>3. a \in Seq(Any) /\ Len(a) = p - 1 /\ \A i \in 1..(p - 1) : a[i] = chain[i]
    BY <1>1
  <2>4. b \in Seq(Any) /\ Len(b) = Len(chain) - p /\ \A i \in 1..(Len(chain) - p) : b[i] = chain[p + i]
    BY <1>1
  <2> HIDE DEF a, b, new
  <2>5. /\ new \in Seq(Any) /\ Len(new) = Len(a) + Len(b)
        /\ \A i \in 1..(Len(a) + Len(b)) : new[i] = IF i <= Len(a) THEN a[i] ELSE b[i - Len(a)]
    <3>1. /\ a \o b \in Seq(Any) /\ Len(a \o b) = Len(a) + Len(b)
          /\ \A i \in 1..(Len(a) + Len(b)) : (a \o b)[i] = IF i <= Len(a) THEN a[i] ELSE b[i - Len(a)]
      BY <2>3, <2>4, ConcatProperties
    <3> QED
      BY <2>2, <3>1
  <2> DEFINE at(i) == IF i < p THEN i ELSE i + 1
  <2>6. Len(new) = Len(chain) - 1 /\ \A i \in 1..Len(new) : new[i] = chain[at(i)]
    <3>1. Len(new) = Len(chain) - 1
      BY <1>1, <2>1, <2>3, <2>4, <2>5
    <3>2. ASSUME NEW i \in 1..Len(new) PROVE new[i] = chain[at(i)]
      <4>1. CASE i < p
        BY <4>1, <1>1, <2>3, <2>5
      <4>2. CASE ~(i < p)
        <5>1. i - (p - 1) \in 1..(Len(chain) - p) /\ p + (i - (p - 1)) = i + 1 /\ ~(i <= Len(a))
          BY <4>2, <1>1, <2>3, <3>1
        <5> QED
          BY <4>2, <5>1, <2>3, <2>4, <2>5
      <4> QED
        BY <4>1, <4>2
    <3> QED
      BY <3>1, <3>2
  <2>7. /\ \A i \in 2..Len(new) : at(i) \in 2..Len(chain) /\ at(i) # p
        /\ \A i, j \in 2..Len(new) : at(i) = at(j) => i = j
        /\ \A j \in 2..Len(chain) : j # p => \E i \in 2..Len(new) : at(i) = j
        /\ 1 \in 1..Len(new) /\ at(1) = 1
    <3>1. \A j \in 2..Len(chain) : j # p => \E i \in 2..Len(new) : at(i) = j
      <4> SUFFICES ASSUME NEW j \in 2..Len(chain), j # p PROVE \E i \in 2..Len(new) : at(i) = j
        OBVIOUS
      <4>1. CASE j < p
        <5>1. j \in 2..Len(new) /\ at(j) = j
          BY <4>1, <1>1, <2>6
        <5> QED
          BY <5>1
      <4>2. CASE j > p
        <5>1. j - 1 \in 2..Len(new) /\ at(j - 1) = j
          BY <4>2, <1>1, <2>6
        <5> QED
          BY <5>1
      <4> QED
        BY <4>1, <4>2
    <3> QED
      BY <3>1, <1>1, <2>1, <2>6
  <2> HIDE DEF at
  <2>8. Chain(new)
    <3>1. new[1] = chain[1] /\ Len(new) >= 1
      BY <2>5, <2>6, <2>7
    <3>2. \A i \in 2..Len(new) : i \in 1..Len(new) /\ new[i] = chain[at(i)] /\ at(i) \in 2..Len(chain)
      BY <2>6, <2>7
    <3>3. \A i \in 2..Len(new) : new[i] \in Link
      BY <3>2 DEF Chain
    <3>4. ASSUME NEW i \in 2..Len(new), NEW j \in 2..Len(new), new[i].key = new[j].key PROVE i = j
      <4>1. at(i) = at(j)
        BY <3>2, <3>4 DEF Chain
      <4> QED
        BY <4>1, <2>7
    <3> QED
      BY <2>5, <3>1, <3>3, <3>4 DEF Chain
  <2>9. \A i \in 2..Len(new) : new[i] = chain[at(i)]
    BY <2>6
  <2>10. KeysIn(new) = KeysIn(chain) \ {k}
    <3>1. ASSUME NEW x \in KeysIn(new) PROVE x \in KeysIn(chain) \ {k}
      <4>1. PICK i \in 2..Len(new) : x = new[i].key
        BY DEF KeysIn
      <4>2. at(i) \in 2..Len(chain) /\ at(i) # p /\ x = chain[at(i)].key
        BY <2>7, <2>9, <4>1
      <4>3. x # k
        BY <2>1, <4>2 DEF Chain
      <4> QED
        BY <4>2, <4>3 DEF KeysIn
    <3>2. ASSUME NEW x \in KeysIn(chain) \ {k} PROVE x \in KeysIn(new)
      <4>1. PICK j \in 2..Len(chain) : x = chain[j].key /\ j # p
        BY <2>1 DEF KeysIn
      <4>2. PICK i \in 2..Len(new) : at(i) = j
        BY <2>7, <4>1
      <4>3. x = new[i].key
        BY <2>9, <4>1, <4>2
      <4> QED
        BY <4>3 DEF KeysIn
    <3> QED
      BY <3>1, <3>2
  <2>11. ASSUME NEW x PROVE Find(new, x) = IF x = k THEN NULL ELSE Find(chain, x)
    <3>1. CASE x = ZeroKey \/ x \notin KeysIn(new)
      <4>1. Find(new, x) = NULL
        BY <3>1, <2>8, Found
      <4>2. x # k => Find(chain, x) = NULL
        BY <3>1, <2>10, Found
      <4> QED
        BY <4>1, <4>2
    <3>2. CASE x # ZeroKey /\ x \in KeysIn(new)
      <4>1. PICK i \in 2..Len(new) : new[i].key = x
        BY <3>2 DEF KeysIn
      <4>2. at(i) \in 2..Len(chain) /\ new[i] = chain[at(i)] /\ x # k
        BY <2>7, <2>9, <2>10, <3>2
      <4>3. Find(new, x) = new[i].value /\ Find(chain, x) = chain[at(i)].value
        BY <2>8, <3>2, <4>1, <4>2, Found
      <4> QED
        BY <4>2, <4>3
    <3> QED
      BY <3>1, <3>2
  <2> QED
    BY <1>3, <2>6, <2>8, <2>10, <2>11 DEF new
<1> QED
  BY <1>2, <1>3


-------------------------------------------------------------------------------
(* Tables. *)

Capacities == Size..(4 * (Size + Cardinality(Key)))

KeysOf(t) == {k \in Key : k \in KeysIn(t.chains[Slot(k, t.capacity)])}

\* A table that is in order.
Sound(t) ==
  /\ t = [capacity |-> t.capacity, size |-> t.size, chains |-> t.chains]
  /\ t.capacity \in Capacities
  /\ t.chains \in [1..t.capacity -> Seq(Any)]
  /\ \A i \in 1..t.capacity :
       \/ t.chains[i] = <<>>
       \/ /\ Chain(t.chains[i]) /\ Len(t.chains[i]) > 1
          /\ \A k \in KeysIn(t.chains[i]) : Slot(k, t.capacity) = i
  /\ t.size = Cardinality(KeysOf(t))

\* The capacities that occur.
LEMMA CapacityTypes ==
  /\ Cardinality(Key) \in Nat /\ Capacities \subseteq Nat \ {0} /\ Size \in Capacities
  /\ \A k \in Key, c \in Capacities : Slot(k, c) \in 1..c
<1>1. Cardinality(Key) \in Nat
  BY KeyAssumption, FS_CardinalityType
<1>2. Capacities \subseteq Nat \ {0} /\ Size \in Capacities
  BY <1>1, SizeAssumption DEF Capacities
<1> QED
  BY <1>1, <1>2, SlotAssumption DEF Capacities

\* The size counts keys.
LEMMA Counted ==
  ASSUME NEW t, Sound(t)
  PROVE  /\ IsFiniteSet(KeysOf(t)) /\ KeysOf(t) \subseteq Key
         /\ t.size \in Nat /\ t.size <= Cardinality(Key) /\ (t.size = 0 => KeysOf(t) = {})
<1>1. KeysOf(t) \in SUBSET Key
  BY DEF KeysOf
<1>2. IsFiniteSet(KeysOf(t)) /\ Cardinality(KeysOf(t)) <= Cardinality(Key)
  BY <1>1, KeyAssumption, FS_Subset
<1>3. Cardinality(KeysOf(t)) \in Nat
  BY <1>2, FS_CardinalityType
<1>4. Cardinality(KeysOf(t)) = 0 => KeysOf(t) = {}
  BY <1>2, FS_EmptySet
<1> QED
  BY <1>1, <1>2, <1>3, <1>4 DEF Sound

\* A key that is not in the table is not found, and neither is that of the heads.
LEMMA NotThere ==
  ASSUME NEW t, Sound(t), NEW k \in Key, k = ZeroKey \/ k \notin KeysOf(t)
  PROVE  Get(t, k) = NULL
<1> DEFINE chain == t.chains[Slot(k, t.capacity)]
<1>1. Slot(k, t.capacity) \in 1..t.capacity
  BY CapacityTypes DEF Sound
<1>2. k = ZeroKey \/ k \notin KeysIn(chain)
  BY DEF KeysOf
<1>3. CASE chain = <<>>
  BY <1>3, Nowhere DEF Get
<1>4. CASE chain # <<>>
  <2>1. Chain(chain)
    BY <1>1, <1>4 DEF Sound
  <2> QED
    BY <1>2, <2>1, Found DEF Get
<1> QED
  BY <1>3, <1>4

\* A new table is empty.
LEMMA NewSound ==
  ASSUME NEW c \in Capacities
  PROVE  /\ Sound(New(c)) /\ New(c).capacity = c /\ New(c).size = 0 /\ KeysOf(New(c)) = {}
         /\ \A k \in Key : Get(New(c), k) = NULL
<1> DEFINE t == New(c)
<1>1. /\ t = [capacity |-> c, size |-> 0, chains |-> [i \in 1..c |-> <<>>]]
      /\ t.capacity = c /\ t.size = 0 /\ t.chains = [i \in 1..c |-> <<>>]
  BY DEF New
<1> HIDE DEF t
<1>2. \A i \in 1..c : t.chains[i] = <<>>
  BY <1>1
<1>3. \A k \in Key : t.chains[Slot(k, c)] = <<>>
  BY <1>2, CapacityTypes
<1>4. KeysOf(t) = {}
  BY <1>1, <1>3, Nowhere DEF KeysOf
<1>5. t.chains \in [1..t.capacity -> Seq(Any)]
  BY <1>1
<1>6. t.size = Cardinality(KeysOf(t))
  BY <1>1, <1>4, FS_EmptySet
<1>7. Sound(t)
  BY <1>1, <1>2, <1>5, <1>6 DEF Sound
<1>8. \A k \in Key : Get(t, k) = NULL
  BY <1>1, <1>3, Nowhere DEF Get
<1> QED
  BY <1>1, <1>4, <1>7, <1>8 DEF t

\* One chain of a table is replaced.
LEMMA Replaced ==
  ASSUME NEW t, Sound(t), NEW i \in 1..t.capacity, NEW chain \in Seq(Any), NEW size,
         chain = <<>> \/ (/\ Chain(chain) /\ Len(chain) > 1
                          /\ \A k \in KeysIn(chain) : Slot(k, t.capacity) = i)
  PROVE  LET n == [capacity |-> t.capacity, size |-> size, chains |-> [t.chains EXCEPT ![i] = chain]]
         IN  /\ KeysOf(n) = {k \in Key : IF Slot(k, t.capacity) = i THEN k \in KeysIn(chain) ELSE k \in KeysOf(t)}
             /\ \A k \in Key : Get(n, k) = IF Slot(k, t.capacity) = i THEN Find(chain, k) ELSE Get(t, k)
             /\ size = Cardinality(KeysOf(n)) => Sound(n)
<1> DEFINE n == [capacity |-> t.capacity, size |-> size, chains |-> [t.chains EXCEPT ![i] = chain]]
<1>1. n.capacity = t.capacity /\ n.size = size /\ n.chains = [t.chains EXCEPT ![i] = chain]
  OBVIOUS
<1>2. n = [capacity |-> n.capacity, size |-> n.size, chains |-> n.chains]
  BY <1>1
<1> HIDE DEF n
<1>3. /\ n.chains \in [1..t.capacity -> Seq(Any)]
      /\ \A j \in 1..t.capacity : n.chains[j] = IF j = i THEN chain ELSE t.chains[j]
  BY <1>1 DEF Sound
<1>4. \A k \in Key : Slot(k, t.capacity) \in 1..t.capacity
  BY CapacityTypes DEF Sound
<1>5. KeysOf(n) = {k \in Key : IF Slot(k, t.capacity) = i THEN k \in KeysIn(chain) ELSE k \in KeysOf(t)}
  BY <1>1, <1>3, <1>4 DEF KeysOf
<1>6. \A k \in Key : Get(n, k) = IF Slot(k, t.capacity) = i THEN Find(chain, k) ELSE Get(t, k)
  BY <1>1, <1>3, <1>4 DEF Get
<1>7. ASSUME size = Cardinality(KeysOf(n)) PROVE Sound(n)
  <2>1. \A j \in 1..n.capacity :
          \/ n.chains[j] = <<>>
          \/ /\ Chain(n.chains[j]) /\ Len(n.chains[j]) > 1
             /\ \A k \in KeysIn(n.chains[j]) : Slot(k, n.capacity) = j
    BY <1>1, <1>3 DEF Sound
  <2>2. n.capacity \in Capacities
    BY <1>1 DEF Sound
  <2> QED
    BY <1>1, <1>2, <1>3, <1>7, <2>1, <2>2 DEF Sound
<1> QED
  BY <1>5, <1>6, <1>7 DEF n

\* A store into a table that has room: the key has the value, the others as before.
LEMMA SetSound ==
  ASSUME NEW t, Sound(t), NEW k \in Key, NEW v \in Value, t.size < t.capacity
  PROVE  LET n == Set(t, k, v)
         IN  /\ Sound(n) /\ n.capacity = t.capacity /\ n.size <= t.size + 1
             /\ KeysOf(n) = KeysOf(t) \cup {k}
             /\ \A x \in Key : Get(n, x) = IF x = ZeroKey THEN NULL ELSE IF x = k THEN v ELSE Get(t, x)
<1> DEFINE i == Slot(k, t.capacity)
           old == IF t.chains[i] = <<>> THEN Head0 ELSE t.chains[i]
           chain == Add(old, k, v)
           size == t.size + Len(chain) - Len(old)
           n == [capacity |-> t.capacity, size |-> size, chains |-> [t.chains EXCEPT ![i] = chain]]
<1>1. i \in 1..t.capacity /\ t.capacity \in Nat /\ t.size \in Nat
  BY CapacityTypes, Counted DEF Sound
<1>2. Set(t, k, v) = n
  <2>1. ~(t.size >= t.capacity)
    BY <1>1
  <2>2. Set(t, k, v) = [t EXCEPT !.chains[i] = chain, !.size = size]
    BY <2>1 DEF Set
  <2>3. t = [capacity |-> t.capacity, size |-> t.size, chains |-> t.chains]
    BY DEF Sound
  <2> HIDE DEF i, chain, size
  <2> QED
    BY <2>2, <2>3
<1>3. /\ Chain(old) /\ Len(old) \in Nat /\ \A x \in KeysIn(old) : Slot(x, t.capacity) = i
      /\ KeysIn(old) = KeysIn(t.chains[i]) /\ \A x : x # ZeroKey => Find(old, x) = Find(t.chains[i], x)
  <2>1. CASE t.chains[i] = <<>>
    <3>1. old = Head0 /\ KeysIn(t.chains[i]) = {} /\ \A x : Find(t.chains[i], x) = NULL
      BY <2>1, Nowhere
    <3> HIDE DEF old, i
    <3>2. Chain(old) /\ KeysIn(old) = {} /\ Len(old) = 1
      BY <3>1, HeadAlone
    <3>3. \A x : x # ZeroKey => Find(old, x) = NULL
      BY <3>2, Found
    <3> QED
      BY <3>1, <3>2, <3>3
  <2>2. CASE t.chains[i] # <<>>
    BY <2>2, <1>1 DEF Sound, Chain
  <2> QED
    BY <2>1, <2>2
<1> HIDE DEF old
<1>4. /\ Chain(chain) /\ KeysIn(chain) = KeysIn(old) \cup {k} /\ Len(chain) >= 2
      /\ Len(chain) = IF k \in KeysIn(old) THEN Len(old) ELSE Len(old) + 1
      /\ \A x : Find(chain, x) = IF x = ZeroKey THEN NULL ELSE IF x = k THEN v ELSE Find(old, x)
  BY <1>3, Added
<1>5. chain \in Seq(Any) /\ Len(chain) > 1 /\ \A x \in KeysIn(chain) : Slot(x, t.capacity) = i
  BY <1>3, <1>4 DEF Chain
<1> HIDE DEF chain
<1>6. /\ KeysOf(n) = {x \in Key : IF Slot(x, t.capacity) = i THEN x \in KeysIn(chain) ELSE x \in KeysOf(t)}
      /\ \A x \in Key : Get(n, x) = IF Slot(x, t.capacity) = i THEN Find(chain, x) ELSE Get(t, x)
      /\ size = Cardinality(KeysOf(n)) => Sound(n)
  <2> HIDE DEF i, size
  <2> QED
    BY <1>1, <1>4, <1>5, Replaced
<1>7. n.capacity = t.capacity /\ n.size = size
  OBVIOUS
<1> HIDE DEF n
<1>8. KeysOf(n) = KeysOf(t) \cup {k}
  BY <1>3, <1>4, <1>6 DEF KeysOf
<1>9. k \in KeysIn(old) <=> k \in KeysOf(t)
  BY <1>3 DEF KeysOf
<1>10. size = Cardinality(KeysOf(n)) /\ size <= t.size + 1
  <2>1. IsFiniteSet(KeysOf(t)) /\ t.size = Cardinality(KeysOf(t))
    BY Counted DEF Sound
  <2>2. Cardinality(KeysOf(n)) = IF k \in KeysOf(t) THEN t.size ELSE t.size + 1
    BY <1>8, <2>1, FS_AddElement
  <2> QED
    BY <1>1, <1>3, <1>4, <1>9, <2>2
<1>11. ASSUME NEW x \in Key
       PROVE  Get(n, x) = IF x = ZeroKey THEN NULL ELSE IF x = k THEN v ELSE Get(t, x)
  <2>1. CASE Slot(x, t.capacity) = i
    BY <2>1, <1>3, <1>4, <1>6 DEF Get
  <2>2. CASE Slot(x, t.capacity) # i
    <3>1. x # k /\ Get(n, x) = Get(t, x)
      BY <2>2, <1>6
    <3> QED
      BY <3>1, NotThere
  <2> QED
    BY <2>1, <2>2
<1> QED
  BY <1>2, <1>6, <1>7, <1>8, <1>10, <1>11

\* A key is removed, the others stay as before.
LEMMA DelSound ==
  ASSUME NEW t, Sound(t), NEW k \in Key
  PROVE  LET n == Del(t, k)
         IN  /\ Sound(n) /\ n.capacity = t.capacity /\ n.size <= t.size
             /\ \A x \in Key : Get(n, x) = IF x = k THEN NULL ELSE Get(t, x)
<1> DEFINE i == Slot(k, t.capacity)
           old == t.chains[i]
           rest == Without(old, k)
           chain == IF rest = Head0 THEN <<>> ELSE rest
           size == t.size - (Len(old) - Len(rest))
           n == [capacity |-> t.capacity, size |-> size, chains |-> [t.chains EXCEPT ![i] = chain]]
<1>1. i \in 1..t.capacity /\ t.capacity \in Nat /\ t.size \in Nat
  BY CapacityTypes, Counted DEF Sound
<1>2. CASE t.size = 0 \/ old = <<>>
  <2>1. Del(t, k) = t
    BY <1>2 DEF Del
  <2>2. k \notin KeysOf(t)
    BY <1>2, Counted, Nowhere DEF KeysOf
  <2>3. Get(t, k) = NULL
    BY <2>2, NotThere
  <2> QED
    BY <1>1, <2>1, <2>3
<1>3. CASE ~(t.size = 0 \/ old = <<>>)
  <2>1. Del(t, k) = n
    <3>1. Del(t, k) = [t EXCEPT !.chains[i] = chain, !.size = size]
      BY <1>3 DEF Del
    <3>2. t = [capacity |-> t.capacity, size |-> t.size, chains |-> t.chains]
      BY DEF Sound
    <3> HIDE DEF i, chain, size
    <3> QED
      BY <3>1, <3>2
  <2>2. Chain(old) /\ Len(old) \in Nat /\ \A x \in KeysIn(old) : Slot(x, t.capacity) = i
    BY <1>1, <1>3 DEF Sound, Chain
  <2>3. /\ Chain(rest) /\ KeysIn(rest) = KeysIn(old) \ {k}
        /\ Len(rest) = IF k \in KeysIn(old) THEN Len(old) - 1 ELSE Len(old)
        /\ \A x : Find(rest, x) = IF x = k THEN NULL ELSE Find(old, x)
    <3> HIDE DEF old
    <3> QED
      BY <2>2, Removed
  <2>4. /\ k \in KeysIn(old) <=> k \in KeysOf(t)
        /\ \A x \in Key : Slot(x, t.capacity) = i => Get(t, x) = Find(old, x)
    BY DEF KeysOf, Get
  <2>5. \A x \in Key : Slot(x, t.capacity) = i => (x \in KeysOf(t) <=> x \in KeysIn(old))
    BY DEF KeysOf
  <2> HIDE DEF old, rest
  <2>6. /\ chain \in Seq(Any) /\ KeysIn(chain) = KeysIn(rest)
        /\ \A x : x # ZeroKey => Find(chain, x) = Find(rest, x)
        /\ Find(chain, ZeroKey) = NULL
        /\ \/ chain = <<>>
           \/ Chain(chain) /\ Len(chain) > 1 /\ \A x \in KeysIn(chain) : Slot(x, t.capacity) = i
    <3>1. CASE rest = Head0
      <4>1. chain = <<>> /\ <<>> \in Seq(Any)
        BY <3>1
      <4> QED
        BY <3>1, <4>1, HeadAlone, Nowhere, Found
    <3>2. CASE rest # Head0
      <4>1. chain = rest
        BY <3>2
      <4>2. Len(rest) > 1
        <5>1. Chain(rest)
          BY <2>3
        <5>2. rest # Head0
          BY <3>2
        <5> QED
          BY <5>1, <5>2, Longer
      <4> QED
        BY <2>2, <2>3, <4>1, <4>2, Found DEF Chain
    <3> QED
      BY <3>1, <3>2
  <2> HIDE DEF chain
  <2>7. /\ KeysOf(n) = {x \in Key : IF Slot(x, t.capacity) = i THEN x \in KeysIn(chain) ELSE x \in KeysOf(t)}
        /\ \A x \in Key : Get(n, x) = IF Slot(x, t.capacity) = i THEN Find(chain, x) ELSE Get(t, x)
        /\ size = Cardinality(KeysOf(n)) => Sound(n)
    <3> HIDE DEF i, size
    <3> QED
      BY <1>1, <2>6, Replaced
  <2>8. n.capacity = t.capacity /\ n.size = size
    OBVIOUS
  <2> HIDE DEF n
  <2>9. KeysOf(n) = KeysOf(t) \ {k}
    <3>1. KeysOf(t) \subseteq Key
      BY DEF KeysOf
    <3> QED
      BY <3>1, <2>3, <2>5, <2>6, <2>7
  <2>10. size = Cardinality(KeysOf(n)) /\ size <= t.size
    <3>1. IsFiniteSet(KeysOf(t)) /\ t.size = Cardinality(KeysOf(t))
      BY Counted DEF Sound
    <3>2. Cardinality(KeysOf(n)) = IF k \in KeysOf(t) THEN t.size - 1 ELSE t.size
      BY <2>9, <3>1, FS_RemoveElement
    <3> QED
      BY <1>1, <2>2, <2>3, <2>4, <3>2
  <2>11. ASSUME NEW x \in Key PROVE Get(n, x) = IF x = k THEN NULL ELSE Get(t, x)
    <3>1. CASE Slot(x, t.capacity) = i /\ x # ZeroKey
      BY <3>1, <2>3, <2>4, <2>6, <2>7
    <3>2. CASE Slot(x, t.capacity) = i /\ x = ZeroKey
      BY <3>2, <2>6, <2>7, NotThere
    <3>3. CASE Slot(x, t.capacity) # i
      BY <3>3, <2>7
    <3> QED
      BY <3>1, <3>2, <3>3
  <2> QED
    BY <2>1, <2>7, <2>8, <2>10, <2>11
<1> QED
  BY <1>2, <1>3

-------------------------------------------------------------------------------
(* The table is doubled. *)

\* The links of a chain are stored one after the other.
LEMMA MoveChainIs ==
  ASSUME NEW new, NEW chain, Len(chain) \in Nat
  PROVE  \E g : /\ g[0] = new /\ MoveChain(new, chain) = g[Len(chain)]
                /\ \A j \in 1..Len(chain) :
                     g[j] = IF j = 1 \/ chain[j].value = NULL THEN g[j - 1]
                            ELSE Set(g[j - 1], chain[j].key, chain[j].value)
<1> DEFINE More(j, t) == IF j = 1 \/ chain[j].value = NULL THEN t ELSE Set(t, chain[j].key, chain[j].value)
           Is(k, g) == g = [j \in 0..k |-> IF j = 0 THEN new ELSE More(j, g[j - 1])]
           Short == {k \in Nat : ~\E g : Is(k, g)}
<1> HIDE DEF Is, More
<1>1. Short = {}
  <2> SUFFICES ASSUME Short # {} PROVE FALSE
    OBVIOUS
  <2>1. PICK m \in Short : \A n \in Short : m <= n
    BY Least
  <2>2. m \in Nat /\ m # 0
    <3>1. Is(0, [j \in 0..0 |-> new])
      BY DEF Is
    <3> QED
      BY <2>1, <3>1
  <2>3. m - 1 \in Nat /\ m - 1 \notin Short
    <3> HIDE DEF Short
    <3> QED
      BY <2>1, <2>2
  <2>4. PICK g : Is(m - 1, g)
    BY <2>3
  <2> DEFINE h == [j \in 0..m |-> IF j < m THEN g[j] ELSE More(j, g[j - 1])]
  <2> HIDE DEF Short
  <2>5. \A j \in 0..m : j # 0 => h[j - 1] = g[j - 1]
    BY <2>2
  <2>6. \A j \in 0..m : h[j] = IF j = 0 THEN new ELSE More(j, g[j - 1])
    BY <2>2, <2>4 DEF Is
  <2>7. Is(m, h)
    <3>1. h = [j \in 0..m |-> h[j]]
      OBVIOUS
    <3> HIDE DEF h
    <3>2. \A j \in 0..m : h[j] = IF j = 0 THEN new ELSE More(j, h[j - 1])
      BY <2>5, <2>6
    <3> QED
      BY <3>1, <3>2 DEF Is
  <2> QED
    BY <2>1, <2>7 DEF Short
<1>2. \E g : Is(Len(chain), g)
  BY <1>1
<1> DEFINE G == CHOOSE g : Is(Len(chain), g)
<1>3. Is(Len(chain), G)
  BY <1>2
<1>4. MoveChain(new, chain) = G[Len(chain)]
  BY DEF MoveChain, Is, More
<1> HIDE DEF G
<1>5. G = [j \in 0..Len(chain) |-> IF j = 0 THEN new ELSE More(j, G[j - 1])]
  BY <1>3 DEF Is
<1>6. G[0] = new /\ \A j \in 1..Len(chain) : G[j] = More(j, G[j - 1])
  <2>1. \A j \in 0..Len(chain) : G[j] = IF j = 0 THEN new ELSE More(j, G[j - 1])
    BY <1>5
  <2>2. 0 \in 0..Len(chain) /\ \A j \in 1..Len(chain) : j \in 0..Len(chain) /\ j # 0
    OBVIOUS
  <2> QED
    BY <2>1, <2>2
<1> QED
  BY <1>4, <1>6 DEF More

\* The same for the chains of a table.
LEMMA DoubledIs ==
  ASSUME NEW t, t.capacity \in Nat
  PROVE  \E g : /\ g[0] = New(2 * t.capacity) /\ Doubled(t) = g[t.capacity]
                /\ \A i \in 1..t.capacity : g[i] = MoveChain(g[i - 1], t.chains[i])
<1> DEFINE new == New(2 * t.capacity)
           More(i, s) == MoveChain(s, t.chains[i])
           Is(k, g) == g = [i \in 0..k |-> IF i = 0 THEN new ELSE More(i, g[i - 1])]
           Short == {k \in Nat : ~\E g : Is(k, g)}
<1> HIDE DEF Is, More, new
<1>1. Short = {}
  <2> SUFFICES ASSUME Short # {} PROVE FALSE
    OBVIOUS
  <2>1. PICK m \in Short : \A n \in Short : m <= n
    BY Least
  <2>2. m \in Nat /\ m # 0
    <3>1. Is(0, [i \in 0..0 |-> new])
      BY DEF Is
    <3> QED
      BY <2>1, <3>1
  <2>3. m - 1 \in Nat /\ m - 1 \notin Short
    <3> HIDE DEF Short
    <3> QED
      BY <2>1, <2>2
  <2>4. PICK g : Is(m - 1, g)
    BY <2>3
  <2> DEFINE h == [i \in 0..m |-> IF i < m THEN g[i] ELSE More(i, g[i - 1])]
  <2> HIDE DEF Short
  <2>5. \A i \in 0..m : i # 0 => h[i - 1] = g[i - 1]
    BY <2>2
  <2>6. \A i \in 0..m : h[i] = IF i = 0 THEN new ELSE More(i, g[i - 1])
    BY <2>2, <2>4 DEF Is
  <2>7. Is(m, h)
    <3>1. h = [i \in 0..m |-> h[i]]
      OBVIOUS
    <3> HIDE DEF h
    <3>2. \A i \in 0..m : h[i] = IF i = 0 THEN new ELSE More(i, h[i - 1])
      BY <2>5, <2>6
    <3> QED
      BY <3>1, <3>2 DEF Is
  <2> QED
    BY <2>1, <2>7 DEF Short
<1>2. \E g : Is(t.capacity, g)
  BY <1>1
<1> DEFINE G == CHOOSE g : Is(t.capacity, g)
<1>3. Is(t.capacity, G)
  BY <1>2
<1>4. Doubled(t) = G[t.capacity]
  BY DEF Doubled, Is, More, new
<1> HIDE DEF G
<1>5. G = [i \in 0..t.capacity |-> IF i = 0 THEN new ELSE More(i, G[i - 1])]
  BY <1>3 DEF Is
<1>6. G[0] = new /\ \A i \in 1..t.capacity : G[i] = More(i, G[i - 1])
  <2>1. \A i \in 0..t.capacity : G[i] = IF i = 0 THEN new ELSE More(i, G[i - 1])
    BY <1>5
  <2>2. 0 \in 0..t.capacity /\ \A i \in 1..t.capacity : i \in 0..t.capacity /\ i # 0
    OBVIOUS
  <2> QED
    BY <2>1, <2>2
<1> QED
  BY <1>4, <1>6 DEF More, new

\* From a chain that is not in use, nothing is stored.
LEMMA NoneMoved == ASSUME NEW new PROVE MoveChain(new, <<>>) = new
<1> DEFINE chain == <<>>
<1>1. Len(chain) = 0 /\ Len(chain) \in Nat
  OBVIOUS
<1> HIDE DEF chain
<1>2. \E g : g[0] = new /\ MoveChain(new, chain) = g[Len(chain)]
  <2>1. PICK g : /\ g[0] = new /\ MoveChain(new, chain) = g[Len(chain)]
                 /\ \A j \in 1..Len(chain) :
                      g[j] = IF j = 1 \/ chain[j].value = NULL THEN g[j - 1]
                             ELSE Set(g[j - 1], chain[j].key, chain[j].value)
    BY <1>1, MoveChainIs
  <2> QED
    BY <2>1
<1>3. MoveChain(new, chain) = new
  BY <1>1, <1>2
<1> QED
  BY <1>3 DEF chain

\* The entries of a chain are stored in a table that has room for them: each is found
\* there, unless it is NULL, and the others as before.
LEMMA ChainMoved ==
  ASSUME NEW m, Sound(m), NEW K \in SUBSET Key, KeysOf(m) \subseteq K, Cardinality(K) < m.capacity,
         NEW chain, Chain(chain), KeysIn(chain) \subseteq K
  PROVE  LET n == MoveChain(m, chain)
         IN  /\ Sound(n) /\ n.capacity = m.capacity /\ KeysOf(n) \subseteq K
             /\ \A x \in Key : Get(n, x) = IF x # ZeroKey /\ x \in KeysIn(chain) /\ Find(chain, x) # NULL
                                             THEN Find(chain, x)
                                             ELSE Get(m, x)
<1>1. Len(chain) \in Nat /\ Len(chain) >= 1
  BY DEF Chain
<1>2. PICK g : /\ g[0] = m /\ MoveChain(m, chain) = g[Len(chain)]
               /\ \A j \in 1..Len(chain) :
                    g[j] = IF j = 1 \/ chain[j].value = NULL THEN g[j - 1]
                           ELSE Set(g[j - 1], chain[j].key, chain[j].value)
  BY <1>1, MoveChainIs
<1> DEFINE Stored(j, x) == x # ZeroKey /\ \E i \in 2..j : chain[i].key = x /\ chain[i].value # NULL
           Right(j) == /\ Sound(g[j]) /\ g[j].capacity = m.capacity /\ KeysOf(g[j]) \subseteq K
                       /\ \A x \in Key : Get(g[j], x) = IF Stored(j, x) THEN Find(chain, x) ELSE Get(m, x)
           Wrong == {j \in Nat : j <= Len(chain) /\ ~Right(j)}
<1>3. Right(0)
  BY <1>2
<1> HIDE DEF Right
<1>4. ASSUME NEW j \in 1..Len(chain), Right(j - 1) PROVE Right(j)
  <2>1. \A x : Stored(j, x) <=> \/ Stored(j - 1, x)
                                \/ x # ZeroKey /\ j # 1 /\ chain[j].key = x /\ chain[j].value # NULL
    <3>1. \A i \in 2..j : (i = j /\ j # 1) \/ i \in 2..(j - 1)
      OBVIOUS
    <3>2. (j # 1 => j \in 2..j) /\ \A i \in 2..(j - 1) : i \in 2..j
      OBVIOUS
    <3> QED
      BY <3>1, <3>2
  <2> HIDE DEF Stored
  <2>2. CASE j = 1 \/ chain[j].value = NULL
    <3>1. g[j] = g[j - 1]
      BY <1>2, <2>2
    <3>2. \A x : Stored(j, x) <=> Stored(j - 1, x)
      BY <2>1, <2>2
    <3> QED
      BY <1>4, <3>1, <3>2 DEF Right
  <2>3. CASE ~(j = 1 \/ chain[j].value = NULL)
    <3>1. g[j] = Set(g[j - 1], chain[j].key, chain[j].value)
      BY <1>2, <2>3
    <3>2. j \in 2..Len(chain)
      BY <2>3
    <3>3. chain[j].key \in Key /\ chain[j].value \in Value /\ chain[j].key \in K
      BY <3>2 DEF Chain, Link, KeysIn
    <3> DEFINE k == chain[j].key
               v == chain[j].value
               s == g[j - 1]
    <3>4. Sound(s) /\ s.capacity = m.capacity /\ KeysOf(s) \subseteq K
      BY <1>4 DEF Right
    <3>5. s.size < s.capacity
      <4>1. IsFiniteSet(K)
        BY KeyAssumption, FS_Subset
      <4>2. Cardinality(KeysOf(s)) <= Cardinality(K)
        BY <3>4, <4>1, FS_Subset
      <4>3. s.size = Cardinality(KeysOf(s)) /\ s.size \in Nat
        BY <3>4, Counted DEF Sound
      <4>4. Cardinality(K) \in Nat /\ m.capacity \in Nat
        BY <4>1, FS_CardinalityType, CapacityTypes DEF Sound
      <4> HIDE DEF s
      <4> QED
        BY <3>4, <4>2, <4>3, <4>4
    <3> HIDE DEF k, v, s
    <3>6. k \in Key /\ v \in Value /\ k \in K /\ g[j] = Set(s, k, v)
      BY <3>1, <3>3 DEF k, v, s
    <3>7. /\ Sound(g[j]) /\ g[j].capacity = s.capacity /\ KeysOf(g[j]) = KeysOf(s) \cup {k}
          /\ \A x \in Key : Get(g[j], x) = IF x = ZeroKey THEN NULL ELSE IF x = k THEN v ELSE Get(s, x)
      BY <3>4, <3>5, <3>6, SetSound
    <3>8. Find(chain, k) = v \/ k = ZeroKey
      BY <3>2, Found DEF k, v
    <3>9. ASSUME NEW x \in Key
          PROVE  Get(g[j], x) = IF Stored(j, x) THEN Find(chain, x) ELSE Get(m, x)
      <4>1. Get(s, x) = IF Stored(j - 1, x) THEN Find(chain, x) ELSE Get(m, x)
        BY <1>4 DEF Right, s
      <4>2. CASE x = ZeroKey
        <5>1. Get(m, x) = NULL /\ ~Stored(j, x)
          BY <4>2, NotThere DEF Stored
        <5> QED
          BY <3>7, <4>2, <5>1
      <4>3. CASE x # ZeroKey /\ x = k
        <5>1. Stored(j, x)
          BY <2>1, <2>3, <4>3 DEF k
        <5> QED
          BY <3>7, <3>8, <4>3, <5>1
      <4>4. CASE x # ZeroKey /\ x # k
        <5>1. Stored(j, x) <=> Stored(j - 1, x)
          BY <2>1, <4>4 DEF k
        <5> QED
          BY <3>7, <4>1, <4>4, <5>1
      <4> QED
        BY <4>2, <4>3, <4>4
    <3> QED
      BY <3>4, <3>6, <3>7, <3>9 DEF Right
  <2> QED
    BY <2>2, <2>3
<1>5. Wrong = {}
  <2> SUFFICES ASSUME Wrong # {} PROVE FALSE
    OBVIOUS
  <2>1. PICK j \in Wrong : \A i \in Wrong : j <= i
    BY Least
  <2>2. j \in 1..Len(chain)
    BY <1>1, <1>3, <2>1
  <2>3. j - 1 \in Nat /\ j - 1 <= Len(chain) /\ j - 1 \notin Wrong
    <3>1. j - 1 \in Nat /\ j - 1 <= Len(chain) /\ ~(j <= j - 1)
      BY <1>1, <2>2
    <3> QED
      BY <2>1, <3>1
  <2> QED
    BY <1>4, <2>1, <2>2, <2>3
<1>6. Right(Len(chain))
  BY <1>1, <1>5
<1>7. ASSUME NEW x \in Key
      PROVE  Stored(Len(chain), x) <=> x # ZeroKey /\ x \in KeysIn(chain) /\ Find(chain, x) # NULL
  <2>1. CASE x = ZeroKey
    BY <2>1
  <2>2. CASE x # ZeroKey
    <3>1. \A i \in 2..Len(chain) : chain[i].key = x => Find(chain, x) = chain[i].value
      BY <2>2, Found
    <3> QED
      BY <2>2, <3>1 DEF KeysIn
  <2> QED
    BY <2>1, <2>2
<1> HIDE DEF Stored
<1> QED
  BY <1>2, <1>6, <1>7 DEF Right

\* The table of twice the capacity is in order, and every key is found in it as before.
LEMMA DoubledSound ==
  ASSUME NEW t, Sound(t), t.size <= t.capacity, IsFull(t)
  PROVE  LET n == Doubled(t)
         IN  /\ Sound(n) /\ n.capacity = 2 * t.capacity /\ n.size <= t.size
             /\ \A x \in Key : Get(n, x) = Get(t, x)
<1> DEFINE c == t.capacity
           K == KeysOf(t)
<1>1. c \in Nat \ {0} /\ c \in Capacities /\ t.chains \in [1..c -> Seq(Any)]
  BY CapacityTypes DEF Sound
<1>2. K \in SUBSET Key /\ IsFiniteSet(K) /\ Cardinality(K) = t.size /\ t.size \in Nat /\ t.size <= Cardinality(Key)
  BY Counted DEF Sound
<1>3. 2 * c \in Capacities
  <2>1. t.size >= (3 * c) \div 4
    BY DEF IsFull
  <2> DEFINE q == (3 * c) \div 4
  <2>2. q \in Nat /\ 3 * c < 4 * q + 4
    BY <1>1
  <2> HIDE DEF q
  <2>3. q <= Cardinality(Key)
    BY <1>2, <2>1, <2>2, CapacityTypes DEF q
  <2>4. 2 * c <= 4 * (Size + Cardinality(Key))
    BY <1>1, <2>2, <2>3, SizeAssumption, CapacityTypes
  <2>5. Size <= 2 * c /\ 2 * c \in Nat /\ Size \in Nat
    BY <1>1, SizeAssumption DEF Capacities
  <2> QED
    BY <2>4, <2>5, CapacityTypes DEF Capacities
<1>4. Cardinality(K) < 2 * c
  BY <1>1, <1>2
<1>5. PICK g : /\ g[0] = New(2 * c) /\ Doubled(t) = g[c]
               /\ \A i \in 1..c : g[i] = MoveChain(g[i - 1], t.chains[i])
  BY <1>1, DoubledIs
<1> DEFINE Right(i) == /\ Sound(g[i]) /\ g[i].capacity = 2 * c /\ KeysOf(g[i]) \subseteq K
                       /\ \A x \in Key : Get(g[i], x) = IF Slot(x, c) <= i THEN Get(t, x) ELSE NULL
           Wrong == {i \in Nat : i <= c /\ ~Right(i)}
<1>6. \A x \in Key : Slot(x, c) \in 1..c
  BY <1>1, CapacityTypes
<1> HIDE DEF c, K
<1>7. Right(0)
  <2>1. \A x \in Key : ~(Slot(x, c) <= 0)
    BY <1>1, <1>6
  <2> QED
    BY <1>3, <1>5, <2>1, NewSound
<1> HIDE DEF Right
<1>8. ASSUME NEW i \in 1..c, Right(i - 1) PROVE Right(i)
  <2> DEFINE s == g[i - 1]
             chain == t.chains[i]
  <2>1. /\ Sound(s) /\ s.capacity = 2 * c /\ KeysOf(s) \subseteq K
        /\ \A x \in Key : Get(s, x) = IF Slot(x, c) <= i - 1 THEN Get(t, x) ELSE NULL
    BY <1>8 DEF Right
  <2>2. g[i] = MoveChain(s, chain)
    BY <1>5
  <2>3. \A x \in Key : Slot(x, c) <= i <=> Slot(x, c) <= i - 1 \/ Slot(x, c) = i
    BY <1>6
  <2>4. \A x \in Key : Slot(x, c) = i => Get(t, x) = Find(chain, x) /\ ~(Slot(x, c) <= i - 1)
    BY DEF Get, c
  <2>5. CASE chain = <<>>
    <3>1. g[i] = s
      <4> HIDE DEF s, chain
      <4> QED
        BY <2>2, <2>5, NoneMoved
    <3>2. \A x \in Key : Slot(x, c) = i => Get(t, x) = NULL
      BY <2>4, <2>5, Nowhere
    <3>3. \A x \in Key : Get(s, x) = IF Slot(x, c) <= i THEN Get(t, x) ELSE NULL
      BY <2>1, <2>3, <2>4, <3>2
    <3> QED
      BY <2>1, <3>1, <3>3 DEF Right
  <2>6. CASE chain # <<>>
    <3>1. Chain(chain) /\ \A k \in KeysIn(chain) : Slot(k, c) = i
      BY <2>6 DEF Sound, c
    <3>2. KeysIn(chain) \subseteq K
      <4> SUFFICES ASSUME NEW k \in KeysIn(chain) PROVE k \in K
        OBVIOUS
      <4>1. k \in Key /\ Slot(k, c) = i
        BY <3>1 DEF KeysIn, Chain, Link
      <4> QED
        BY <4>1 DEF K, KeysOf, c
    <3> HIDE DEF s, chain
    <3>3. /\ Sound(g[i]) /\ g[i].capacity = 2 * c /\ KeysOf(g[i]) \subseteq K
          /\ \A x \in Key : Get(g[i], x) = IF x # ZeroKey /\ x \in KeysIn(chain) /\ Find(chain, x) # NULL
                                             THEN Find(chain, x)
                                             ELSE Get(s, x)
      BY <1>2, <1>4, <2>1, <2>2, <3>1, <3>2, ChainMoved
    <3>4. ASSUME NEW x \in Key PROVE Get(g[i], x) = IF Slot(x, c) <= i THEN Get(t, x) ELSE NULL
      <4>1. CASE Slot(x, c) = i
        <5>1. Get(t, x) = Find(chain, x) /\ Get(s, x) = NULL /\ Slot(x, c) <= i
          BY <2>1, <2>3, <2>4, <4>1
        <5>2. x = ZeroKey \/ x \notin KeysIn(chain) => Find(chain, x) = NULL
          BY <3>1, Found
        <5> QED
          BY <3>3, <5>1, <5>2
      <4>2. CASE Slot(x, c) # i
        <5>1. x \notin KeysIn(chain)
          BY <3>1, <4>2
        <5> QED
          BY <2>1, <2>3, <3>3, <4>2, <5>1
      <4> QED
        BY <4>1, <4>2
    <3> QED
      BY <3>3, <3>4 DEF Right
  <2> QED
    BY <2>5, <2>6
<1>9. Wrong = {}
  <2> SUFFICES ASSUME Wrong # {} PROVE FALSE
    OBVIOUS
  <2>1. PICK i \in Wrong : \A j \in Wrong : i <= j
    BY Least
  <2>2. i \in 1..c
    BY <1>1, <1>7, <2>1
  <2>3. i - 1 \in Nat /\ i - 1 <= c /\ i - 1 \notin Wrong
    <3>1. i - 1 \in Nat /\ i - 1 <= c /\ ~(i <= i - 1)
      BY <1>1, <2>2
    <3> QED
      BY <2>1, <3>1
  <2> QED
    BY <1>8, <2>1, <2>2, <2>3
<1>10. Right(c)
  BY <1>1, <1>9
<1>11. \A x \in Key : Get(g[c], x) = Get(t, x)
  <2>1. \A x \in Key : Slot(x, c) <= c
    BY <1>1, <1>6
  <2> QED
    BY <1>10, <2>1 DEF Right
<1>12. g[c].size <= t.size
  <2>1. Sound(g[c]) /\ KeysOf(g[c]) \in SUBSET K
    BY <1>10 DEF Right
  <2>2. Cardinality(KeysOf(g[c])) <= Cardinality(K)
    BY <1>2, <2>1, FS_Subset
  <2>3. g[c].size = Cardinality(KeysOf(g[c]))
    BY <2>1 DEF Sound
  <2> QED
    BY <1>2, <2>2, <2>3
<1> QED
  BY <1>5, <1>10, <1>11, <1>12 DEF Right, c

-------------------------------------------------------------------------------
(* The lookup. *)

IInv == Sound(table) /\ table.size <= table.capacity

\* A new key finds room: the table is doubled before it is at its capacity.
LEMMA Room ==
  ASSUME IInv
  PROVE  LET t == IF IsFull(table) THEN Doubled(table) ELSE table
         IN  /\ Sound(t) /\ t.size < t.capacity
             /\ \A x \in Key : Get(t, x) = Get(table, x)
<1>1. Sound(table) /\ table.size <= table.capacity /\ table.size \in Nat /\ table.capacity \in Nat \ {0}
  BY Counted, CapacityTypes DEF IInv, Sound
<1>2. CASE IsFull(table)
  <2>1. /\ Sound(Doubled(table)) /\ Doubled(table).capacity = 2 * table.capacity
        /\ Doubled(table).size <= table.size /\ \A x \in Key : Get(Doubled(table), x) = Get(table, x)
    BY <1>1, <1>2, DoubledSound
  <2>2. Doubled(table).size \in Nat
    BY <2>1, Counted
  <2>3. Doubled(table).size < Doubled(table).capacity
    BY <1>1, <2>1, <2>2
  <2> QED
    BY <1>2, <2>1, <2>3
<1>3. CASE ~IsFull(table)
  <2>1. ~(table.size >= (3 * table.capacity) \div 4)
    BY <1>3 DEF IsFull
  <2>2. (3 * table.capacity) \div 4 \in Nat /\ (3 * table.capacity) \div 4 <= table.capacity
    BY <1>1
  <2>3. table.size < table.capacity
    BY <1>1, <2>1, <2>2
  <2> QED
    BY <1>1, <1>3, <2>3
<1> QED
  BY <1>2, <1>3

\* What the calls that change the table do to it.
LEMMA SetDoes ==
  ASSUME IInv, NEW k \in Key, NEW v \in Value, LookupSet(k, v)
  PROVE  IInv' /\ \A x \in Key : Get(table', x) = IF x = ZeroKey THEN NULL ELSE IF x = k THEN v ELSE Get(table, x)
<1> DEFINE t == IF IsFull(table) THEN Doubled(table) ELSE table
<1>1. table' = Set(t, k, v)
  BY DEF LookupSet
<1>2. Sound(t) /\ t.size < t.capacity /\ \A x \in Key : Get(t, x) = Get(table, x)
  BY Room
<1> HIDE DEF t
<1>3. /\ Sound(table') /\ table'.capacity = t.capacity /\ table'.size <= t.size + 1
      /\ \A x \in Key : Get(table', x) = IF x = ZeroKey THEN NULL ELSE IF x = k THEN v ELSE Get(t, x)
  BY <1>1, <1>2, SetSound
<1>4. table'.size \in Nat /\ t.size \in Nat /\ t.capacity \in Nat
  BY <1>2, <1>3, Counted, CapacityTypes DEF Sound
<1>5. table'.size <= table'.capacity
  BY <1>2, <1>3, <1>4
<1> QED
  BY <1>2, <1>3, <1>5 DEF IInv

\* A delete removes the key and nothing else.
LEMMA DelDoes ==
  ASSUME IInv, NEW k \in Key, LookupDel(k)
  PROVE  IInv' /\ \A x \in Key : Get(table', x) = IF x = k THEN NULL ELSE Get(table, x)
<1>1. table' = Del(table, k) /\ Sound(table) /\ table.size <= table.capacity
  BY DEF LookupDel, IInv
<1>2. /\ Sound(table') /\ table'.capacity = table.capacity /\ table'.size <= table.size
      /\ \A x \in Key : Get(table', x) = IF x = k THEN NULL ELSE Get(table, x)
  BY <1>1, DelSound
<1>3. table'.size \in Nat /\ table.size \in Nat /\ table.capacity \in Nat
  BY <1>1, <1>2, Counted, CapacityTypes DEF Sound
<1>4. table'.size <= table'.capacity
  BY <1>1, <1>2, <1>3
<1> QED
  BY <1>2, <1>4 DEF IInv

\* Clearing leaves nothing to be found.
LEMMA ClearDoes ==
  ASSUME IInv, LookupClear
  PROVE  IInv' /\ \A x \in Key : Get(table', x) = NULL
<1>1. table' = New(table.capacity) /\ table.capacity \in Capacities
  BY DEF LookupClear, IInv, Sound
<1>2. Sound(table') /\ table'.capacity = table.capacity /\ table'.size = 0 /\ \A x \in Key : Get(table', x) = NULL
  BY <1>1, NewSound
<1>3. table.capacity \in Nat
  BY <1>1, CapacityTypes
<1>4. table'.size <= table'.capacity
  BY <1>2, <1>3
<1> QED
  BY <1>2, <1>4 DEF IInv

\* The table starts in order, with nothing in it.
LEMMA InitOK == Init => IInv /\ \A x \in Key : Get(table, x) = NULL
<1> SUFFICES ASSUME Init PROVE IInv /\ \A x \in Key : Get(table, x) = NULL
  OBVIOUS
<1>1. table = New(Size)
  BY DEF Init
<1>2. Sound(table) /\ table.capacity = Size /\ table.size = 0 /\ \A x \in Key : Get(table, x) = NULL
  BY <1>1, CapacityTypes, NewSound
<1>3. table.size <= table.capacity
  BY <1>2, SizeAssumption
<1> QED
  BY <1>2, <1>3 DEF IInv

\* Every call of the lookup leaves the table in order.
LEMMA StepOK == IInv /\ [Next]_vars => IInv'
<1> SUFFICES ASSUME IInv, [Next]_vars PROVE IInv'
  OBVIOUS
<1>1. ASSUME NEW k \in Key, LookupGet(k) PROVE IInv'
  BY <1>1 DEF LookupGet, IInv
<1>2. ASSUME NEW k \in Key, LookupDel(k) PROVE IInv'
  BY <1>2, DelDoes
<1>3. ASSUME NEW k \in Key, NEW v \in Value, LookupSet(k, v) PROVE IInv'
  BY <1>3, SetDoes
<1>4. CASE LookupClear
  BY <1>4, ClearDoes
<1>5. CASE UNCHANGED vars
  BY <1>5 DEF vars, IInv
<1> QED
  BY <1>1, <1>2, <1>3, <1>4, <1>5 DEF Next

\* The table is always in order, with no more keys than it has slots.
THEOREM Invariance == Spec => []IInv
BY InitOK, StepOK, PTL DEF Spec

\* A chain is no longer than there are keys.
LEMMA ChainLength ==
  ASSUME NEW chain, Chain(chain) PROVE Len(chain) <= Cardinality(Key) + 1
<1>1. Len(chain) \in Nat /\ Len(chain) >= 1
  BY DEF Chain
<1> DEFINE f == [i \in 2..Len(chain) |-> chain[i].key]
<1>2. \A i \in 2..Len(chain) : chain[i].key \in Key
  BY DEF Chain, Link
<1>3. f \in Injection(2..Len(chain), Key)
  BY <1>2 DEF Chain, Injection, IsInjective
<1> HIDE DEF f
<1>4. Cardinality(2..Len(chain)) <= Cardinality(Key)
  BY <1>3, KeyAssumption, FS_Injection
<1>5. Cardinality(2..Len(chain)) = IF 2 > Len(chain) THEN 0 ELSE Len(chain) - 2 + 1
  BY <1>1, FS_Interval
<1> DEFINE l == Len(chain)
           N == Cardinality(Key)
           S == Cardinality(2..Len(chain))
<1>6. l \in Nat /\ l >= 1 /\ N \in Nat /\ S <= N /\ S = IF 2 > l THEN 0 ELSE l - 2 + 1
  BY <1>1, <1>4, <1>5, CapacityTypes
<1> HIDE DEF l, N, S
<1>7. l <= N + 1
  BY <1>6
<1> QED
  BY <1>7 DEF l, N

\* What the invariant says of the links of the table.
LEMMA TableInOrder == IInv => TableOK
<1> SUFFICES ASSUME IInv PROVE TableOK
  OBVIOUS
<1> DEFINE chains == table.chains
           c == table.capacity
           links == {p \in (1..c) \X (2..(Cardinality(Key) + 1)) : p[2] <= Len(chains[p[1]])}
           keyAt(p) == chains[p[1]][p[2]].key
           K == KeysOf(table)
<1>1. /\ Sound(table) /\ table.size <= c /\ c \in Nat /\ Cardinality(Key) \in Nat
      /\ table.size = Cardinality(K) /\ IsFiniteSet(K)
  BY Counted, CapacityTypes DEF IInv, Sound
<1>2. \A i \in 1..c : \/ chains[i] = <<>>
                      \/ /\ Chain(chains[i]) /\ Len(chains[i]) > 1
                         /\ \A k \in KeysIn(chains[i]) : Slot(k, c) = i
  BY <1>1 DEF Sound
<1>3. \A i \in 1..c : chains[i] = <<>> \/ Len(chains[i]) > 1
  BY <1>2
<1>4. ASSUME NEW p \in links
      PROVE  /\ p[1] \in 1..c /\ p = <<p[1], p[2]>> /\ Chain(chains[p[1]]) /\ p[2] \in 2..Len(chains[p[1]])
             /\ keyAt(p) \in Key /\ Slot(keyAt(p), c) = p[1] /\ keyAt(p) \in KeysIn(chains[p[1]])
  <2>1. /\ p[1] \in 1..c /\ p[2] \in 2..(Cardinality(Key) + 1) /\ p = <<p[1], p[2]>>
        /\ p[2] <= Len(chains[p[1]])
    OBVIOUS
  <2> DEFINE chain == chains[p[1]]
  <2> HIDE DEF links, chains, c
  <2>2. chain # <<>>
    <3>1. Len(<<>>) = 0 /\ ~(p[2] <= 0)
      BY <1>1, <2>1
    <3> QED
      BY <2>1, <3>1
  <2>3. Chain(chain) /\ \A k \in KeysIn(chain) : Slot(k, c) = p[1]
    BY <1>2, <2>1, <2>2
  <2>4. Len(chain) \in Nat
    BY <2>3 DEF Chain
  <2>5. p[2] \in 2..Len(chain)
    BY <1>1, <2>1, <2>4
  <2>6. keyAt(p) \in KeysIn(chain) /\ keyAt(p) \in Key
    BY <2>3, <2>5 DEF KeysIn, Chain, Link
  <2> QED
    BY <2>1, <2>3, <2>5, <2>6
<1>5. ASSUME NEW k \in K PROVE \E p \in links : keyAt(p) = k
  <2> DEFINE i == Slot(k, c)
             chain == chains[i]
  <2>1. k \in Key /\ k \in KeysIn(chain)
    BY DEF KeysOf
  <2>2. i \in 1..c
    BY <1>1, <2>1, CapacityTypes DEF Sound
  <2>3. Chain(chain)
    BY <1>2, <2>1, <2>2, Nowhere
  <2> HIDE DEF i, chain, links
  <2>4. PICK j \in 2..Len(chain) : chain[j].key = k
    BY <2>1 DEF KeysIn
  <2>5. Len(chain) <= Cardinality(Key) + 1
    BY <2>3, ChainLength
  <2>6. Len(chain) \in Nat
    BY <2>3 DEF Chain
  <2>7. j \in 2..(Cardinality(Key) + 1) /\ j <= Len(chain)
    BY <1>1, <2>4, <2>5, <2>6
  <2>8. <<i, j>> \in links
    BY <2>2, <2>7 DEF links, chain
  <2>9. keyAt(<<i, j>>) = k
    BY <2>4 DEF chain
  <2> QED
    BY <2>8, <2>9
<1> HIDE DEF links, chains, c, K
<1>6. ASSUME NEW p \in links, NEW q \in links, keyAt(p) = keyAt(q) PROVE p = q
  <2>1. p[1] = q[1]
    BY <1>4, <1>6
  <2>2. p[2] \in 2..Len(chains[p[1]]) /\ q[2] \in 2..Len(chains[p[1]]) /\ Chain(chains[p[1]])
    BY <1>4, <2>1
  <2>3. p[2] = q[2]
    BY <1>6, <2>1, <2>2 DEF Chain
  <2> QED
    BY <1>4, <2>1, <2>3
<1>7. \A p \in links : keyAt(p) \in K
  BY <1>4 DEF K, KeysOf, c, chains
<1>8. Cardinality(links) = Cardinality(K)
  <2> DEFINE f == [p \in links |-> keyAt(p)]
  <2>1. f \in [links -> K]
    BY <1>7
  <2>2. f \in Injection(links, K)
    BY <1>6, <2>1 DEF Injection, IsInjective
  <2>3. f \in Surjection(links, K)
    BY <1>5, <2>1 DEF Surjection
  <2> HIDE DEF f
  <2> QED
    BY <1>1, <2>2, <2>3, FS_Injection
<1>9. \A p \in links : p[1] = Slot(keyAt(p), c)
  BY <1>4
<1> QED
  BY <1>1, <1>3, <1>6, <1>8, <1>9 DEF TableOK, links, chains, c

\* For every hash, size and set of keys, each key is held once, where it is looked for,
\* and the size is the number of entries, never above the capacity.
THEOREM TableCorrect == Spec => []TableOK
BY Invariance, TableInOrder, PTL

-------------------------------------------------------------------------------
(* The promise. *)

Map == [k \in Key |-> Get(table, k)]

\* A store is a store of the contract that costs no other entry.
LEMMA StoreMaps == ASSUME IInv, NEW k \in Key, NEW v \in Value, LookupSet(k, v) PROVE Contract!Store(k, v)
<1>1. \A x \in Key : Get(table', x) = IF x = ZeroKey THEN NULL ELSE IF x = k THEN v ELSE Get(table, x)
  BY SetDoes
<1>2. Get(table, ZeroKey) = NULL \/ ZeroKey \notin Key
  BY NotThere DEF IInv
<1> DEFINE lost == {}
<1>3. lost \in {{}} \cup {{x} : x \in IF FALSE THEN Key \ {k} ELSE {}}
  OBVIOUS
<1>4. Map' = [x \in Key |-> IF x = k THEN IF k \in {ZeroKey} THEN NULL ELSE v
                            ELSE IF x \in lost THEN NULL ELSE Map[x]]
  BY <1>1, <1>2 DEF Map
<1>5. call' = Contract!Called("set", k, v)
  BY DEF LookupSet, Called, Contract!Called
<1> HIDE DEF lost
<1> QED
  BY <1>3, <1>4, <1>5 DEF Contract!Store, Map

\* Every step is a step of the contract, or changes nothing of it.
LEMMA NextMaps == IInv /\ [Next]_vars => [Contract!Next]_(Contract!vars)
<1> SUFFICES ASSUME IInv, [Next]_vars PROVE Contract!Next \/ UNCHANGED Contract!vars
  OBVIOUS
<1>1. ASSUME NEW k \in Key, LookupGet(k) PROVE Contract!Lookup(k)
  <2>1. table' = table /\ Map' = Map
    BY <1>1 DEF LookupGet, Map
  <2>2. call' = Called("get", k, Map[k])
    BY <1>1 DEF LookupGet, Map
  <2> QED
    BY <2>1, <2>2 DEF Contract!Lookup, Contract!Called, Called, Map
<1>2. ASSUME NEW k \in Key, LookupDel(k) PROVE Contract!Delete(k)
  <2>1. \A x \in Key : Get(table', x) = IF x = k THEN NULL ELSE Get(table, x)
    BY <1>2, DelDoes
  <2>2. Map' = [Map EXCEPT ![k] = NULL]
    BY <2>1 DEF Map
  <2>3. call' = Called("del", k, NULL)
    BY <1>2 DEF LookupDel
  <2> QED
    BY <2>2, <2>3 DEF Contract!Delete, Contract!Called, Called, Map
<1>3. ASSUME NEW k \in Key, NEW v \in Value, LookupSet(k, v) PROVE Contract!Store(k, v)
  BY <1>3, StoreMaps
<1>4. CASE LookupClear
  <2>1. Map' = [k \in Key |-> NULL]
    BY <1>4, ClearDoes DEF Map
  <2>2. call' = Called("clear", NULL, NULL)
    BY <1>4 DEF LookupClear
  <2>3. Contract!Destroy
    BY <2>1, <2>2 DEF Contract!Destroy, Contract!Called, Called, Map
  <2> QED
    BY <2>3 DEF Contract!Next
<1>5. CASE UNCHANGED vars
  <2>1. Map' = Map /\ call' = call
    BY <1>5 DEF vars, Map
  <2> QED
    BY <2>1 DEF Contract!vars, Map
<1> QED
  BY <1>1, <1>2, <1>3, <1>4, <1>5 DEF Next, Contract!Next

\* A lookup returns what was stored last under a key, for every hash, size and set of
\* keys, however often the table is doubled; it loses nothing.
THEOREM Refinement == Spec => ImplementsContract
<1>1. Init => Contract!Init
  <2> SUFFICES ASSUME Init PROVE Contract!Init
    OBVIOUS
  <2>1. Map = [k \in Key |-> NULL]
    BY InitOK DEF Map
  <2>2. call = Contract!Called("new", NULL, NULL)
    BY DEF Init, Called, Contract!Called
  <2> QED
    BY <2>1, <2>2 DEF Contract!Init, Map
<1> QED
  BY <1>1, NextMaps, Invariance, PTL DEF Spec, ImplementsContract, Contract!Spec
====

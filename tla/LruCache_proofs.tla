---------------------------- MODULE LruCache_proofs ----------------------------
(***************************************************************************)
(* Proofs about LruCache, for any set of keys, values and addresses and    *)
(* any capacity.  The inductive invariant adds to the coherence of table   *)
(* and queue that the queue has no repetitions (or freeing the rear could  *)
(* free an item that is still listed) and that it is in order of use.      *)
(***************************************************************************)
EXTENDS LruCache, FiniteSetTheorems, TLAPS

\* NoDanglingEntry, the absence of repetitions and UseOrder, of a queue q and a
\* table h: lru_cache__store builds intermediate ones.
Coherent(q, h) ==
  \A k \in Key : h[k] # NULL =>
    \E i \in 1..Len(q) :
      /\ q[i] = h[k]
      /\ key[q[i]] = k
      /\ \A j \in 1..(i - 1) : key[q[j]] # k

Distinct(q) == \A i, j \in 1..Len(q) : q[i] = q[j] => i = j

Ordered(q) == \A j \in 1..Len(q) : since[q[j]] = {q[i] : i \in 1..(j - 1)}

\* The table of an expanded cache is at least as large as its queue, so that
\* TypeOK's equation survives doubling.
LEMMA HashCapacityNat ==
  \A c \in Nat : HashCapacity(c) \in Nat /\ c <= HashCapacity(c)
BY DEF HashCapacity

\* The initial state satisfies the invariant.
LEMMA InitIInv == Init => IInv
<1> SUFFICES ASSUME Init PROVE IInv
  OBVIOUS
<1>1. TypeOK
  BY ModesAssumption DEF Init, TypeOK, Called
<1>2. Len(queue) = 0
  BY DEF Init
<1>3. QueueOK
  BY <1>2, ModesAssumption DEF Init, QueueOK
<1>4. NoDanglingEntry /\ UseOrder
  BY <1>2 DEF Init, NoDanglingEntry, UseOrder
<1> QED
  BY <1>1, <1>3, <1>4 DEF IInv

\* Enqueueing a fresh item and setting its key in the table keeps every part
\* of the invariant, whatever queue and table the store starts from.
LEMMA EnqueueAndSetOK ==
  ASSUME TypeOK,
         NEW q \in Seq(Item), NEW h \in [Key -> Item \cup {NULL}],
         Distinct(q), Coherent(q, h), Ordered(q),
         NEW c \in Nat, NEW k \in Key, NEW v \in Value,
         EnqueueAndSet(q, h, c, k, v)
  PROVE  /\ queue' \in Seq(Item)
         /\ Len(queue') = Len(q) + 1
         /\ key' \in [Item -> Key \cup {NULL}]
         /\ value' \in [Item -> Value \cup {NULL}]
         /\ hash' \in [Key -> Item \cup {NULL}]
         /\ since' \in [Item -> SUBSET Item]
         /\ \A i, j \in 1..Len(queue') : queue'[i] = queue'[j] => i = j
         /\ NoDanglingEntry'
         /\ UseOrder'
<1> DEFINE S == {q[i] : i \in 1..Len(q)}
<1>1. PICK x \in Item \ S :
        /\ queue' = Enqueue(q, x)
        /\ key' = [y \in Item |-> IF y = x THEN k ELSE IF y \in S THEN key[y] ELSE NULL]
        /\ value' = [y \in Item |-> IF y = x THEN v ELSE IF y \in S THEN value[y] ELSE NULL]
        /\ hash' = HashSet(h, c, k, x)
        /\ Touch(x, S \cup {x})
  BY DEF EnqueueAndSet
<1>2. /\ queue' \in Seq(Item)
      /\ Len(queue') = Len(q) + 1
      /\ queue'[1] = x
      /\ \A i \in 2..Len(queue') : queue'[i] = q[i - 1]
  BY <1>1 DEF Enqueue
<1>3. \A i \in 1..Len(q) : q[i] \in Item /\ q[i] \in S /\ q[i] # x
  BY <1>1
<1>4. key' \in [Item -> Key \cup {NULL}] /\ value' \in [Item -> Value \cup {NULL}]
  BY <1>1 DEF TypeOK
<1>5. hash' \in [Key -> Item \cup {NULL}]
  BY <1>1 DEF HashSet
<1>6. since' \in [Item -> SUBSET Item]
  BY <1>1, <1>3 DEF Touch, TypeOK
<1>7. \A i, j \in 1..Len(queue') : queue'[i] = queue'[j] => i = j
  <2> SUFFICES ASSUME NEW i \in 1..Len(queue'), NEW j \in 1..Len(queue'),
                      queue'[i] = queue'[j]
               PROVE  i = j
    OBVIOUS
  <2>1. CASE i = 1 /\ j = 1
    BY <2>1
  <2>2. CASE i = 1 /\ j # 1
    BY <2>2, <1>2, <1>3
  <2>3. CASE i # 1 /\ j = 1
    BY <2>3, <1>2, <1>3
  <2>4. CASE i # 1 /\ j # 1
    <3>1. i - 1 \in 1..Len(q) /\ j - 1 \in 1..Len(q) /\ q[i - 1] = q[j - 1]
      BY <2>4, <1>2
    <3> QED
      BY <3>1 DEF Distinct
  <2> QED
    BY <2>1, <2>2, <2>3, <2>4
<1>8. NoDanglingEntry'
  <2> SUFFICES ASSUME NEW m \in Key, hash'[m] # NULL
               PROVE  \E i \in 1..Len(queue') :
                        /\ queue'[i] = hash'[m]
                        /\ key'[queue'[i]] = m
                        /\ \A j \in 1..(i - 1) : key'[queue'[j]] # m
    BY DEF NoDanglingEntry
  <2>1. CASE m = k
    <3>1. hash'[m] = x
      BY <2>1, <1>1, NullAssumption DEF HashSet
    <3>2. 1 \in 1..Len(queue') /\ key'[x] = m /\ 1..(1 - 1) = {}
      BY <2>1, <1>1, <1>2
    <3> QED
      BY <3>1, <3>2, <1>2
  <2>2. CASE m # k
    <3>1. hash'[m] = h[m]
      BY <2>2, <1>1 DEF HashSet
    <3>2. PICK i \in 1..Len(q) :
             /\ q[i] = h[m]
             /\ key[q[i]] = m
             /\ \A j \in 1..(i - 1) : key[q[j]] # m
      BY <3>1 DEF Coherent
    <3>3. i + 1 \in 2..Len(queue') /\ queue'[i + 1] = hash'[m]
      BY <3>1, <3>2, <1>2
    <3>4. \A j \in 1..Len(q) : key'[q[j]] = key[q[j]]
      BY <1>1, <1>3
    <3>5. key'[queue'[i + 1]] = m
      BY <3>2, <3>3, <3>4, <3>1
    <3>6. ASSUME NEW j \in 1..((i + 1) - 1) PROVE key'[queue'[j]] # m
      <4>1. CASE j = 1
        BY <4>1, <1>1, <1>2, <2>2
      <4>2. CASE j # 1
        <5>1. j \in 2..Len(queue') /\ j - 1 \in 1..(i - 1) /\ j - 1 \in 1..Len(q)
          BY <4>2, <1>2
        <5>2. queue'[j] = q[j - 1]
          BY <5>1, <1>2
        <5> QED
          BY <5>1, <5>2, <3>2, <3>4
      <4> QED
        BY <4>1, <4>2
    <3> DEFINE r == i + 1
    <3>7. /\ r \in 1..Len(queue') /\ queue'[r] = hash'[m] /\ key'[queue'[r]] = m
          /\ \A j \in 1..(r - 1) : key'[queue'[j]] # m
      BY <3>3, <3>5, <3>6
    <3> HIDE DEF r
    <3> QED
      BY <3>7
  <2> QED
    BY <2>1, <2>2
<1>9. UseOrder'
  <2> SUFFICES ASSUME NEW j \in 1..Len(queue')
               PROVE  since'[queue'[j]] = {queue'[i] : i \in 1..(j - 1)}
    BY DEF UseOrder
  <2>1. CASE j = 1
    BY <2>1, <1>1, <1>2 DEF Touch
  <2>2. CASE j # 1
    <3>1. j \in 2..Len(queue') /\ j - 1 \in 1..Len(q) /\ queue'[j] = q[j - 1]
      BY <2>2, <1>2
    <3>2. since[q[j - 1]] = {q[i] : i \in 1..((j - 1) - 1)}
      BY <3>1 DEF Ordered
    <3>3. since[q[j - 1]] \subseteq S
      BY <3>1, <3>2
    <3>4. since'[q[j - 1]] = since[q[j - 1]] \cup {x}
      BY <3>1, <3>3, <1>1, <1>3 DEF Touch
    <3>5. {queue'[i] : i \in 1..(j - 1)} \subseteq {q[i] : i \in 1..((j - 1) - 1)} \cup {x}
      <4> SUFFICES ASSUME NEW i \in 1..(j - 1)
                   PROVE  queue'[i] = x \/ \E n \in 1..((j - 1) - 1) : queue'[i] = q[n]
        OBVIOUS
      <4>1. CASE i = 1
        BY <4>1, <1>2
      <4>2. CASE i # 1
        <5>1. i \in 2..Len(queue') /\ i - 1 \in 1..((j - 1) - 1)
          BY <4>2, <3>1
        <5> QED
          BY <5>1, <1>2
      <4> QED
        BY <4>1, <4>2
    <3>6. {q[i] : i \in 1..((j - 1) - 1)} \cup {x} \subseteq {queue'[i] : i \in 1..(j - 1)}
      <4>1. x \in {queue'[i] : i \in 1..(j - 1)}
        BY <1>2, <3>1
      <4>2. ASSUME NEW i \in 1..((j - 1) - 1)
            PROVE  q[i] \in {queue'[n] : n \in 1..(j - 1)}
        <5>1. i + 1 \in 1..(j - 1) /\ i + 1 \in 2..Len(queue') /\ (i + 1) - 1 = i
          BY <3>1
        <5> QED
          BY <5>1, <1>2
      <4> QED
        BY <4>1, <4>2
    <3> QED
      BY <3>1, <3>2, <3>4, <3>5, <3>6
  <2> QED
    BY <2>1, <2>2
<1> QED
  BY <1>2, <1>4, <1>5, <1>6, <1>7, <1>8, <1>9

\* A hit reorders the queue and nothing else.
LEMMA HitOK ==
  ASSUME IInv, NEW k \in Key, Hit(k)
  PROVE  IInv'
<1> DEFINE x == HashGet(k)
<1>0. x \in Item /\ x # NULL
  BY DEF Hit, IInv, TypeOK, HashGet
<1>1. PICK n \in 1..Len(queue) : queue[n] = x /\ queue' = ToFront(queue, n)
  BY DEF Hit
<1>2. /\ queue' \in Seq(Item)
      /\ Len(queue') = Len(queue)
      /\ queue'[1] = x
      /\ \A i \in 2..n : queue'[i] = queue[i - 1]
      /\ \A i \in (n + 1)..Len(queue) : queue'[i] = queue[i]
  <2>1. queue \in Seq(Item)
    BY DEF IInv, TypeOK
  <2>2. queue' \in [1..Len(queue) -> Item]
    BY <1>1, <2>1 DEF ToFront
  <2>3. queue' \in Seq(Item) /\ Len(queue') = Len(queue)
    BY <2>1, <2>2
  <2> QED
    BY <1>1, <2>1, <2>3 DEF ToFront
<1> DEFINE at(i) == IF i = 1 THEN n ELSE IF i <= n THEN i - 1 ELSE i
<1>3. \A i \in 1..Len(queue) : at(i) \in 1..Len(queue) /\ queue'[i] = queue[at(i)]
  BY <1>1, <1>2
<1>4. /\ UNCHANGED <<mode, key, value, hash, qcap, hcap>>
      /\ call' = Called("get", k, value[x])
      /\ Touch(x, Live)
  BY DEF Hit
<1>5. \A i \in 1..Len(queue) : queue[i] \in Live /\ queue[i] \in Item
  BY DEF Live, IInv, TypeOK
<1>6. TypeOK'
  <2>1. value[x] \in Value \cup {NULL}
    BY <1>0 DEF IInv, TypeOK
  <2>2. since' \in [Item -> SUBSET Item]
    BY <1>0, <1>4 DEF IInv, TypeOK, Touch
  <2> QED
    BY <1>2, <1>4, <2>1, <2>2 DEF IInv, TypeOK, Called
<1>7. QueueOK'
  <2>1. \A i, j \in 1..Len(queue) : at(i) = at(j) => i = j
    OBVIOUS
  <2>2. \A i, j \in 1..Len(queue) : queue[i] = queue[j] => i = j
    BY DEF IInv, QueueOK
  <2>3. \A i, j \in 1..Len(queue) : queue'[i] = queue'[j] => i = j
    BY <1>3, <2>1, <2>2
  <2> QED
    BY <1>2, <1>4, <2>3 DEF IInv, QueueOK
<1>8. NoDanglingEntry'
  <2> SUFFICES ASSUME NEW m \in Key, hash[m] # NULL
               PROVE  \E i \in 1..Len(queue') :
                        /\ queue'[i] = hash[m]
                        /\ key[queue'[i]] = m
                        /\ \A j \in 1..(i - 1) : key[queue'[j]] # m
    BY <1>4 DEF NoDanglingEntry
  <2>1. PICK p \in 1..Len(queue) :
           /\ queue[p] = hash[m]
           /\ key[queue[p]] = m
           /\ \A j \in 1..(p - 1) : key[queue[j]] # m
    BY DEF IInv, NoDanglingEntry
  <2>2. CASE m = k
    <3>1. hash[m] = x
      BY <2>2, <1>0 DEF HashGet
    <3>2. 1 \in 1..Len(queue') /\ 1..(1 - 1) = {}
      BY <1>2
    <3> QED
      BY <3>1, <3>2, <2>1, <1>2
  <2>3. CASE m # k
    <3>1. key[x] = k
      <4>1. hash[k] = x /\ hash[k] # NULL
        BY <1>0 DEF HashGet
      <4> QED
        BY <4>1 DEF IInv, NoDanglingEntry
    <3>2. p # n
      BY <2>1, <2>3, <3>1, <1>1
    <3> DEFINE r == IF p < n THEN p + 1 ELSE p
    <3>3. r \in 1..Len(queue') /\ queue'[r] = queue[p]
      BY <3>2, <1>2
    <3>4. ASSUME NEW j \in 1..(r - 1) PROVE key[queue'[j]] # m
      <4>1. CASE j = 1
        BY <4>1, <1>2, <3>1, <2>3
      <4>2. CASE j # 1
        <5>1. j \in 1..Len(queue) /\ at(j) \in 1..(p - 1)
          BY <4>2, <3>2, <1>1
        <5> QED
          BY <5>1, <1>3, <2>1
      <4> QED
        BY <4>1, <4>2
    <3> HIDE DEF r
    <3> QED
      BY <3>3, <3>4, <2>1
  <2> QED
    BY <2>2, <2>3
<1>9. UseOrder'
  <2> SUFFICES ASSUME NEW j \in 1..Len(queue)
               PROVE  since'[queue'[j]] = {queue'[i] : i \in 1..(j - 1)}
    BY <1>2 DEF UseOrder
  <2>0. \A i, l \in 1..Len(queue) : queue[i] = queue[l] => i = l
    BY DEF IInv, QueueOK
  <2>1. \A i \in 1..Len(queue) : since[queue[i]] = {queue[l] : l \in 1..(i - 1)}
    BY DEF IInv, UseOrder
  <2>2. CASE j = 1
    BY <2>2, <1>0, <1>2, <1>4 DEF Touch
  <2>3. CASE j # 1
    <3>1. at(j) \in 1..Len(queue) /\ queue'[j] = queue[at(j)] /\ at(j) # n
      BY <2>3, <1>3
    <3>2. queue[at(j)] # x
      BY <3>1, <2>0, <1>1
    <3>3. since[queue[at(j)]] \subseteq Live
      <4> DEFINE a == at(j)
      <4>1. a \in 1..Len(queue) /\ \A l \in 1..(a - 1) : l \in 1..Len(queue)
        BY <3>1
      <4> HIDE DEF a
      <4>2. since[queue[a]] \subseteq Live
        <5> SUFFICES ASSUME NEW y \in since[queue[a]] PROVE y \in Live
          OBVIOUS
        <5>1. PICK l \in 1..(a - 1) : y = queue[l]
          BY <4>1, <2>1
        <5> QED
          BY <5>1, <4>1, <1>5
      <4> QED
        BY <4>2 DEF a
    <3>4. since'[queue'[j]] = {queue[l] : l \in 1..(at(j) - 1)} \cup {x}
      BY <3>1, <3>2, <3>3, <2>1, <1>0, <1>1, <1>4, <1>5 DEF Touch
    <3>5. ASSUME NEW i \in 1..(j - 1)
          PROVE  queue'[i] \in {queue[l] : l \in 1..(at(j) - 1)} \cup {x}
      <4>1. CASE i = 1
        BY <4>1, <1>2
      <4>2. CASE i # 1
        <5>1. i \in 1..Len(queue) /\ (at(i) \in 1..(at(j) - 1) \/ at(i) = n)
          BY <4>2, <2>3
        <5> QED
          BY <5>1, <1>1, <1>3
      <4> QED
        BY <4>1, <4>2
    <3>6. ASSUME NEW l \in 1..(at(j) - 1)
          PROVE  queue[l] \in {queue'[i] : i \in 1..(j - 1)}
      <4>1. CASE l = n
        BY <4>1, <1>1, <1>2, <2>3
      <4>2. CASE l < n
        <5>1. l + 1 \in 2..n /\ l + 1 \in 1..(j - 1) /\ (l + 1) - 1 = l
          BY <4>2, <2>3, <3>1
        <5>2. queue'[l + 1] = queue[l]
          BY <5>1, <1>2
        <5> QED
          BY <5>1, <5>2
      <4>3. CASE l > n
        <5>1. l \in (n + 1)..Len(queue) /\ l \in 1..(j - 1)
          BY <4>3, <2>3, <3>1
        <5> QED
          BY <5>1, <1>2
      <4> QED
        BY <4>1, <4>2, <4>3
    <3>7. x \in {queue'[i] : i \in 1..(j - 1)}
      BY <2>3, <1>2
    <3> HIDE DEF at, x
    <3> QED
      BY <3>4, <3>5, <3>6, <3>7
  <2> QED
    BY <2>2, <2>3
<1> QED
  BY <1>6, <1>7, <1>8, <1>9 DEF IInv

\* A store keeps the invariant, whether it finds room, evicts or expands.
LEMMA StoreOK ==
  ASSUME IInv, NEW k \in Key, NEW v \in Value, Store(k, v)
  PROVE  IInv'
<1>1. queue \in Seq(Item) /\ Len(queue) \in Nat /\ qcap \in Nat \ {0} /\ hcap = HashCapacity(qcap)
  BY DEF IInv, TypeOK
<1>2. HashCapacity(qcap) \in Nat /\ HashCapacity(qcap * 2) \in Nat
  BY <1>1, HashCapacityNat, SMTT(60)
<1>3. Distinct(queue) /\ Coherent(queue, hash) /\ Ordered(queue)
  BY DEF IInv, QueueOK, NoDanglingEntry, UseOrder, Distinct, Coherent, Ordered
<1>4. hash \in [Key -> Item \cup {NULL}] /\ TypeOK
  BY DEF IInv, TypeOK
<1>5. CASE StoreWithRoom(k, v)
  <2>1. EnqueueAndSet(queue, hash, hcap, k, v) /\ Len(queue) # qcap
    BY <1>5 DEF StoreWithRoom, queueIsFull
  <2>2. UNCHANGED <<mode, qcap, hcap>> /\ call' = Called("set", k, v)
    BY <1>5 DEF StoreWithRoom
  <2>3. /\ queue' \in Seq(Item)
        /\ Len(queue') = Len(queue) + 1
        /\ key' \in [Item -> Key \cup {NULL}]
        /\ value' \in [Item -> Value \cup {NULL}]
        /\ hash' \in [Key -> Item \cup {NULL}]
        /\ since' \in [Item -> SUBSET Item]
        /\ \A i, j \in 1..Len(queue') : queue'[i] = queue'[j] => i = j
        /\ NoDanglingEntry'
        /\ UseOrder'
    BY <1>1, <1>2, <1>3, <1>4, <2>1, EnqueueAndSetOK
  <2>4. TypeOK'
    BY <2>2, <2>3 DEF IInv, TypeOK, Called
  <2>5. QueueOK'
    BY <1>1, <2>1, <2>2, <2>3 DEF IInv, QueueOK
  <2> QED
    BY <2>3, <2>4, <2>5 DEF IInv
<1>6. CASE StoreAndEvict(k, v)
  <2> DEFINE q == Dequeue(queue)
             h == HashDel(hash, key[queue[Len(queue)]])
  <2>1. EnqueueAndSet(q, h, hcap, k, v) /\ Len(queue) = qcap
    BY <1>6 DEF StoreAndEvict, queueIsFull
  <2>2. UNCHANGED <<mode, qcap, hcap>> /\ call' = Called("set", k, v)
    BY <1>6 DEF StoreAndEvict
  <2>3. /\ q \in Seq(Item)
        /\ Len(q) = Len(queue) - 1
        /\ \A i \in 1..Len(q) : i \in 1..Len(queue) /\ q[i] = queue[i]
    BY <1>1, <2>1 DEF Dequeue
  <2>4. h \in [Key -> Item \cup {NULL}]
    BY <1>4 DEF HashDel
  <2>5. Distinct(q)
    BY <1>3, <2>3 DEF Distinct
  <2>6. Ordered(q)
    <3> HIDE DEF q
    <3> SUFFICES ASSUME NEW j \in 1..Len(q)
                 PROVE  since[q[j]] = {q[i] : i \in 1..(j - 1)}
      BY DEF Ordered
    <3>1. j \in 1..Len(queue) /\ q[j] = queue[j]
      BY <2>3
    <3>2. \A i \in 1..(j - 1) : i \in 1..Len(q) /\ q[i] = queue[i]
      BY <1>1, <2>3
    <3>3. since[queue[j]] = {queue[i] : i \in 1..(j - 1)}
      BY <1>3, <3>1 DEF Ordered
    <3> QED
      BY <3>1, <3>2, <3>3
  <2>7. Coherent(q, h)
    <3> HIDE DEF q
    <3> SUFFICES ASSUME NEW m \in Key, h[m] # NULL
                 PROVE  \E i \in 1..Len(q) :
                          /\ q[i] = h[m]
                          /\ key[q[i]] = m
                          /\ \A j \in 1..(i - 1) : key[q[j]] # m
      BY DEF Coherent
    <3>1. h[m] = hash[m] /\ m # key[queue[Len(queue)]]
      BY <1>4 DEF HashDel
    <3>2. PICK i \in 1..Len(queue) :
             /\ queue[i] = hash[m]
             /\ key[queue[i]] = m
             /\ \A j \in 1..(i - 1) : key[queue[j]] # m
      BY <1>3, <3>1 DEF Coherent
    <3>3. i # Len(queue)
      BY <3>1, <3>2
    <3>4. i \in 1..Len(q) /\ \A j \in 1..(i - 1) : j \in 1..Len(q)
      BY <1>1, <2>3, <3>3
    <3> QED
      BY <2>3, <3>1, <3>2, <3>4
  <2>8. /\ queue' \in Seq(Item)
        /\ Len(queue') = Len(q) + 1
        /\ key' \in [Item -> Key \cup {NULL}]
        /\ value' \in [Item -> Value \cup {NULL}]
        /\ hash' \in [Key -> Item \cup {NULL}]
        /\ since' \in [Item -> SUBSET Item]
        /\ \A i, j \in 1..Len(queue') : queue'[i] = queue'[j] => i = j
        /\ NoDanglingEntry'
        /\ UseOrder'
    <3> HIDE DEF q, h
    <3> QED
      BY <1>1, <1>2, <1>4, <2>1, <2>3, <2>4, <2>5, <2>6, <2>7, EnqueueAndSetOK
  <2>9. TypeOK'
    BY <2>2, <2>8 DEF IInv, TypeOK, Called
  <2>10. QueueOK'
    <3> HIDE DEF q, h
    <3> QED
      BY <1>1, <2>1, <2>2, <2>3, <2>8 DEF QueueOK
  <2> QED
    BY <2>8, <2>9, <2>10 DEF IInv
<1>7. CASE StoreAndExpand(k, v)
  <2>1. PICK h \in Rehashes(hash, HashCapacity(qcap * 2)) :
           EnqueueAndSet(queue, h, HashCapacity(qcap * 2), k, v)
    BY <1>7 DEF StoreAndExpand
  <2>2. /\ Len(queue) = qcap /\ call' = Called("set", k, v) /\ mode' = mode
        /\ qcap' = qcap * 2 /\ hcap' = HashCapacity(qcap * 2)
    BY <1>7 DEF StoreAndExpand, queueIsFull
  <2>3. /\ h \in [Key -> Item \cup {NULL}]
        /\ \A m \in Key : h[m] = hash[m] \/ h[m] = NULL
    BY <1>4, <2>1 DEF Rehashes
  <2>4. Coherent(queue, h)
    BY <1>3, <2>3 DEF Coherent
  <2>5. /\ queue' \in Seq(Item)
        /\ Len(queue') = Len(queue) + 1
        /\ key' \in [Item -> Key \cup {NULL}]
        /\ value' \in [Item -> Value \cup {NULL}]
        /\ hash' \in [Key -> Item \cup {NULL}]
        /\ since' \in [Item -> SUBSET Item]
        /\ \A i, j \in 1..Len(queue') : queue'[i] = queue'[j] => i = j
        /\ NoDanglingEntry'
        /\ UseOrder'
    BY <1>1, <1>2, <1>3, <1>4, <2>1, <2>3, <2>4, EnqueueAndSetOK
  <2>6. TypeOK'
    BY <1>1, <2>2, <2>5 DEF IInv, TypeOK, Called
  <2>7. QueueOK'
    BY <1>1, <2>2, <2>5 DEF QueueOK
  <2> QED
    BY <2>5, <2>6, <2>7 DEF IInv
<1> QED
  BY <1>5, <1>6, <1>7 DEF Store

\* Every step keeps the invariant.
LEMMA NextIInv == IInv /\ [Next]_vars => IInv'
<1> SUFFICES ASSUME IInv, [Next]_vars PROVE IInv'
  OBVIOUS
<1>1. ASSUME NEW k \in Key, Hit(k) PROVE IInv'
  BY <1>1, HitOK
<1>2. ASSUME NEW k \in Key, Miss(k) PROVE IInv'
  BY <1>2, NullAssumption
  DEF Miss, IInv, TypeOK, Called, QueueOK, NoDanglingEntry, UseOrder
<1>3. ASSUME NEW k \in Key, NEW v \in Value, Store(k, v) PROVE IInv'
  BY <1>3, StoreOK
<1>4. CASE Destroy
  <2>1. queue' = <<>> /\ Len(queue') = 0
    BY <1>4 DEF Destroy
  <2>2. TypeOK'
    BY <1>4, ModesAssumption DEF Destroy, IInv, TypeOK, Called
  <2>3. QueueOK'
    BY <1>4, <2>1, ModesAssumption DEF Destroy, IInv, TypeOK, QueueOK
  <2>4. NoDanglingEntry' /\ UseOrder'
    BY <1>4, <2>1 DEF Destroy, NoDanglingEntry, UseOrder
  <2> QED
    BY <2>2, <2>3, <2>4 DEF IInv
<1>5. CASE UNCHANGED vars
  BY <1>5 DEF vars, IInv, TypeOK, QueueOK, NoDanglingEntry, UseOrder
<1> QED
  BY <1>1, <1>2, <1>3, <1>4, <1>5 DEF Next

\* The inductive invariant holds in every reachable state.
THEOREM Invariance == Spec => []IInv
BY InitIInv, NextIInv, PTL DEF Spec

\* Type correctness of the cache, for every capacity.
THEOREM TypeCorrect == Spec => []TypeOK
<1>1. IInv => TypeOK
  BY DEF IInv
<1> QED
  BY <1>1, Invariance, PTL

\* The hash table never leads to a freed item, for every capacity, every number
\* of keys and every client, also one that stores a key it already stored.
THEOREM NoDangling == Spec => []NoDanglingEntry
<1>1. IInv => NoDanglingEntry
  BY DEF IInv
<1> QED
  BY <1>1, Invariance, PTL

\* The queue never exceeds its capacity and has no item twice, for every capacity:
\* neither an expansion nor an eviction leaves it overfull for the item to be stored.
THEOREM QueueCorrect == Spec => []QueueOK
<1>1. IInv => QueueOK
  BY DEF IInv
<1> QED
  BY <1>1, Invariance, PTL

\* The queue is the order of use, for every capacity: the items in front of one
\* are those used since it was.
THEOREM UseOrderCorrect == Spec => []UseOrder
<1>1. IInv => UseOrder
  BY DEF IInv
<1> QED
  BY <1>1, Invariance, PTL

\* The only items a step frees are the least recently used one of a full cache
\* of fixed capacity and those of a cache that is destroyed.
LEMMA FreedIsLeastRecent ==
  ASSUME IInv, Next, NEW x \in Live, x \notin Live'
  PROVE  \/ queue' = <<>>
         \/ Len(queue) = qcap /\ ~Expand /\ Live \ {x} \subseteq since[x]
<1>0. queue \in Seq(Item) /\ Len(queue) \in Nat
  BY DEF IInv, TypeOK
<1>1. PICK n \in 1..Len(queue) : x = queue[n]
  BY DEF Live
<1>2. ASSUME NEW q \in Seq(Item), NEW h, NEW c, NEW k, NEW v,
             EnqueueAndSet(q, h, c, k, v), NEW i \in 1..Len(q)
      PROVE  q[i] \in Live'
  <2>1. PICK y \in Item : queue' = Enqueue(q, y)
    BY <1>2 DEF EnqueueAndSet
  <2>2. i + 1 \in 1..Len(queue') /\ queue'[i + 1] = q[i]
    BY <1>2, <2>1 DEF Enqueue
  <2> QED
    BY <2>2 DEF Live
<1>3. ASSUME NEW k \in Key, Hit(k) PROVE FALSE
  <2>1. PICK p \in 1..Len(queue) : queue' = ToFront(queue, p)
    BY <1>3 DEF Hit
  <2>2. Len(queue') = Len(queue)
    BY <1>0, <2>1 DEF ToFront
  <2> DEFINE r == IF n = p THEN 1 ELSE IF n < p THEN n + 1 ELSE n
  <2>3. r \in 1..Len(queue') /\ queue'[r] = queue[n]
    BY <1>0, <2>1, <2>2 DEF ToFront
  <2> HIDE DEF r
  <2> QED
    BY <2>3, <1>1 DEF Live
<1>4. ASSUME NEW k \in Key, Miss(k) PROVE FALSE
  BY <1>4 DEF Miss, Live
<1>5. ASSUME NEW k \in Key, NEW v \in Value, StoreWithRoom(k, v) PROVE FALSE
  BY <1>0, <1>1, <1>2, <1>5 DEF StoreWithRoom
<1>6. ASSUME NEW k \in Key, NEW v \in Value, StoreAndExpand(k, v) PROVE FALSE
  BY <1>0, <1>1, <1>2, <1>6 DEF StoreAndExpand
<1>7. ASSUME NEW k \in Key, NEW v \in Value, StoreAndEvict(k, v)
      PROVE  Len(queue) = qcap /\ ~Expand /\ Live \ {x} \subseteq since[x]
  <2>1. Len(queue) = qcap /\ ~Expand
    BY <1>7 DEF StoreAndEvict, queueIsFull
  <2> DEFINE q == Dequeue(queue)
  <2>2. /\ q \in Seq(Item)
        /\ \A i \in 1..(Len(queue) - 1) : i \in 1..Len(q) /\ q[i] = queue[i]
    BY <1>0, <1>1 DEF Dequeue
  <2>3. \A i \in 1..Len(q) : q[i] \in Live'
    <3> HIDE DEF q
    <3>1. EnqueueAndSet(q, HashDel(hash, key[queue[Len(queue)]]), hcap, k, v)
      BY <1>7 DEF StoreAndEvict, q
    <3> QED
      BY <3>1, <2>2, <1>2
  <2>4. n = Len(queue)
    <3> HIDE DEF q
    <3>1. CASE n # Len(queue)
      <4>1. n \in 1..(Len(queue) - 1)
        BY <3>1, <1>0
      <4> QED
        BY <4>1, <2>2, <2>3, <1>1
    <3> QED
      BY <3>1
  <2>5. since[x] = {queue[i] : i \in 1..(n - 1)}
    BY <1>1 DEF IInv, UseOrder
  <2>6. ASSUME NEW y \in Live, y # x PROVE y \in since[x]
    <3>1. PICK i \in 1..Len(queue) : y = queue[i]
      BY DEF Live
    <3>2. i \in 1..(n - 1)
      BY <3>1, <2>4, <2>6, <1>0, <1>1
    <3> QED
      BY <3>1, <3>2, <2>5
  <2> QED
    BY <2>1, <2>6
<1>8. ASSUME Destroy PROVE queue' = <<>>
  BY <1>8 DEF Destroy
<1> QED
  BY <1>3, <1>4, <1>5, <1>6, <1>7, <1>8 DEF Next, Store

\* An eviction frees the least recently used item, for every capacity.
THEOREM EvictionIsLeastRecent == Spec => EvictsLeastRecent
<1>1. IInv /\ [Next]_vars =>
        [\A x \in Live \ Live' :
           \/ queue' = <<>>
           \/ /\ Len(queue) = qcap /\ ~Expand
              /\ Live \ {x} \subseteq since[x]]_vars
  BY FreedIsLeastRecent
<1> QED
  BY <1>1, Invariance, PTL DEF Spec, EvictsLeastRecent

--------------------------------------------------------------------------------
(* The table always has room for one more key, so that it ignores none.           *)

Stored(h) == {m \in Key : h[m] # NULL}

\* A table that leads to items of a queue, each of its key, has no more keys than the
\* queue has items.
LEMMA StoredBound ==
  ASSUME NEW q \in Seq(Item), NEW h \in [Key -> Item \cup {NULL}], Coherent(q, h)
  PROVE  Cardinality(Stored(h)) \in Nat /\ Cardinality(Stored(h)) <= Len(q)
<1> DEFINE at(m) == CHOOSE i \in 1..Len(q) : q[i] = h[m] /\ key[q[i]] = m
           f == [m \in Stored(h) |-> at(m)]
<1>1. ASSUME NEW m \in Stored(h) PROVE at(m) \in 1..Len(q) /\ key[q[at(m)]] = m
  <2>1. \E i \in 1..Len(q) : q[i] = h[m] /\ key[q[i]] = m
    BY DEF Stored, Coherent
  <2> QED
    BY <2>1
<1>2. f \in Injection(Stored(h), 1..Len(q))
  <2>1. f \in [Stored(h) -> 1..Len(q)]
    BY <1>1
  <2>2. ASSUME NEW m \in Stored(h), NEW n \in Stored(h), f[m] = f[n] PROVE m = n
    <3>1. at(m) = at(n)
      BY <2>2
    <3> QED
      BY <3>1, <1>1
  <2> QED
    BY <2>1, <2>2 DEF Injection, IsInjective
<1>3. Len(q) \in Nat /\ IsFiniteSet(1..Len(q)) /\ Cardinality(1..Len(q)) = Len(q)
  BY FS_Interval
<1>4. IsFiniteSet(Stored(h)) /\ Cardinality(Stored(h)) <= Len(q)
  BY <1>2, <1>3, FS_Injection
<1> QED
  BY <1>4, FS_CardinalityType

\* The new table of an expanded cache has all the entries of the old one.
LEMMA AllRehashed ==
  ASSUME NEW h \in [Key -> Item \cup {NULL}], NEW c \in Nat,
         Cardinality(Stored(h)) <= c, NEW g \in Rehashes(h, c)
  PROVE  g = h
<1>1. PICK S \in SUBSET Stored(h) :
         /\ Cardinality(S) = Cardinality(Stored(h))
         /\ g = [m \in Key |-> IF m \in S THEN h[m] ELSE NULL]
  BY DEF Rehashes, Stored
<1>2. IsFiniteSet(Stored(h))
  BY KeyAssumption, FS_Subset DEF Stored
<1>3. S = Stored(h)
  BY <1>1, <1>2, FS_Subset
<1> QED
  BY <1>1, <1>3 DEF Stored

\* The queue and the table that a store of k puts its item in: there is room in both,
\* and a key that is lost is that of an item that goes.
StoresInto(q, h, c) ==
  /\ q \in Seq(Item) /\ h \in [Key -> Item \cup {NULL}] /\ c \in Nat
  /\ Distinct(q) /\ Coherent(q, h) /\ Cardinality(Stored(h)) < c
  /\ \A i \in 1..Len(q) : i \in 1..Len(queue) /\ q[i] = queue[i]
  /\ \/ q = queue /\ h = hash
     \/ /\ ~Expand /\ Len(queue) \in Nat \ {0} /\ Len(q) = Len(queue) - 1
        /\ h = HashDel(hash, key[queue[Len(queue)]])

\* Each branch of lru_cache__store is such a store.
LEMMA StoreInto ==
  ASSUME IInv, NEW k \in Key, NEW v \in Value, Store(k, v)
  PROVE  /\ ClientStores(k) /\ call' = Called("set", k, v) /\ mode' = mode
         /\ \E q, h, c : StoresInto(q, h, c) /\ EnqueueAndSet(q, h, c, k, v)
<1>0. ClientStores(k) /\ call' = Called("set", k, v) /\ mode' = mode
  BY DEF Store, StoreWithRoom, StoreAndEvict, StoreAndExpand
<1>1. /\ queue \in Seq(Item) /\ Len(queue) \in Nat /\ qcap \in Nat \ {0} /\ hcap = HashCapacity(qcap)
      /\ hash \in [Key -> Item \cup {NULL}] /\ Len(queue) <= qcap
  BY DEF IInv, TypeOK, QueueOK
<1>2. /\ HashCapacity(qcap) \in Nat /\ qcap <= HashCapacity(qcap)
      /\ HashCapacity(qcap * 2) \in Nat /\ qcap * 2 <= HashCapacity(qcap * 2)
  BY <1>1, HashCapacityNat, SMTT(60)
<1>3. Distinct(queue) /\ Coherent(queue, hash)
  BY DEF IInv, QueueOK, NoDanglingEntry, Distinct, Coherent
<1>4. Cardinality(Stored(hash)) \in Nat /\ Cardinality(Stored(hash)) <= Len(queue)
  BY <1>1, <1>3, StoredBound
<1>5. CASE StoreWithRoom(k, v)
  <2>1. EnqueueAndSet(queue, hash, hcap, k, v) /\ Len(queue) # qcap
    BY <1>5 DEF StoreWithRoom, queueIsFull
  <2>2. StoresInto(queue, hash, hcap)
    BY <1>1, <1>2, <1>3, <1>4, <2>1 DEF StoresInto
  <2> QED
    BY <1>0, <2>1, <2>2
<1>6. CASE StoreAndExpand(k, v)
  <2>1. PICK h \in Rehashes(hash, HashCapacity(qcap * 2)) :
           EnqueueAndSet(queue, h, HashCapacity(qcap * 2), k, v)
    BY <1>6 DEF StoreAndExpand
  <2>2. Cardinality(Stored(hash)) < HashCapacity(qcap * 2)
    BY <1>1, <1>2, <1>4
  <2>3. h = hash
    BY <1>1, <1>2, <1>4, <2>1, <2>2, AllRehashed
  <2>4. StoresInto(queue, hash, HashCapacity(qcap * 2))
    BY <1>1, <1>2, <1>3, <2>2 DEF StoresInto
  <2> QED
    BY <1>0, <2>1, <2>3, <2>4
<1>7. CASE StoreAndEvict(k, v)
  <2> DEFINE q == Dequeue(queue)
             r == key[queue[Len(queue)]]
             h == HashDel(hash, r)
  <2>1. EnqueueAndSet(q, h, hcap, k, v) /\ Len(queue) = qcap /\ ~Expand
    BY <1>7 DEF StoreAndEvict, queueIsFull
  <2>2. /\ q \in Seq(Item) /\ Len(q) = Len(queue) - 1
        /\ \A i \in 1..Len(q) : i \in 1..Len(queue) /\ q[i] = queue[i]
    BY <1>1, <2>1 DEF Dequeue
  <2> HIDE DEF q
  <2>3. /\ h \in [Key -> Item \cup {NULL}]
        /\ \A m \in Key : h[m] = IF m = r THEN NULL ELSE hash[m]
    BY <1>1 DEF HashDel
  <2>4. Distinct(q)
    BY <1>3, <2>2 DEF Distinct
  <2>5. Coherent(q, h)
    <3> HIDE DEF h
    <3> SUFFICES ASSUME NEW m \in Key, h[m] # NULL
                 PROVE  \E i \in 1..Len(q) :
                          /\ q[i] = h[m]
                          /\ key[q[i]] = m
                          /\ \A j \in 1..(i - 1) : key[q[j]] # m
      BY DEF Coherent
    <3>1. h[m] = hash[m] /\ m # r
      BY <2>3
    <3>2. PICK i \in 1..Len(queue) :
             /\ queue[i] = hash[m]
             /\ key[queue[i]] = m
             /\ \A j \in 1..(i - 1) : key[queue[j]] # m
      BY <1>3, <3>1 DEF Coherent
    <3>3. i # Len(queue)
      BY <3>1, <3>2
    <3>4. i \in 1..Len(q) /\ \A j \in 1..(i - 1) : j \in 1..Len(q)
      BY <1>1, <2>2, <3>3
    <3> QED
      BY <2>2, <3>1, <3>2, <3>4
  <2>6. Cardinality(Stored(h)) < hcap
    <3> HIDE DEF h
    <3>1. Cardinality(Stored(h)) \in Nat /\ Cardinality(Stored(h)) <= Len(q)
      BY <2>2, <2>3, <2>5, StoredBound
    <3> QED
      BY <3>1, <1>1, <1>2, <2>1, <2>2
  <2>7. StoresInto(q, h, hcap)
    BY <1>1, <1>2, <2>1, <2>2, <2>3, <2>4, <2>5, <2>6 DEF StoresInto
  <2> HIDE DEF h
  <2> QED
    BY <1>0, <2>1, <2>7
<1> QED
  BY <1>5, <1>6, <1>7 DEF Store

\* What a store puts in the queue and in the table.
LEMMA StoredItem ==
  ASSUME IInv, NEW k \in Key, NEW v \in Value, NEW q, NEW h, NEW c,
         StoresInto(q, h, c), EnqueueAndSet(q, h, c, k, v)
  PROVE  \E x \in Item :
           /\ \A i \in 1..Len(q) : q[i] \in Item \ {x}
           /\ Len(queue') = Len(q) + 1 /\ queue'[1] = x
           /\ \A i \in 2..Len(queue') : queue'[i] = q[i - 1]
           /\ key'[x] = k /\ value'[x] = v
           /\ \A i \in 1..Len(q) : key'[q[i]] = key[q[i]] /\ value'[q[i]] = value[q[i]]
           /\ hash' \in [Key -> Item \cup {NULL}]
           /\ \A m \in Key : hash'[m] = IF m = k THEN x ELSE h[m]
<1>1. PICK x \in Item \ {q[i] : i \in 1..Len(q)} :
        /\ queue' = Enqueue(q, x)
        /\ key' = [y \in Item |-> IF y = x THEN k
                                  ELSE IF y \in {q[i] : i \in 1..Len(q)} THEN key[y] ELSE NULL]
        /\ value' = [y \in Item |-> IF y = x THEN v
                                    ELSE IF y \in {q[i] : i \in 1..Len(q)} THEN value[y] ELSE NULL]
        /\ hash' = HashSet(h, c, k, x)
  BY DEF EnqueueAndSet
<1>2. q \in Seq(Item) /\ h \in [Key -> Item \cup {NULL}] /\ Cardinality(Stored(h)) < c /\ c \in Nat
  BY DEF StoresInto
<1>3. \A i \in 1..Len(q) : q[i] \in Item \ {x}
  BY <1>1, <1>2
<1>4. /\ Len(queue') = Len(q) + 1 /\ queue'[1] = x
      /\ \A i \in 2..Len(queue') : queue'[i] = q[i - 1]
  BY <1>1, <1>2 DEF Enqueue
<1>5. /\ key'[x] = k /\ value'[x] = v
      /\ \A i \in 1..Len(q) : key'[q[i]] = key[q[i]] /\ value'[q[i]] = value[q[i]]
  BY <1>1, <1>3
<1>6. hash' = [h EXCEPT ![k] = x]
  <2>1. IsFiniteSet(Stored(h))
    BY KeyAssumption, FS_Subset DEF Stored
  <2>2. ~(Cardinality(Stored(h)) >= c)
    BY <1>2, <2>1, FS_CardinalityType
  <2> QED
    BY <1>1, <2>2 DEF HashSet, Stored
<1> QED
  BY <1>2, <1>3, <1>4, <1>5, <1>6

--------------------------------------------------------------------------------
(* The cache is a map that may forget.                                            *)

Map == [m \in Key |-> IF HashGet(m) = NULL THEN NULL ELSE value[HashGet(m)]]

\* A store is a store of the contract: what is lost is the key of the item that goes.
LEMMA StoreMaps ==
  ASSUME IInv, NEW k \in Key, NEW v \in Value, Store(k, v)
  PROVE  Contract!Store(k, v)
<1>1. /\ call' = Called("set", k, v) /\ mode' = mode
      /\ \E q, h, c : StoresInto(q, h, c) /\ EnqueueAndSet(q, h, c, k, v)
  BY StoreInto
<1>2. PICK q, h, c : StoresInto(q, h, c) /\ EnqueueAndSet(q, h, c, k, v)
  BY <1>1
<1>3. PICK x \in Item :
        /\ value'[x] = v
        /\ \A i \in 1..Len(q) : value'[q[i]] = value[q[i]]
        /\ \A m \in Key : hash'[m] = IF m = k THEN x ELSE h[m]
  BY <1>2, StoredItem
<1>4. h \in [Key -> Item \cup {NULL}] /\ hash \in [Key -> Item \cup {NULL}]
  BY <1>2 DEF StoresInto, IInv, TypeOK
<1>5. Map'[k] = IF k = ZeroKey THEN NULL ELSE v
  BY <1>3, NullAssumption DEF Map, HashGet
<1>6. ASSUME NEW m \in Key, m # k, h[m] = hash[m] PROVE Map'[m] = Map[m]
  <2>1. hash'[m] = hash[m]
    BY <1>3, <1>6
  <2>2. CASE m = ZeroKey \/ hash[m] = NULL
    BY <2>1, <2>2 DEF Map, HashGet
  <2>3. CASE m # ZeroKey /\ hash[m] # NULL
    <3>1. PICK i \in 1..Len(q) : q[i] = hash[m]
      BY <1>2, <1>6, <2>3 DEF StoresInto, Coherent
    <3> QED
      BY <1>3, <2>1, <2>3, <3>1 DEF Map, HashGet
  <2> QED
    BY <2>2, <2>3
<1> DEFINE may == {{}} \cup {{y} : y \in IF ~Expand THEN Key \ {k} ELSE {}}
<1>7. PICK lost \in may : \A m \in Key \ {k} : Map'[m] = IF m \in lost THEN NULL ELSE Map[m]
  <2>0. {} \in may /\ (~Expand => \A y \in Key \ {k} : {y} \in may)
    OBVIOUS
  <2> HIDE DEF may
  <2>1. CASE \A m \in Key \ {k} : h[m] = hash[m]
    <3>1. \A m \in Key \ {k} : Map'[m] = IF m \in {} THEN NULL ELSE Map[m]
      BY <1>6, <2>1
    <3> QED
      BY <2>0, <3>1
  <2>2. CASE ~Expand /\ \E r : h = HashDel(hash, r)
    <3>1. PICK r : h = HashDel(hash, r)
      BY <2>2
    <3>2. \A m \in Key : h[m] = IF m = r THEN NULL ELSE hash[m]
      BY <1>4, <3>1 DEF HashDel
    <3>3. CASE r \in Key \ {k}
      <4>1. Map'[r] = NULL
        BY <1>3, <3>2, <3>3 DEF Map, HashGet
      <4>2. \A m \in Key \ {k} : Map'[m] = IF m \in {r} THEN NULL ELSE Map[m]
        BY <1>6, <3>2, <4>1
      <4> QED
        BY <2>0, <2>2, <3>3, <4>2
    <3>4. CASE r \notin Key \ {k}
      BY <2>1, <3>2, <3>4
    <3> QED
      BY <3>3, <3>4
  <2> QED
    BY <1>2, <2>1, <2>2 DEF StoresInto
<1>8. Map' = [m \in Key |-> IF m = k THEN IF k \in {ZeroKey} THEN NULL ELSE v
                            ELSE IF m \in lost THEN NULL ELSE Map[m]]
  BY <1>5, <1>7 DEF Map
<1>9. call' = Contract!Called("set", k, v)
  BY <1>1 DEF Called, Contract!Called
<1> QED
  BY <1>1, <1>7, <1>8, <1>9 DEF Contract!Store, Map, Expand

\* Every step is a step of the contract, or changes nothing of it.
LEMMA NextMaps == IInv /\ [Next]_vars => [Contract!Next]_(Contract!vars)
<1> SUFFICES ASSUME IInv, [Next]_vars PROVE Contract!Next \/ UNCHANGED Contract!vars
  OBVIOUS
<1>1. ASSUME NEW k \in Key, Hit(k) \/ Miss(k) PROVE Contract!Lookup(k)
  <2>1. UNCHANGED <<mode, value, hash>>
    BY <1>1 DEF Hit, Miss
  <2>2. Map' = Map
    BY <2>1 DEF Map, HashGet
  <2>3. call' = Called("get", k, Map[k])
    BY <1>1 DEF Hit, Miss, Map
  <2> QED
    BY <2>1, <2>2, <2>3 DEF Contract!Lookup, Contract!Called, Called, Map, Expand
<1>2. ASSUME NEW k \in Key, NEW v \in Value, Store(k, v) PROVE Contract!Store(k, v)
  BY <1>2, StoreMaps
<1>3. CASE Destroy
  <2>1. mode' = mode /\ hash' = [m \in Key |-> NULL] /\ call' = Called("clear", NULL, NULL)
    BY <1>3 DEF Destroy
  <2>2. Map' = [m \in Key |-> NULL]
    BY <2>1 DEF Map, HashGet
  <2>3. Contract!Destroy
    BY <2>1, <2>2 DEF Contract!Destroy, Contract!Called, Called, Map, Expand
  <2> QED
    BY <2>3 DEF Contract!Next
<1>4. CASE UNCHANGED vars
  <2>1. Map' = Map
    BY <1>4 DEF vars, Map, HashGet
  <2> QED
    BY <1>4, <2>1 DEF vars, Contract!vars, Map, Expand
<1> QED
  BY <1>1, <1>2, <1>3, <1>4 DEF Next, Contract!Next

\* The cache keeps the promise of CacheContract for every capacity, whether it evicts
\* or expands and whatever its client stores.
THEOREM Refinement == Spec => ImplementsContract
<1>1. Init => Contract!Init
  <2> SUFFICES ASSUME Init PROVE Contract!Init
    OBVIOUS
  <2>1. Map = [m \in Key |-> NULL]
    BY DEF Init, Map, HashGet
  <2>2. mode.expand \in BOOLEAN
    BY ModesAssumption DEF Init
  <2>3. call = Contract!Called("new", NULL, NULL)
    BY DEF Init, Called, Contract!Called
  <2> QED
    BY <2>1, <2>2, <2>3 DEF Contract!Init, Map, Expand
<1> QED
  BY <1>1, NextMaps, Invariance, PTL DEF Spec, ImplementsContract, Contract!Spec

--------------------------------------------------------------------------------
(* No memory is held that cannot be reached.                                      *)

Reached ==
  /\ \A i \in 1..Len(queue) : key[queue[i]] \in Key
  /\ NoOrphan

\* A store after a miss: the key has no other item, and an item that goes is the only
\* one of its key.
LEMMA StoreReached ==
  ASSUME IInv, Reached, NEW k \in Key, NEW v \in Value, Store(k, v)
  PROVE  Reached'
<1>1. /\ ClientStores(k) /\ mode' = mode
      /\ \E q, h, c : StoresInto(q, h, c) /\ EnqueueAndSet(q, h, c, k, v)
  BY StoreInto
<1>2. PICK q, h, c : StoresInto(q, h, c) /\ EnqueueAndSet(q, h, c, k, v)
  BY <1>1
<1>3. PICK x \in Item :
        /\ Len(queue') = Len(q) + 1 /\ queue'[1] = x
        /\ \A i \in 2..Len(queue') : queue'[i] = q[i - 1]
        /\ key'[x] = k
        /\ \A i \in 1..Len(q) : key'[q[i]] = key[q[i]]
        /\ \A m \in Key : hash'[m] = IF m = k THEN x ELSE h[m]
  BY <1>2, StoredItem
<1>4. /\ q \in Seq(Item) /\ Len(q) \in Nat
      /\ \A i \in 1..Len(q) : i \in 1..Len(queue) /\ q[i] = queue[i]
      /\ hash \in [Key -> Item \cup {NULL}]
      /\ \A i, j \in 1..Len(queue) : queue[i] = queue[j] => i = j
      /\ queue \in Seq(Item)
  BY <1>2 DEF StoresInto, IInv, TypeOK, QueueOK
<1>5. ASSUME NEW i \in 1..Len(q), MissFirst, key[q[i]] # ZeroKey
      PROVE  h[key[q[i]]] = q[i] /\ key[q[i]] # k
  <2> DEFINE m == key[q[i]]
  <2>1. m \in Key /\ hash[m] = q[i] /\ q[i] \in Item
    BY <1>4, <1>5 DEF Reached, NoOrphan
  <2>2. m # k
    BY <1>1, <1>5, <2>1, NullAssumption DEF ClientStores, HashGet
  <2>3. CASE h = hash
    BY <2>1, <2>2, <2>3
  <2>4. CASE /\ Len(queue) \in Nat \ {0} /\ Len(q) = Len(queue) - 1
             /\ h = HashDel(hash, key[queue[Len(queue)]])
    <3> DEFINE n == Len(queue)
    <3>1. n \in 1..Len(queue) /\ i # n
      BY <2>4, <1>4
    <3>2. key[queue[n]] # m
      <4>1. SUFFICES ASSUME key[queue[n]] = m PROVE FALSE
        OBVIOUS
      <4>2. hash[m] = queue[n]
        BY <4>1, <3>1, <1>5 DEF Reached, NoOrphan
      <4> QED
        BY <4>2, <2>1, <3>1, <1>4
    <3> QED
      BY <2>1, <2>2, <2>4, <3>2, <1>4 DEF HashDel
  <2> QED
    BY <1>2, <2>3, <2>4 DEF StoresInto
<1>6. ASSUME NEW i \in 1..Len(queue'), i # 1
      PROVE  i - 1 \in 1..Len(q) /\ queue'[i] = q[i - 1] /\ key'[queue'[i]] = key[q[i - 1]]
  BY <1>3, <1>4, <1>6
<1>7. \A i \in 1..Len(queue') : key'[queue'[i]] \in Key
  <2>1. \A i \in 1..Len(q) : key[q[i]] \in Key
    BY <1>4 DEF Reached
  <2> QED
    BY <1>3, <1>6, <2>1
<1>8. ASSUME NEW i \in 1..Len(queue'), MissFirst, key'[queue'[i]] # ZeroKey
      PROVE  hash'[key'[queue'[i]]] = queue'[i]
  <2>1. CASE i = 1
    BY <2>1, <1>3
  <2>2. CASE i # 1
    BY <2>2, <1>3, <1>5, <1>6, <1>7, <1>8
  <2> QED
    BY <2>1, <2>2
<1>9. MissFirst' = MissFirst
  BY <1>1 DEF MissFirst
<1> QED
  BY <1>7, <1>8, <1>9 DEF Reached, NoOrphan

\* A hit changes the order only.
LEMMA HitReached ==
  ASSUME IInv, Reached, NEW k \in Key, Hit(k)
  PROVE  Reached'
<1>1. PICK n \in 1..Len(queue) : queue' = ToFront(queue, n)
  BY DEF Hit
<1>2. queue \in Seq(Item) /\ UNCHANGED <<mode, key, hash>>
  BY DEF Hit, IInv, TypeOK
<1>3. Len(queue') = Len(queue) /\ \A i \in 1..Len(queue) : \E j \in 1..Len(queue) : queue'[i] = queue[j]
  <2>1. Len(queue') = Len(queue)
    BY <1>1, <1>2 DEF ToFront
  <2>2. ASSUME NEW i \in 1..Len(queue) PROVE \E j \in 1..Len(queue) : queue'[i] = queue[j]
    <3> DEFINE j == IF i = 1 THEN n ELSE IF i <= n THEN i - 1 ELSE i
    <3>1. j \in 1..Len(queue) /\ queue'[i] = queue[j]
      BY <1>1, <1>2 DEF ToFront
    <3> HIDE DEF j
    <3> QED
      BY <3>1
  <2> QED
    BY <2>1, <2>2
<1>4. MissFirst' = MissFirst
  BY <1>2 DEF MissFirst
<1>5. ASSUME NEW i \in 1..Len(queue')
      PROVE  /\ key'[queue'[i]] \in Key
             /\ MissFirst /\ key'[queue'[i]] # ZeroKey => hash'[key'[queue'[i]]] = queue'[i]
  <2>1. PICK j \in 1..Len(queue) : queue'[i] = queue[j]
    BY <1>3
  <2> QED
    BY <1>2, <2>1 DEF Reached, NoOrphan
<1> QED
  BY <1>4, <1>5 DEF Reached, NoOrphan

\* If every store follows a miss the table leads to every item of the queue, for
\* every capacity: no item is refused by the table, or outlives its entry in it.
THEOREM NothingOrphaned == Spec => []NoOrphan
<1>1. Init => Reached
  BY DEF Init, Reached, NoOrphan
<1>2. IInv /\ Reached /\ [Next]_vars => Reached'
  <2> SUFFICES ASSUME IInv, Reached, [Next]_vars PROVE Reached'
    OBVIOUS
  <2>1. ASSUME NEW k \in Key, Miss(k) PROVE Reached'
    BY <2>1 DEF Miss, Reached, NoOrphan, MissFirst
  <2>2. CASE Destroy
    <3>1. Len(queue') = 0
      BY <2>2 DEF Destroy
    <3> QED
      BY <3>1 DEF Reached, NoOrphan
  <2>3. CASE UNCHANGED vars
    BY <2>3 DEF vars, Reached, NoOrphan, MissFirst
  <2> QED
    BY <2>1, <2>2, <2>3, HitReached, StoreReached DEF Next
<1>3. Reached => NoOrphan
  BY DEF Reached
<1> QED
  BY <1>1, <1>2, <1>3, Invariance, PTL DEF Spec
===============================================================================

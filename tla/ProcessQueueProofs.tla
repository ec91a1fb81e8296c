-------------------------- MODULE ProcessQueueProofs --------------------------
(***************************************************************************)
(* Theorems about ProcessQueue, for any number of tasks and addresses.     *)
(***************************************************************************)
EXTENDS ProcessQueue, WellFoundedInduction, NaturalsInduction, TLAPS

-----------------------------------------------------------------------------
(* The live nodes in the order of their next pointers: s[1], ..., s[size]. *)
InOrder(s) ==
    /\ s \in [1..size -> Addr]
    /\ \A i, j \in 1..size : s[i] = s[j] => i = j
    /\ allocated = {s[i] : i \in 1..size}
    /\ size = 0 => head = NULL
    /\ size > 0 => head = s[1] /\ tail = s[size] /\ next[s[size]] = NULL
    /\ \A i \in 1..size - 1 : next[s[i]] = s[i + 1]

ListInv == \E s : InOrder(s)

(* A set of numbers that is not empty has a least one. *)
LEMMA LeastNumber ==
    ASSUME NEW S, S \subseteq Nat, S # {}
    PROVE  \E n \in S : \A m \in S : n <= m
<1>1. PICK n \in S : \A m \in S : ~(<<m, n>> \in OpToRel(<, Nat))
  BY WFMin, NatLessThanWellFounded, Zenon
<1>2. \A m \in S : ~(m < n)
  BY <1>1 DEF OpToRel
<1> QED
  BY <1>2

(* One round of the walk along the list, from the node x that was reached  *)
(* in the round before.                                                    *)
Walked(i, x) == IF i = 0 THEN NULL ELSE IF i = 1 THEN head ELSE IF x = NULL THEN NULL ELSE next[x]

(* Walking from head meets the nodes in order, and then nothing. *)
LEMMA Walk ==
    ASSUME TypeOK, NEW s, InOrder(s)
    PROVE  \A i \in Nat : Node[i] = IF i \in 1..size THEN s[i] ELSE NULL
<1> DEFINE f == [i \in Nat |-> IF i \in 1..size THEN s[i] ELSE NULL]
           Walks(g) == g = [i \in Nat |-> IF i = 0 THEN NULL ELSE IF i = 1 THEN head
                                          ELSE IF g[i - 1] = NULL THEN NULL ELSE next[g[i - 1]]]
<1>1. Walks(f)
  <2>1. ASSUME NEW i \in Nat PROVE f[i] = Walked(i, f[i - 1])
    <3>1. \A j \in 1..size : s[j] \in Addr /\ s[j] # NULL
      BY NullAssumption DEF InOrder
    <3>2. size \in Nat
      BY DEF TypeOK
    <3>3. CASE i = 0
      BY <3>3, <3>2 DEF Walked
    <3>4. CASE i = 1
      BY <3>4, <3>2 DEF Walked, InOrder
    <3>5. CASE i > 1 /\ i - 1 \in 1..size - 1
      <4>1. f[i] = s[i] /\ f[i - 1] = s[i - 1] /\ i - 1 \in 1..size
        BY <3>2, <3>5
      <4>2. next[s[i - 1]] = s[(i - 1) + 1] /\ (i - 1) + 1 = i
        BY <3>5 DEF InOrder
      <4> QED
        BY <3>1, <3>5, <4>1, <4>2 DEF Walked
    <3>6. CASE i > 1 /\ i - 1 = size
      <4>1. f[i] = NULL /\ f[i - 1] = s[size] /\ size > 0 /\ size \in 1..size
        BY <3>2, <3>6
      <4> QED
        BY <3>1, <3>6, <4>1 DEF Walked, InOrder
    <3>7. CASE i > 1 /\ i - 1 > size
      BY <3>2, <3>7 DEF Walked
    <3> QED
      BY <3>2, <3>3, <3>4, <3>5, <3>6, <3>7
  <2> HIDE DEF f
  <2>2. f = [i \in Nat |-> Walked(i, f[i - 1])]
    BY <2>1 DEF f
  <2> QED
    BY <2>2 DEF Walked
<1> HIDE DEF f
<1>2. Node = CHOOSE g : Walks(g)
  BY DEF Node
<1>3. Walks(Node)
  BY <1>1, <1>2
<1>4. Node = [i \in Nat |-> Walked(i, Node[i - 1])]
  BY <1>3 DEF Walked
<1>5. f = [i \in Nat |-> Walked(i, f[i - 1])]
  BY <1>1 DEF Walked
<1> HIDE DEF Walks
<1> DEFINE S == {i \in Nat : Node[i] # f[i]}
<1>6. S = {}
  <2>1. SUFFICES ASSUME S # {} PROVE FALSE
    OBVIOUS
  <2>2. PICK n \in S : \A m \in S : n <= m
    BY <2>1, LeastNumber
  <2>3. n \in Nat /\ Node[n] # f[n]
    BY <2>2
  <2>4. Node[n] = Walked(n, Node[n - 1]) /\ f[n] = Walked(n, f[n - 1])
    BY <1>4, <1>5, <2>3
  <2>5. n # 0
    BY <2>3, <2>4 DEF Walked
  <2>6. n - 1 \in Nat /\ n - 1 \notin S
    BY <2>2, <2>3, <2>5
  <2> QED
    BY <2>3, <2>4, <2>6
<1> QED
  BY <1>6 DEF f

-----------------------------------------------------------------------------
(* The steps *)

QueueInv == TypeOK /\ ListInv

LEMMA InitQueue == Init => QueueInv
<1> SUFFICES ASSUME Init PROVE QueueInv
  OBVIOUS
<1>1. TypeOK
  BY DEF Init, TypeOK
<1>2. InOrder([i \in 1..0 |-> head])
  BY DEF Init, InOrder
<1> QED
  BY <1>1, <1>2 DEF QueueInv, ListInv

(* The list after enqueue, and after dequeue. *)
Longer(s, n) == [i \in 1..size + 1 |-> IF i = size + 1 THEN n ELSE s[i]]
Shorter(s) == [i \in 1..size - 1 |-> s[i + 1]]

LEMMA Enqueued ==
    ASSUME TypeOK, NEW s, InOrder(s), NEW p \in Task, Enqueue(p)
    PROVE  /\ TypeOK'
           /\ \E n \in Addr \ allocated :
                 /\ \E r : r = Longer(s, n) /\ InOrder(r)'
                 /\ item' = [item EXCEPT ![n] = p] /\ size' = size + 1
<1>1. PICK n \in Addr \ allocated :
         /\ allocated' = allocated \union {n} /\ item' = [item EXCEPT ![n] = p]
         /\ tail' = n /\ size' = size + 1
         /\ IF head = NULL THEN head' = n /\ next' = [next EXCEPT ![n] = NULL]
                           ELSE head' = head /\ next' = [[next EXCEPT ![tail] = n] EXCEPT ![n] = NULL]
  BY DEF Enqueue, NextOfNew, LinkAt, IsEmpty
<1>2. /\ size \in Nat /\ size' \in Nat
      /\ s \in [1..size -> Addr] /\ \A i \in 1..size : s[i] \in Addr /\ s[i] # NULL /\ s[i] # n
  BY <1>1, NullAssumption DEF InOrder, TypeOK
<1>3. head = NULL <=> size = 0
  <2>1. size > 0 => head = s[1] /\ 1 \in 1..size
    BY <1>2 DEF InOrder
  <2> QED
    BY <1>2, <2>1 DEF InOrder
<1>4. TypeOK'
  BY <1>1, <1>2 DEF TypeOK
<1>0. PICK r : r = Longer(s, n)
  OBVIOUS
<1>5. /\ r \in [1..size + 1 -> Addr] /\ r[size + 1] = n
      /\ \A i \in 1..size : r[i] = s[i]
  BY <1>0, <1>1, <1>2 DEF Longer
<1>6. \A i \in 1..size + 1 : i \in 1..size \/ i = size + 1
  BY <1>2
<1>7. \A i, j \in 1..size + 1 : r[i] = r[j] => i = j
  <2>1. \A i, j \in 1..size : r[i] = r[j] => i = j
    BY <1>5 DEF InOrder
  <2> QED
    BY <2>1, <1>2, <1>5, <1>6
<1>8. allocated' = {r[i] : i \in 1..size + 1}
  <2>1. allocated = {r[i] : i \in 1..size}
    BY <1>5 DEF InOrder
  <2>2. size + 1 \in 1..size + 1 /\ 1..size \subseteq 1..size + 1
    BY <1>2
  <2> QED
    BY <2>1, <2>2, <1>1, <1>5, <1>6
<1>9. head' = r[1]
  <2>1. CASE size = 0
    BY <2>1, <1>1, <1>3, <1>5
  <2>2. CASE size > 0
    BY <2>2, <1>1, <1>2, <1>3, <1>5 DEF InOrder
  <2> QED
    BY <2>1, <2>2, <1>2
<1>10. next'[n] = NULL
  BY <1>1 DEF TypeOK
<1>11. ASSUME NEW i \in 1..size PROVE next'[s[i]] = IF i = size THEN n ELSE next[s[i]]
  <2>1. size > 0 /\ head # NULL /\ tail = s[size] /\ size \in 1..size
    BY <1>2, <1>3, <1>11 DEF InOrder
  <2>2. next' = [[next EXCEPT ![tail] = n] EXCEPT ![n] = NULL]
    BY <1>1, <2>1
  <2>3. s[i] # n /\ s[i] \in Addr /\ (s[i] = tail <=> i = size)
    BY <1>2, <2>1, <1>11 DEF InOrder
  <2> QED
    BY <2>1, <2>2, <2>3 DEF TypeOK
<1>12. ASSUME NEW i \in 1..size PROVE next'[r[i]] = r[i + 1]
  <2>1. CASE i = size
    BY <2>1, <1>5, <1>11
  <2>2. CASE i # size
    <3>1. i \in 1..size - 1 /\ i + 1 \in 1..size
      BY <2>2, <1>2
    <3> QED
      BY <3>1, <2>2, <1>5, <1>11 DEF InOrder
  <2> QED
    BY <2>1, <2>2
<1>13. InOrder(r)'
  <2>1. size' = size + 1 /\ (size + 1) - 1 = size /\ size + 1 > 0
    BY <1>1, <1>2
  <2>2. /\ r \in [1..size' -> Addr]
        /\ \A i, j \in 1..size' : r[i] = r[j] => i = j
        /\ allocated' = {r[i] : i \in 1..size'}
    BY <2>1, <1>5, <1>7, <1>8
  <2>3. size' # 0 /\ head' = r[1] /\ tail' = r[size'] /\ next'[r[size']] = NULL
    BY <2>1, <1>1, <1>5, <1>9, <1>10
  <2>4. \A i \in 1..size' - 1 : next'[r[i]] = r[i + 1]
    BY <2>1, <1>12
  <2> QED
    BY <2>2, <2>3, <2>4 DEF InOrder
<1> QED
  BY <1>0, <1>1, <1>4, <1>13

LEMMA Dequeued ==
    ASSUME TypeOK, NEW s, InOrder(s), Dequeue
    PROVE  /\ TypeOK' /\ size > 0 /\ size' = size - 1 /\ item' = item
           /\ \E r : r = Shorter(s) /\ InOrder(r)'
<1>0. PICK r : r = Shorter(s)
  OBVIOUS
<1>1. /\ head # NULL /\ head' = next[head] /\ size' = size - 1
      /\ allocated' = allocated \ {head} /\ UNCHANGED <<tail, item, next>>
  BY DEF Dequeue
<1>2. /\ size \in Nat /\ size > 0 /\ head = s[1]
      /\ s \in [1..size -> Addr] /\ 1 \in 1..size
  BY <1>1 DEF InOrder, TypeOK
<1>3. TypeOK'
  BY <1>1, <1>2 DEF TypeOK
<1>4. /\ r \in [1..size - 1 -> Addr]
      /\ \A i \in 1..size - 1 : r[i] = s[i + 1] /\ i + 1 \in 1..size
  BY <1>0, <1>2 DEF Shorter
<1>5. \A i, j \in 1..size - 1 : r[i] = r[j] => i = j
  <2>1. \A i, j \in 1..size - 1 : r[i] = r[j] => i + 1 = j + 1
    BY <1>4 DEF InOrder
  <2> QED
    BY <2>1
<1>6. allocated' = {r[i] : i \in 1..size - 1}
  <2>1. ASSUME NEW a \in allocated, a # head PROVE \E i \in 1..size - 1 : a = r[i]
    <3>1. PICK i \in 1..size : a = s[i]
      BY DEF InOrder
    <3>2. i - 1 \in 1..size - 1 /\ (i - 1) + 1 = i
      BY <3>1, <2>1, <1>2
    <3> QED
      BY <3>1, <3>2, <1>4
  <2>2. ASSUME NEW i \in 1..size - 1 PROVE r[i] \in allocated /\ r[i] # head
    <3>1. i + 1 # 1
      OBVIOUS
    <3> QED
      BY <3>1, <1>2, <1>4 DEF InOrder
  <2> QED
    BY <2>1, <2>2, <1>1
<1>7. size - 1 = 0 => head' = NULL
  BY <1>1, <1>2 DEF InOrder
<1>8. ASSUME size - 1 > 0 PROVE head' = r[1] /\ tail' = r[size - 1] /\ next'[r[size - 1]] = NULL
  <2>1. 1 \in 1..size - 1 /\ size - 1 \in 1..size - 1 /\ (size - 1) + 1 = size
    BY <1>2, <1>8
  <2> QED
    BY <2>1, <1>1, <1>2, <1>4 DEF InOrder
<1>9. ASSUME NEW i \in 1..(size - 1) - 1 PROVE next'[r[i]] = r[i + 1]
  <2>1. i \in 1..size - 1 /\ i + 1 \in 1..size - 1
    BY <1>2
  <2> QED
    BY <2>1, <1>1, <1>4 DEF InOrder
<1>10. InOrder(r)'
  <2>1. size' = size - 1
    BY <1>1
  <2>2. /\ r \in [1..size' -> Addr]
        /\ \A i, j \in 1..size' : r[i] = r[j] => i = j
        /\ allocated' = {r[i] : i \in 1..size'}
    BY <2>1, <1>4, <1>5, <1>6
  <2>3. /\ size' = 0 => head' = NULL
        /\ size' > 0 => head' = r[1] /\ tail' = r[size'] /\ next'[r[size']] = NULL
    BY <2>1, <1>7, <1>8
  <2>4. \A i \in 1..size' - 1 : next'[r[i]] = r[i + 1]
    BY <2>1, <1>9
  <2> QED
    BY <2>2, <2>3, <2>4 DEF InOrder
<1> QED
  BY <1>0, <1>1, <1>2, <1>3, <1>10

LEMMA StepQueue == QueueInv /\ [Next]_vars => QueueInv'
<1> SUFFICES ASSUME QueueInv, [Next]_vars PROVE QueueInv'
  OBVIOUS
<1>1. PICK s : InOrder(s)
  BY DEF QueueInv, ListInv
<1>2. ASSUME NEW p \in Task, Enqueue(p) PROVE QueueInv'
  BY <1>1, <1>2, Enqueued DEF QueueInv, ListInv
<1>3. CASE Dequeue
  BY <1>1, <1>3, Dequeued DEF QueueInv, ListInv
<1>4. CASE UNCHANGED vars
  BY <1>4 DEF vars, QueueInv, ListInv, TypeOK, InOrder
<1> QED
  BY <1>2, <1>3, <1>4 DEF Next

(* The fields keep their types. *)
THEOREM QueueType == Spec => []TypeOK
<1>1. QueueInv => TypeOK
  BY DEF QueueInv
<1> QED
  BY <1>1, InitQueue, StepQueue, PTL DEF Spec

LEMMA WellFormedFollows == QueueInv => WellFormed
<1> SUFFICES ASSUME QueueInv PROVE WellFormed
  OBVIOUS
<1>1. PICK s : InOrder(s)
  BY DEF QueueInv, ListInv
<1>2. size \in Nat
  BY DEF QueueInv, TypeOK
<1>3. \A i \in Nat : Node[i] = IF i \in 1..size THEN s[i] ELSE NULL
  BY <1>1, Walk DEF QueueInv
<1>4. \A i \in 1..size : Node[i] = s[i]
  BY <1>2, <1>3
<1>5. Node[size + 1] = NULL
  BY <1>2, <1>3
<1>6. size > 0 => size \in 1..size
  BY <1>2
<1> QED
  BY <1>1, <1>4, <1>5, <1>6 DEF WellFormed, InOrder

(* The list that starts at head is as long as size says, no node leaks     *)
(* and tail is its last node as long as it has one: although dequeue       *)
(* leaves tail at a node that kmalloc may hand out again, enqueue never    *)
(* writes to freed memory.                                                 *)
THEOREM QueueWellFormed == Spec => []WellFormed
BY InitQueue, StepQueue, WellFormedFollows, PTL DEF Spec

-----------------------------------------------------------------------------
(* What the list holds. *)

LEMMA Listed ==
    ASSUME TypeOK, NEW s, InOrder(s)
    PROVE  Contents = [i \in 1..size |-> item[s[i]]]
<1>1. size \in Nat
  BY DEF TypeOK
<1>2. \A i \in 1..size : Node[i] = s[i] /\ s[i] # NULL
  BY <1>1, Walk, NullAssumption DEF InOrder
<1> QED
  BY <1>2 DEF Contents

Holding == \A s : InOrder(s) => Contents = [i \in 1..size |-> item[s[i]]]

LEMMA ListHolds == TypeOK => Holding
BY Listed DEF Holding

LEMMA QueueRefines == QueueInv /\ [Next]_vars => [Queue!Next]_Contents
<1> SUFFICES ASSUME QueueInv, [Next]_vars PROVE [Queue!Next]_Contents
  OBVIOUS
<1>1. TypeOK /\ size \in Nat
  BY DEF QueueInv, TypeOK
<1>2. PICK s : InOrder(s)
  BY DEF QueueInv, ListInv
<1>3. /\ Contents = [i \in 1..size |-> item[s[i]]] /\ Contents \in Seq(Task \union {NULL})
      /\ s \in [1..size -> Addr] /\ Len(Contents) = size
      /\ item \in [Addr -> Task \union {NULL}]
  <2>1. Contents = [i \in 1..size |-> item[s[i]]]
    BY <1>1, <1>2, Listed
  <2>2. \A i \in 1..size : item[s[i]] \in Task \union {NULL}
    BY <1>1, <1>2 DEF InOrder, TypeOK
  <2> QED
    BY <2>1, <2>2, <1>1, <1>2 DEF InOrder, TypeOK
<1>4. ASSUME NEW p \in Task, Enqueue(p) PROVE Queue!Put(p)
  <2>1. PICK n \in Addr \ allocated :
           /\ TypeOK' /\ \E r : r = Longer(s, n) /\ InOrder(r)'
           /\ item' = [item EXCEPT ![n] = p] /\ size' = size + 1
    BY <1>1, <1>2, <1>4, Enqueued
  <2> PICK r : r = Longer(s, n) /\ InOrder(r)'
    BY <2>1
  <2>2. Holding'
    BY <2>1, ListHolds, PTL
  <2>3. Contents' = [i \in 1..size + 1 |-> item'[r[i]]]
    BY <2>1, <2>2 DEF Holding
  <2>4. \A i \in 1..size : s[i] # n /\ s[i] \in Addr
    BY <1>2, <2>1 DEF InOrder
  <2>5. ASSUME NEW i \in 1..size + 1 PROVE item'[r[i]] = Append(Contents, p)[i]
    <3>1. CASE i = size + 1
      BY <3>1, <2>1, <1>1, <1>3 DEF Longer
    <3>2. CASE i \in 1..size
      <4>1. r[i] = s[i] /\ item'[s[i]] = item[s[i]]
        BY <3>2, <2>1, <2>4, <1>1, <1>3 DEF Longer
      <4>2. Append(Contents, p)[i] = Contents[i] /\ Contents[i] = item[s[i]]
        BY <3>2, <1>1, <1>3
      <4> QED
        BY <4>1, <4>2
    <3>3. i = size + 1 \/ i \in 1..size
      BY <1>1
    <3> QED
      BY <3>1, <3>2, <3>3, Zenon
  <2>6. Append(Contents, p) = [i \in 1..size + 1 |-> Append(Contents, p)[i]]
    BY <1>1, <1>3
  <2>7. Contents' = Append(Contents, p)
    BY <2>3, <2>5, <2>6, Zenon
  <2> QED
    BY <2>7 DEF Queue!Put
<1>5. ASSUME Dequeue PROVE Queue!Take
  <2>1. PICK r : /\ TypeOK' /\ r = Shorter(s) /\ InOrder(r)'
                 /\ size > 0 /\ size' = size - 1 /\ item' = item
    BY <1>1, <1>2, <1>5, Dequeued
  <2>2. Holding'
    BY <2>1, ListHolds, PTL
  <2>3. Contents' = [i \in 1..size - 1 |-> item[r[i]]]
    BY <2>1, <2>2 DEF Holding
  <2>4. ASSUME NEW i \in 1..size - 1 PROVE item[r[i]] = Contents[i + 1]
    BY <2>1, <1>1, <1>3 DEF Shorter
  <2>5. Contents # <<>>
    <3>1. Len(Contents) # 0
      BY <2>1, <1>1, <1>3
    <3>2. Len(<<>>) = 0
      OBVIOUS
    <3> QED
      BY <3>1, <3>2, Zenon
  <2>6. Tail(Contents) = [i \in 1..size - 1 |-> Contents[i + 1]]
    BY <2>1, <2>5, <1>1, <1>3
  <2>7. Contents' = Tail(Contents)
    BY <2>3, <2>4, <2>6, Zenon
  <2> QED
    BY <2>5, <2>7 DEF Queue!Take
<1>6. CASE UNCHANGED vars
  BY <1>6 DEF vars, Contents, Node
<1> QED
  BY <1>4, <1>5, <1>6 DEF Next, Queue!Next

LEMMA QueueStarts == Init => Queue!Init
<1> SUFFICES ASSUME Init PROVE Contents = <<>>
  BY DEF Queue!Init
<1>1. size = 0
  BY DEF Init
<1> QED
  BY <1>1 DEF Contents

(* The linked list over reused memory is a first-in first-out queue of the *)
(* processes that down puts to sleep: up wakes them in the order in which  *)
(* they came.                                                              *)
THEOREM QueueImplementsFifo == Spec => ImplementsFifo
BY InitQueue, StepQueue, QueueStarts, QueueRefines, PTL DEF Spec, ImplementsFifo, Queue!Spec

=============================================================================

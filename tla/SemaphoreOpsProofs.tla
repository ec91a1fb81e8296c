------------------------- MODULE SemaphoreOpsProofs -------------------------
(***************************************************************************)
(* Lemmas about the process_list of a semaphore, used by the proofs about  *)
(* Semaphore and about TrafficSim.                                         *)
(***************************************************************************)
EXTENDS SemaphoreOps, TLAPS

(* The two operations on a list of sleepers: what is on it afterwards, and *)
(* that it still has every process once.                                   *)

LEMMA EnqueueLists ==
    ASSUME NEW S, NEW list \in Seq(S), NEW p \in S, p \notin Listed(list), Once(list)
    PROVE  /\ Enqueue(list, p) \in Seq(S)
           /\ Len(Enqueue(list, p)) = Len(list) + 1
           /\ Listed(Enqueue(list, p)) = Listed(list) \union {p}
           /\ Once(Enqueue(list, p))
<1> DEFINE new == Enqueue(list, p)
<1>1. new \in Seq(S) /\ Len(new) = Len(list) + 1
  BY DEF Enqueue
<1>2. \A i \in 1..Len(list) : new[i] = list[i]
  BY DEF Enqueue
<1>3. new[Len(list) + 1] = p
  BY DEF Enqueue
<1>4. Listed(new) = Listed(list) \union {p}
  <2>1. \A i \in 1..Len(new) : i \in 1..Len(list) \/ i = Len(list) + 1
    BY <1>1
  <2>2. Len(list) + 1 \in 1..Len(new) /\ 1..Len(list) \subseteq 1..Len(new)
    BY <1>1
  <2> QED
    BY <1>2, <1>3, <2>1, <2>2 DEF Listed
<1>5. Once(new)
  BY <1>1, <1>2, <1>3 DEF Once, Listed
<1> QED
  BY <1>1, <1>4, <1>5

LEMMA DequeueLists ==
    ASSUME NEW S, NEW list \in Seq(S), list # <<>>, Once(list)
    PROVE  /\ DequeueRest(list) \in Seq(S)
           /\ Len(DequeueRest(list)) = Len(list) - 1
           /\ DequeueItem(list) \in Listed(list)
           /\ Listed(DequeueRest(list)) = Listed(list) \ {DequeueItem(list)}
           /\ Once(DequeueRest(list))
<1> DEFINE new == DequeueRest(list)
<1>1. Len(list) \in Nat \ {0} /\ DequeueItem(list) = list[1]
  BY DEF DequeueItem
<1>2. new \in Seq(S) /\ Len(new) = Len(list) - 1
  BY DEF DequeueRest
<1>3. \A i \in 1..Len(new) : new[i] = list[i + 1]
  BY DEF DequeueRest
<1>4. Listed(new) = Listed(list) \ {list[1]}
  <2>1. \A i \in 1..Len(new) : i + 1 \in 1..Len(list) /\ i + 1 # 1
    BY <1>1, <1>2
  <2>2. \A i \in 1..Len(list) : i # 1 => i - 1 \in 1..Len(new) /\ (i - 1) + 1 = i
    BY <1>1, <1>2
  <2>3. Listed(new) \subseteq Listed(list) \ {list[1]}
    BY <1>1, <1>3, <2>1 DEF Listed, Once
  <2>4. ASSUME NEW i \in 1..Len(list), list[i] # list[1]
        PROVE  list[i] \in Listed(new)
    <3> DEFINE k == i - 1
    <3>1. k \in 1..Len(new) /\ k + 1 = i
      BY <2>2, <2>4
    <3>2. new[k] = list[i]
      BY <1>3, <3>1
    <3> HIDE DEF k, new
    <3> QED
      BY <3>1, <3>2 DEF Listed
  <2> QED
    BY <2>3, <2>4 DEF Listed
<1>5. Once(new)
  BY <1>1, <1>2, <1>3 DEF Once
<1>6. list[1] \in Listed(list)
  BY <1>1 DEF Listed
<1> QED
  BY <1>1, <1>2, <1>4, <1>5, <1>6
=============================================================================

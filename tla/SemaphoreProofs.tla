--------------------------- MODULE SemaphoreProofs ---------------------------
(***************************************************************************)
(* Theorems about Semaphore, for any finite set of processes and any       *)
(* number of resources.                                                    *)
(*                                                                         *)
(* The inductive invariant is                                              *)
(*                                                                         *)
(*     TypeOK /\ ListHoldsSleepers /\ ValueCounts :                        *)
(*                                                                         *)
(* AtMostNumResources alone says nothing of who will be granted a resource *)
(* next.  An up that wakes keeps the number of holders because the head of *)
(* the list is a sleeper and not a holder (ListHoldsSleepers); an up that  *)
(* wakes nobody, and a down that does not sleep, because the value then    *)
(* counts the free resources (ValueCounts).                                *)
(***************************************************************************)
EXTENDS Semaphore, SemaphoreOpsProofs, FiniteSetTheorems

IInv == TypeOK /\ ListHoldsSleepers /\ ValueCounts

-----------------------------------------------------------------------------
(* Moving one process in or out of the set of holders. *)

LEMMA GrantedFinite == IsFiniteSet(Granted) /\ Cardinality(Granted) \in Nat
<1>1. Granted \subseteq Proc
  BY DEF Granted
<1> QED
  BY <1>1, ProcAssumption, FS_Subset, FS_CardinalityType

-----------------------------------------------------------------------------
(* The invariant holds initially: nobody holds or waits. *)
LEMMA InitIInv == Init => IInv
<1> SUFFICES ASSUME Init PROVE IInv
  OBVIOUS
<1>1. Listed(sem.process_list) = {} /\ Waiting = {} /\ Granted = {}
  BY DEF Init, SemInit, Listed, Waiting, Granted
<1>2. TypeOK
  BY NumResourcesAssumption DEF Init, SemInit, TypeOK, Phases
<1>3. ListHoldsSleepers
  BY <1>1 DEF Init, SemInit, ListHoldsSleepers, Once
<1>4. ValueCounts
  BY <1>1, FS_EmptySet, NumResourcesAssumption DEF Init, SemInit, ValueCounts
<1> QED
  BY <1>2, <1>3, <1>4 DEF IInv

(* sys_cs1550_down preserves it. *)
LEMMA DownIInv == ASSUME IInv, NEW p \in Proc, Down(p) PROVE IInv'
<1> USE DEF IInv, Phases
<1> DEFINE list == sem.process_list
<1>1. /\ sem.value \in Int /\ list \in Seq(Proc) /\ phase[p] = "idle"
      /\ Once(list) /\ Listed(list) = Waiting
      /\ p \notin Waiting /\ p \notin Granted
  BY DEF TypeOK, ListHoldsSleepers, Down, Waiting, Granted, Once
<1>2. CASE DownSleeps(sem)
  <2>1. /\ sem'.value = sem.value - 1 /\ sem.value <= 0
        /\ sem'.process_list = Enqueue(list, p)
        /\ sem' = [value |-> sem.value - 1, process_list |-> Enqueue(list, p)]
        /\ phase' = [phase EXCEPT ![p] = "waiting"]
    BY <1>1, <1>2 DEF Down, DownSem, DownSleeps
  <2>2. /\ sem'.process_list \in Seq(Proc) /\ Once(sem'.process_list)
        /\ Len(sem'.process_list) = Len(list) + 1
        /\ Listed(sem'.process_list) = Waiting \union {p}
    BY <1>1, <2>1, EnqueueLists
  <2>3. Waiting' = Waiting \union {p} /\ Granted' = Granted
    BY <1>1, <2>1 DEF TypeOK, Waiting, Granted
  <2>4. TypeOK'
    BY <1>1, <2>1, <2>2 DEF TypeOK
  <2>5. ListHoldsSleepers'
    BY <2>2, <2>3 DEF ListHoldsSleepers, Once
  <2>6. ValueCounts'
    <3>1. Len(list) = -sem.value /\ Cardinality(Granted) = NumResources
      BY <1>1, <2>1, NumResourcesAssumption DEF ValueCounts
    <3> QED
      BY <1>1, <2>1, <2>2, <2>3, <3>1 DEF ValueCounts
  <2> QED
    BY <2>4, <2>5, <2>6
<1>3. CASE ~DownSleeps(sem)
  <2>1. /\ sem'.value = sem.value - 1 /\ sem.value >= 1
        /\ sem'.process_list = list
        /\ sem' = [value |-> sem.value - 1, process_list |-> list]
        /\ phase' = [phase EXCEPT ![p] = "granted"]
    BY <1>1, <1>3 DEF Down, DownSem, DownSleeps
  <2>2. Waiting' = Waiting /\ Granted' = Granted \union {p}
    BY <1>1, <2>1 DEF TypeOK, Waiting, Granted
  <2>3. TypeOK'
    BY <1>1, <2>1 DEF TypeOK
  <2>4. ListHoldsSleepers'
    BY <2>1, <2>2 DEF ListHoldsSleepers
  <2>5. ValueCounts'
    <3>1. Cardinality(Granted') = Cardinality(Granted) + 1
      BY <1>1, <2>2, GrantedFinite, FS_AddElement
    <3>2. list = <<>> /\ Cardinality(Granted) = NumResources - sem.value
      BY <2>1, <1>1 DEF ValueCounts
    <3>3. Cardinality(Granted)' = NumResources - sem'.value
      BY <1>1, <2>1, <3>1, <3>2, NumResourcesAssumption
    <3> QED
      BY <1>1, <2>1, <3>2, <3>3 DEF ValueCounts
  <2> QED
    BY <2>3, <2>4, <2>5
<1> QED
  BY <1>2, <1>3

(* sys_cs1550_up preserves it. *)
LEMMA UpIInv == ASSUME IInv, NEW p \in Proc, Up(p) PROVE IInv'
<1> USE DEF IInv, Phases
<1> DEFINE list == sem.process_list
<1>1. /\ sem.value \in Int /\ list \in Seq(Proc) /\ phase[p] = "granted"
      /\ Once(list) /\ Listed(list) = Waiting
      /\ p \notin Waiting /\ p \in Granted
  BY DEF TypeOK, ListHoldsSleepers, Up, Waiting, Granted, Once
<1>2. CASE UpWakes(sem)
  <2> DEFINE q == DequeueItem(list)
  <2>1. /\ sem'.value = sem.value + 1 /\ sem.value <= -1
        /\ sem'.process_list = DequeueRest(list)
        /\ sem' = [value |-> sem.value + 1, process_list |-> DequeueRest(list)]
        /\ Woken(sem) = {q}
    BY <1>1, <1>2 DEF Up, UpSem, UpWakes, Woken
  <2>2. Len(list) = -sem.value /\ Cardinality(Granted) = NumResources
    BY <2>1, <1>1 DEF ValueCounts
  <2>3. list # <<>>
    BY <1>1, <2>1, <2>2
  <2>4. /\ sem'.process_list \in Seq(Proc) /\ Once(sem'.process_list)
        /\ Len(sem'.process_list) = Len(list) - 1
        /\ q \in Waiting
        /\ Listed(sem'.process_list) = Waiting \ {q}
    BY <1>1, <2>1, <2>3, DequeueLists
  <2>5. q \in Proc /\ phase[q] = "waiting" /\ q # p
    BY <2>4, <1>1 DEF Waiting
  <2>6. phase' = [r \in Proc |-> IF r = q THEN "granted"
                                 ELSE IF r = p THEN "idle" ELSE phase[r]]
    BY <2>1 DEF Up
  <2>7. Waiting' = Waiting \ {q} /\ Granted' = (Granted \ {p}) \union {q}
    BY <1>1, <2>5, <2>6 DEF TypeOK, Waiting, Granted
  <2>8. TypeOK'
    BY <1>1, <2>1, <2>4, <2>6 DEF TypeOK
  <2>9. ListHoldsSleepers'
    BY <2>4, <2>7 DEF ListHoldsSleepers, Once
  <2>10. ValueCounts'
    <3>1. q \notin Granted
      BY <2>5 DEF Granted
    <3>2. IsFiniteSet(Granted \ {p}) /\ Cardinality(Granted \ {p}) = NumResources - 1
      BY <1>1, <2>2, GrantedFinite, FS_RemoveElement
    <3>3. Cardinality((Granted \ {p}) \union {q}) = NumResources - 1 + 1
      BY <3>1, <3>2, FS_AddElement
    <3>4. Cardinality(Granted)' = NumResources
      BY <2>7, <3>3, NumResourcesAssumption
    <3>5. Len(sem'.process_list) = -sem'.value
      BY <1>1, <2>1, <2>2, <2>4
    <3>6. CASE sem'.value < 0
      BY <3>4, <3>5, <3>6 DEF ValueCounts
    <3>7. CASE ~(sem'.value < 0)
      <4>1. sem'.value = 0
        BY <1>1, <2>1, <3>7
      <4>2. sem'.process_list = <<>>
        BY <2>4, <3>5, <4>1
      <4> QED
        BY <3>4, <4>1, <4>2, NumResourcesAssumption DEF ValueCounts
    <3> QED
      BY <3>6, <3>7
  <2> QED
    BY <2>8, <2>9, <2>10
<1>3. CASE ~UpWakes(sem)
  <2>1. /\ sem'.value = sem.value + 1 /\ sem.value >= 0
        /\ sem'.process_list = list
        /\ sem' = [value |-> sem.value + 1, process_list |-> list]
        /\ Woken(sem) = {}
    BY <1>1, <1>3 DEF Up, UpSem, UpWakes, Woken
  <2>2. phase' = [r \in Proc |-> IF r = p THEN "idle" ELSE phase[r]]
    BY <2>1 DEF Up
  <2>3. Waiting' = Waiting /\ Granted' = Granted \ {p}
    BY <1>1, <2>2 DEF TypeOK, Waiting, Granted
  <2>4. TypeOK'
    BY <1>1, <2>1, <2>2 DEF TypeOK
  <2>5. ListHoldsSleepers'
    BY <2>1, <2>3 DEF ListHoldsSleepers
  <2>6. ValueCounts'
    <3>1. Cardinality(Granted \ {p}) = Cardinality(Granted) - 1
      BY <1>1, GrantedFinite, FS_RemoveElement
    <3>2. list = <<>> /\ Cardinality(Granted) = NumResources - sem.value
      BY <2>1, <1>1 DEF ValueCounts
    <3>3. Cardinality(Granted)' = NumResources - sem'.value
      BY <1>1, <2>1, <2>3, <3>1, <3>2, NumResourcesAssumption
    <3> QED
      BY <1>1, <2>1, <3>2, <3>3 DEF ValueCounts
  <2> QED
    BY <2>4, <2>5, <2>6
<1> QED
  BY <1>2, <1>3

LEMMA StepIInv == IInv /\ [Next]_vars => IInv'
<1> SUFFICES ASSUME IInv, [Next]_vars PROVE IInv'
  OBVIOUS
<1>1. CASE Next
  BY <1>1, DownIInv, UpIInv DEF Next
<1>2. CASE UNCHANGED vars
  BY <1>2 DEF vars, IInv, TypeOK, ListHoldsSleepers, ValueCounts, Waiting, Granted
<1> QED
  BY <1>1, <1>2

-----------------------------------------------------------------------------
(* The inductive invariant of the semaphore. *)
THEOREM SemaphoreInvariant == Spec => []IInv
BY InitIInv, StepIInv, PTL DEF Spec

(* Whatever the calls of down and up: the value and the list keep their    *)
(* types (sys_cs1550_sem_init, sys_cs1550_down, sys_cs1550_up).            *)
THEOREM SemaphoreType == Spec => []TypeOK
<1>1. IInv => TypeOK
  BY DEF IInv
<1> QED
  BY <1>1, SemaphoreInvariant, PTL

(* Every sleeper of sys_cs1550_down is on the list, once. *)
THEOREM SemaphoreLists == Spec => []ListHoldsSleepers
<1>1. IInv => ListHoldsSleepers
  BY DEF IInv
<1> QED
  BY <1>1, SemaphoreInvariant, PTL

(* The value counts the sleepers or the free resources. *)
THEOREM SemaphoreCounts == Spec => []ValueCounts
<1>1. IInv => ValueCounts
  BY DEF IInv
<1> QED
  BY <1>1, SemaphoreInvariant, PTL

(* Never more processes past sys_cs1550_down than there are resources. *)
THEOREM SemaphoreSafety == Spec => []AtMostNumResources
<1>1. IInv => AtMostNumResources
  BY NumResourcesAssumption, GrantedFinite DEF IInv, TypeOK, ValueCounts, AtMostNumResources
<1> QED
  BY <1>1, SemaphoreInvariant, PTL

(* A place on the list: whoever is before another stays so until it is     *)
(* woken.                                                                  *)
LEMMA DownKeepsOrder ==
    ASSUME IInv, NEW p \in Proc, NEW q \in Proc, NEW r \in Proc, Down(r), Before(p, q)
    PROVE  Before(p, q)'
<1> DEFINE list == sem.process_list
<1>1. /\ sem.value \in Int /\ list \in Seq(Proc) /\ phase \in [Proc -> Phases]
      /\ phase[p] = "waiting" /\ phase[q] # "granted" /\ phase[r] = "idle"
  BY DEF IInv, TypeOK, Down, Before
<1>2. PICK i \in 1..Len(list) : list[i] = p
  BY <1>1 DEF IInv, ListHoldsSleepers, Listed, Waiting
<1>3. sem.value < 0
  <2>1. list # <<>>
    BY <1>1, <1>2
  <2> QED
    BY <1>1, <2>1 DEF IInv, ValueCounts
<1>4. /\ sem'.process_list = Append(list, r)
      /\ phase' = [phase EXCEPT ![r] = "waiting"]
  <2>1. DownSleeps(sem)
    BY <1>1, <1>3 DEF DownSleeps
  <2> QED
    BY <2>1 DEF Down, DownSem, Enqueue
<1>5. /\ Len(sem'.process_list) = Len(list) + 1
      /\ \A k \in 1..Len(list) : sem'.process_list[k] = list[k]
      /\ sem'.process_list[Len(list) + 1] = r
  BY <1>1, <1>4
<1>6. phase'[p] = "waiting" /\ phase'[q] # "granted"
  BY <1>1, <1>4
<1>7. CASE q = r
  BY <1>1, <1>2, <1>5, <1>6, <1>7 DEF Before
<1>8. CASE q # r
  BY <1>1, <1>4, <1>5, <1>6, <1>8 DEF Before
<1> QED
  BY <1>7, <1>8

LEMMA UpKeepsOrder ==
    ASSUME IInv, NEW p \in Proc, NEW q \in Proc, NEW r \in Proc, Up(r), Before(p, q),
           phase'[p] = "waiting"
    PROVE  Before(p, q)'
<1> DEFINE list == sem.process_list
<1>1. /\ sem.value \in Int /\ list \in Seq(Proc) /\ phase \in [Proc -> Phases]
      /\ phase[p] = "waiting" /\ phase[q] # "granted" /\ phase[r] = "granted"
  BY DEF IInv, TypeOK, Up, Before
<1>2. PICK i \in 1..Len(list) : list[i] = p
  BY <1>1 DEF IInv, ListHoldsSleepers, Listed, Waiting
<1>3. UpWakes(sem)
  <2>1. list # <<>>
    BY <1>1, <1>2
  <2> QED
    BY <1>1, <2>1 DEF IInv, ValueCounts, UpWakes
<1>4. /\ sem'.process_list = Tail(list) /\ Woken(sem) = {list[1]}
      /\ \A k \in Proc : phase'[k] = IF k = list[1] THEN "granted"
                                     ELSE IF k = r THEN "idle" ELSE phase[k]
  BY <1>1, <1>2, <1>3 DEF Up, UpSem, Woken, DequeueRest, DequeueItem
<1>5. /\ Len(sem'.process_list) = Len(list) - 1
      /\ \A k \in 1..Len(list) - 1 : sem'.process_list[k] = list[k + 1]
  BY <1>1, <1>2, <1>4
<1>6. p # list[1]
  BY <1>4
<1>7. CASE phase[q] = "waiting"
  <2>1. PICK j, k \in 1..Len(list) : j < k /\ list[j] = p /\ list[k] = q
    BY <1>7 DEF Before
  <2>2. j # 1 /\ 1 \in 1..Len(list)
    BY <1>6, <2>1
  <2>3. q # list[1]
    BY <2>1, <2>2 DEF IInv, ListHoldsSleepers, Once
  <2>4. /\ j - 1 \in 1..Len(sem'.process_list) /\ k - 1 \in 1..Len(sem'.process_list)
        /\ sem'.process_list[j - 1] = p /\ sem'.process_list[k - 1] = q
        /\ j - 1 < k - 1
    BY <1>1, <1>5, <2>1, <2>2
  <2> DEFINE m == j - 1
             n == k - 1
  <2>5. \E a, b \in 1..Len(sem'.process_list) :
           a < b /\ sem'.process_list[a] = p /\ sem'.process_list[b] = q
    <3> HIDE DEF m, n
    <3>1. /\ m \in 1..Len(sem'.process_list) /\ n \in 1..Len(sem'.process_list)
          /\ sem'.process_list[m] = p /\ sem'.process_list[n] = q /\ m < n
      BY <2>4 DEF m, n
    <3> QED
      BY <3>1
  <2> QED
    BY <1>1, <1>4, <1>7, <2>3, <2>5 DEF Before
<1>8. CASE phase[q] # "waiting"
  <2>1. q # list[1]
    BY <1>1, <1>2, <1>8 DEF IInv, ListHoldsSleepers, Listed, Waiting
  <2> QED
    BY <1>1, <1>4, <1>8, <2>1 DEF Before
<1> QED
  BY <1>7, <1>8

(* First come, first served: nobody overtakes a sleeper of sys_cs1550_down, *)
(* neither from behind it on the list nor by calling down later.            *)
THEOREM SemaphoreFifo == Spec => FirstComeFirstServed
<1> DEFINE NoOvertaking == \A p, q \in Proc :
              Before(p, q) /\ phase'[p] = "waiting" => Before(p, q)'
<1>1. ASSUME IInv, Next PROVE NoOvertaking
  BY <1>1, DownKeepsOrder, UpKeepsOrder DEF Next
<1>2. ASSUME IInv, [Next]_vars PROVE [NoOvertaking]_vars
  BY <1>1, <1>2
<1> QED
  BY <1>2, SemaphoreInvariant, PTL DEF Spec, FirstComeFirstServed
=============================================================================

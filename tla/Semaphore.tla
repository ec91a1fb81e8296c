------------------------------ MODULE Semaphore ------------------------------
(***************************************************************************)
(* The abstract specification of a cs1550 semaphore: what the calls down   *)
(* and up promise to the processes that take a resource from a pool, use   *)
(* it and give it back (the traffic simulation's sem_mutex is the pool of  *)
(* one).  down and up are atomic here.  A process is                       *)
(*                                                                         *)
(*   "idle"     outside of down ... up,                                    *)
(*   "waiting"  asleep in down, on the semaphore's process_list,           *)
(*   "granted"  past down, holding one of the resources.                   *)
(*                                                                         *)
(* CS1550Sem, the kernel code with its spin lock, sleeping and scheduling, *)
(* is shown to implement this specification; TrafficSim's sem_mutex too.   *)
(***************************************************************************)
EXTENDS SemaphoreOps, FiniteSets

CONSTANTS Proc,         \* the processes
          NumResources  \* the second argument of sys_cs1550_sem_init

ASSUME ProcAssumption == IsFiniteSet(Proc)
ASSUME NumResourcesAssumption == NumResources \in Nat

VARIABLES sem,    \* the struct cs1550_sem
          phase   \* what each process has been promised

vars == <<sem, phase>>

Phases == {"idle", "waiting", "granted"}

Granted == {p \in Proc : phase[p] = "granted"}
Waiting == {p \in Proc : phase[p] = "waiting"}

-----------------------------------------------------------------------------
Init == /\ sem = SemInit(NumResources)
        /\ phase = [p \in Proc |-> "idle"]

(* p calls down: it gets a resource, or goes to sleep at the tail. *)
Down(p) ==
    /\ phase[p] = "idle"
    /\ sem' = DownSem(sem, p)
    /\ phase' = [phase EXCEPT ![p] = IF DownSleeps(sem) THEN "waiting" ELSE "granted"]

(* p calls up: its resource goes straight to the longest sleeper, if any. *)
Up(p) ==
    /\ phase[p] = "granted"
    /\ sem' = UpSem(sem)
    /\ phase' = [q \in Proc |-> IF q \in Woken(sem) THEN "granted"
                               ELSE IF q = p THEN "idle" ELSE phase[q]]

Next == \E p \in Proc : Down(p) \/ Up(p)

Spec == Init /\ [][Next]_vars

(* A process that holds a resource gives it back in the end. *)
FairSpec == Spec /\ \A p \in Proc : WF_vars(Up(p))

-----------------------------------------------------------------------------
(* Type invariant: the two fields of struct cs1550_sem and the phases. *)
TypeOK == /\ sem \in [value : Int, process_list : Seq(Proc)]
          /\ phase \in [Proc -> Phases]

(* The sleepers of sys_cs1550_down are exactly the processes on the list,  *)
(* each of them once: none is lost, none will be woken twice.              *)
ListHoldsSleepers ==
    /\ Listed(sem.process_list) = Waiting
    /\ Once(sem.process_list)

(* A negative value counts the sleepers of sys_cs1550_down; a value that   *)
(* is not counts the free resources, and nobody sleeps while one is free.  *)
ValueCounts ==
    IF sem.value < 0
      THEN /\ Len(sem.process_list) = -sem.value
           /\ Cardinality(Granted) = NumResources
      ELSE /\ sem.process_list = <<>>
           /\ Cardinality(Granted) = NumResources - sem.value

(* Never more processes past down than the resources sem_init announced,   *)
(* however the calls of down and up interleave.                            *)
AtMostNumResources == Cardinality(Granted) <= NumResources

(* p waits, and q, who holds nothing, waits behind it or not at all. *)
Before(p, q) ==
    /\ phase[p] = "waiting" /\ phase[q] # "granted"
    /\ phase[q] = "waiting" =>
          \E i, j \in 1..Len(sem.process_list) :
             i < j /\ sem.process_list[i] = p /\ sem.process_list[j] = q

(* First come, first served: while p sleeps in down, nobody who stands     *)
(* behind it, or comes later, gets a resource or a better place.           *)
FirstComeFirstServed ==
    [][\A p, q \in Proc :
          Before(p, q) /\ phase'[p] = "waiting" => Before(p, q)']_vars

(* Every process asleep in sys_cs1550_down is woken by a later up and has  *)
(* its resource, provided the holders keep calling up.                     *)
SleeperIsServed == \A p \in Proc : phase[p] = "waiting" ~> phase[p] = "granted"
=============================================================================

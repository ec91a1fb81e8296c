---------------------------- MODULE SemaphoreOps ----------------------------
(***************************************************************************)
(* What the three semaphore system calls of the traffic project's sys.c do *)
(* to one struct cs1550_sem when nothing interrupts them.  A semaphore is  *)
(* a record with the two fields of the struct: the signed counter `value'  *)
(* and the FIFO `process_list' of the processes put to sleep on it.  The   *)
(* modules Semaphore and TrafficSim are built from these operators;        *)
(* CS1550Sem takes the calls apart again, statement by statement.          *)
(***************************************************************************)
EXTENDS Integers, Sequences

(* The processes on a list, and: each of them is on it once. *)
Listed(list) == {list[i] : i \in 1..Len(list)}
Once(list) == \A i, j \in 1..Len(list) : list[i] = list[j] => i = j

(* Mutants of the operators below, as a plausible slip in sys.c would make *)
(* them: the test of down made with the old value, a list that is a stack, *)
(* a dequeue that takes the newest item, the test of up with < for <=.     *)
DownSleeps_old_value(s) == s.value < 0
Enqueue_at_head(list, p) == <<p>> \o list
DequeueItem_newest(list) == list[Len(list)]
UpWakes_lt(s) == s.value + 1 < 0

-----------------------------------------------------------------------------
(* sys_cs1550_sem_init *)
SemInit(numResources) == [value |-> numResources, process_list |-> <<>>]

(* The test of sys_cs1550_down after its decrement: must the caller sleep? *)
DownSleeps(s) == s.value - 1 < 0

(* enqueue: the caller goes to the tail of the list. *)
Enqueue(list, p) == Append(list, p)

(* dequeue: the item of the head node, and the list without that node. *)
DequeueItem(list) == Head(list)
DequeueRest(list) == Tail(list)

(* The effect of sys_cs1550_down, called by p, on the semaphore. *)
DownSem(s, p) ==
    [value        |-> s.value - 1,
     process_list |-> IF DownSleeps(s) THEN Enqueue(s.process_list, p)
                                       ELSE s.process_list]

(* The test of sys_cs1550_up after its increment: is a sleeper to be woken? *)
UpWakes(s) == s.value + 1 <= 0

(* The effect of sys_cs1550_up on the semaphore. *)
UpSem(s) ==
    [value        |-> s.value + 1,
     process_list |-> IF UpWakes(s) THEN DequeueRest(s.process_list)
                                    ELSE s.process_list]

(* The processes handed to wake_up_process by sys_cs1550_up: one or none. *)
Woken(s) == IF UpWakes(s) THEN {DequeueItem(s.process_list)} ELSE {}
=============================================================================

------------------------------ MODULE CS1550Sem ------------------------------
(***************************************************************************)
(* The system calls sys_cs1550_down and sys_cs1550_up as the kernel runs   *)
(* them, one action per statement that another CPU, a sleep or a signal    *)
(* can come between.  A fixed pool of processes share one semaphore: each  *)
(* calls down, uses a resource, calls up, for ever.                        *)
(*                                                                         *)
(* The kernel is not preemptive: a process leaves its CPU inside a system  *)
(* call only when it calls schedule() itself, or when kmalloc(GFP_USER)    *)
(* waits for memory.  In a kernel built for one CPU (machine.smp FALSE)    *)
(* spin_lock compiles to nothing and the calls are kept apart by the one   *)
(* CPU alone; built for several, spin_lock spins on `lock'.                *)
(***************************************************************************)
EXTENDS SemaphoreOps, FiniteSets

CONSTANTS Proc,          \* the processes that use the semaphore
          NumResources,  \* the second argument of sys_cs1550_sem_init
          Machines,      \* the machines the kernel may run on:
                         \*   ncpu           how many CPUs it has
                         \*   smp            is the kernel built for more than one?
                         \*   kmallocSleeps  may kmalloc(GFP_USER) wait for memory?
                         \*   kmallocFails   may it return NULL?
          MaxSignals,    \* how many signals arrive while processes sleep
          NoProc         \* the holder of a free spin lock

ASSUME ConfigAssumption ==
    /\ IsFiniteSet(Proc) /\ NoProc \notin Proc
    /\ NumResources \in Nat \ {0} /\ MaxSignals \in Nat
    /\ Machines \subseteq [ncpu : Nat \ {0}, smp : BOOLEAN, kmallocSleeps : BOOLEAN,
                  kmallocFails : BOOLEAN]
    /\ \A m \in Machines : m.smp \/ m.ncpu = 1

VARIABLES sem,      \* the struct cs1550_sem
          lock,     \* sem_lock: its holder, or NoProc
          pc,       \* where each process is
          state,    \* the state field of each task_struct
          cpu,      \* the processes that are on a CPU
          signals,  \* how many signals have arrived
          machine   \* the machine

vars == <<sem, lock, pc, state, cpu, signals, machine>>

CritLabels == {"down_value", "down_kmalloc", "down_enqueue", "down_set_state",
               "down_unlock", "down_oops", "up_value", "up_dequeue", "up_unlock"}

Labels == {"idle", "down_lock", "down_schedule", "use", "up_lock", "oops"}
              \union CritLabels

(* What a NULL dereference leaves of the process that made it: the lock    *)
(* stays closed.  In down it leaves the process counted and not listed.    *)
Dead == {"oops", "down_oops"}

Oops(p) == /\ pc' = [pc EXCEPT ![p] = "oops"]
           /\ cpu' = cpu \ {p}

Goto(p, label) == pc' = [pc EXCEPT ![p] = label]

-----------------------------------------------------------------------------
(* Mutants of the actions below, each a slip that sys.c could have made. *)

(* the state is set after the lock has been opened again: an up can come   *)
(* in between, and its wake-up is lost                                     *)
DownSetState_after_unlock(p) ==
    /\ p \in cpu
    /\ \/ /\ pc[p] = "down_set_state"
          /\ lock' = NoProc
          /\ Goto(p, "down_late")
          /\ UNCHANGED state
       \/ /\ pc[p] = "down_late"
          /\ state' = [state EXCEPT ![p] = "INTERRUPTIBLE"]
          /\ Goto(p, "down_schedule")
          /\ UNCHANGED lock
    /\ UNCHANGED <<sem, cpu, signals, machine>>

(* an increment that another CPU's decrement can overwrite: up takes the   *)
(* lock only for the list                                                  *)
UpValue_opens_lock(p) ==
    /\ pc[p] = "up_value" /\ p \in cpu
    /\ sem' = [sem EXCEPT !.value = @ + 1]
    /\ lock' = NoProc
    /\ Goto(p, IF UpWakes(sem) THEN "up_dequeue" ELSE "up_unlock")
    /\ UNCHANGED <<state, cpu, signals, machine>>

(* the caller gives up its CPU before it has opened the lock *)
DownSetState_schedules(p) ==
    /\ pc[p] = "down_set_state" /\ p \in cpu
    /\ state' = [state EXCEPT ![p] = "INTERRUPTIBLE"]
    /\ cpu' = cpu \ {p}
    /\ Goto(p, "down_unlock")
    /\ UNCHANGED <<sem, lock, signals, machine>>

(* a process list that is a stack *)
DownEnqueue_at_head(p) ==
    /\ pc[p] = "down_enqueue" /\ p \in cpu
    /\ sem' = [sem EXCEPT !.process_list = Enqueue_at_head(@, p)]
    /\ Goto(p, "down_set_state")
    /\ UNCHANGED <<lock, state, cpu, signals, machine>>

-----------------------------------------------------------------------------
Init == /\ sem = SemInit(NumResources)
        /\ lock = NoProc
        /\ pc = [p \in Proc |-> "idle"]
        /\ state = [p \in Proc |-> "RUNNING"]
        /\ cpu = {}
        /\ signals = 0
        /\ machine \in Machines

(* The scheduler puts a runnable process on a free CPU. *)
Dispatch(p) ==
    /\ p \notin cpu /\ state[p] = "RUNNING" /\ pc[p] \notin Dead
    /\ Cardinality(cpu) < machine.ncpu
    /\ cpu' = cpu \union {p}
    /\ UNCHANGED <<sem, lock, pc, state, signals, machine>>

(* The clock takes the CPU from a process in user mode that another wants. *)
Preempt(p) ==
    /\ p \in cpu /\ pc[p] \in {"idle", "use"}
    /\ Cardinality(cpu) = machine.ncpu
    /\ \E q \in Proc \ cpu : state[q] = "RUNNING" /\ pc[q] \notin Dead
    /\ cpu' = cpu \ {p}
    /\ UNCHANGED <<sem, lock, pc, state, signals, machine>>

(* A signal makes a process in TASK_INTERRUPTIBLE runnable again. *)
Signal(p) ==
    /\ signals < MaxSignals
    /\ state[p] = "INTERRUPTIBLE"
    /\ state' = [state EXCEPT ![p] = "RUNNING"]
    /\ signals' = signals + 1
    /\ UNCHANGED <<sem, lock, pc, cpu, machine>>

(* Memory has been found for a kmalloc that was waiting for it. *)
MemoryFreed(p) ==
    /\ state[p] = "UNINTERRUPTIBLE"
    /\ state' = [state EXCEPT ![p] = "RUNNING"]
    /\ UNCHANGED <<sem, lock, pc, cpu, signals, machine>>

(* A process enters down from user mode, or up when it is done. *)
Call(p) ==
    /\ p \in cpu
    /\ \/ pc[p] = "idle" /\ Goto(p, "down_lock")
       \/ pc[p] = "use"  /\ Goto(p, "up_lock")
    /\ UNCHANGED <<sem, lock, state, cpu, signals, machine>>

(* spin_lock(&sem_lock), in down and in up *)
SpinLock(p) ==
    /\ p \in cpu
    /\ machine.smp => lock = NoProc
    /\ lock' = IF machine.smp THEN p ELSE lock
    /\ \/ pc[p] = "down_lock" /\ Goto(p, "down_value")
       \/ pc[p] = "up_lock"   /\ Goto(p, "up_value")
    /\ UNCHANGED <<sem, state, cpu, signals, machine>>

(* sem->value -= 1; if (sem->value < 0) ... *)
DownValue(p) ==
    /\ pc[p] = "down_value" /\ p \in cpu
    /\ sem' = [sem EXCEPT !.value = @ - 1]
    /\ Goto(p, IF DownSleeps(sem) THEN "down_kmalloc" ELSE "down_unlock")
    /\ UNCHANGED <<lock, state, cpu, signals, machine>>

(* kmalloc(sizeof(Node), GFP_USER) finds memory, gives up the CPU to wait  *)
(* for it, or returns NULL, through which n->item = current then writes.   *)
DownKmalloc(p) ==
    /\ pc[p] = "down_kmalloc" /\ p \in cpu
    /\ \/ Goto(p, "down_enqueue") /\ UNCHANGED <<state, cpu>>
       \/ /\ machine.kmallocSleeps
          /\ Goto(p, "down_enqueue")
          /\ state' = [state EXCEPT ![p] = "UNINTERRUPTIBLE"]
          /\ cpu' = cpu \ {p}
       \/ /\ machine.kmallocFails
          /\ Goto(p, "down_oops")
          /\ cpu' = cpu \ {p}
          /\ UNCHANGED state
    /\ UNCHANGED <<sem, lock, signals, machine>>

(* The rest of enqueue(sem->process_list). *)
DownEnqueue(p) ==
    /\ pc[p] = "down_enqueue" /\ p \in cpu
    /\ sem' = [sem EXCEPT !.process_list = Enqueue(@, p)]
    /\ Goto(p, "down_set_state")
    /\ UNCHANGED <<lock, state, cpu, signals, machine>>

(* set_current_state(TASK_INTERRUPTIBLE) *)
DownSetState(p) ==
    /\ pc[p] = "down_set_state" /\ p \in cpu
    /\ state' = [state EXCEPT ![p] = "INTERRUPTIBLE"]
    /\ Goto(p, "down_unlock")
    /\ UNCHANGED <<sem, lock, cpu, signals, machine>>

(* spin_unlock(&sem_lock), in down and in up *)
SpinUnlock(p) ==
    /\ p \in cpu
    /\ lock' = NoProc
    /\ \/ pc[p] = "down_unlock" /\ Goto(p, "down_schedule")
       \/ pc[p] = "up_unlock"   /\ Goto(p, "idle")
    /\ UNCHANGED <<sem, state, cpu, signals, machine>>

(* schedule(): the process leaves its CPU.  Once it is runnable and gets   *)
(* one again, down returns, without another look at the semaphore.         *)
DownSchedule(p) ==
    /\ pc[p] = "down_schedule" /\ p \in cpu
    /\ cpu' = cpu \ {p}
    /\ Goto(p, "use")
    /\ UNCHANGED <<sem, lock, state, signals, machine>>

(* sem->value += 1; if (sem->value <= 0) ... *)
UpValue(p) ==
    /\ pc[p] = "up_value" /\ p \in cpu
    /\ sem' = [sem EXCEPT !.value = @ + 1]
    /\ Goto(p, IF UpWakes(sem) THEN "up_dequeue" ELSE "up_unlock")
    /\ UNCHANGED <<lock, state, cpu, signals, machine>>

(* dequeue, which follows the head pointer unchecked, and wake_up_process. *)
UpDequeue(p) ==
    /\ pc[p] = "up_dequeue" /\ p \in cpu
    /\ IF sem.process_list = <<>>
         THEN Oops(p) /\ UNCHANGED <<sem, state>>
         ELSE /\ sem' = [sem EXCEPT !.process_list = DequeueRest(@)]
              /\ state' = [state EXCEPT ![DequeueItem(sem.process_list)] = "RUNNING"]
              /\ Goto(p, "up_unlock")
              /\ UNCHANGED cpu
    /\ UNCHANGED <<lock, signals, machine>>

SysCall(p) ==
    \/ SpinLock(p) \/ SpinUnlock(p)
    \/ DownValue(p) \/ DownKmalloc(p) \/ DownEnqueue(p)
    \/ DownSetState(p) \/ DownSchedule(p)
    \/ UpValue(p) \/ UpDequeue(p)

(* A process in user mode that holds a resource. *)
Uses(p) == pc[p] = "use" /\ state[p] = "RUNNING"

Next == \E p \in Proc :
    Dispatch(p) \/ Preempt(p) \/ Signal(p) \/ MemoryFreed(p) \/ Call(p) \/ SysCall(p)

Spec == Init /\ [][Next]_vars

(* The scheduler forgets no runnable process and takes the CPU from one in *)
(* user mode whose slice is over, memory is found in the end, a process    *)
(* that gets a CPU again and again gets on with its work, and the user of  *)
(* a resource gives it back (pc = "use").                                  *)
Fairness == \A p \in Proc :
    /\ SF_vars(Dispatch(p)) /\ WF_vars(Preempt(p)) /\ WF_vars(MemoryFreed(p))
    /\ SF_vars(SysCall(p)) /\ SF_vars(pc[p] = "use" /\ Call(p))

FairSpec == Spec /\ Fairness
-----------------------------------------------------------------------------
InCritSection == {p \in Proc : pc[p] \in CritLabels}

(* Past down and not yet in up, without being asleep. *)
Holders == {p \in Proc : /\ pc[p] \in {"down_schedule", "use", "up_lock"}
                         /\ state[p] = "RUNNING"}

(* Type invariant *)
TypeOK ==
    /\ sem \in [value : Int, process_list : Seq(Proc)]
    /\ lock \in Proc \union {NoProc}
    /\ pc \in [Proc -> Labels]
    /\ state \in [Proc -> {"RUNNING", "INTERRUPTIBLE", "UNINTERRUPTIBLE"}]
    /\ cpu \subseteq Proc /\ Cardinality(cpu) <= machine.ncpu
    /\ signals \in 0..MaxSignals
    /\ machine \in Machines

(* The lines sys_cs1550_down and sys_cs1550_up mark as critical section    *)
(* are executed by one process at a time, sleep in kmalloc included.       *)
CritSectionExclusive == Cardinality(InCritSection) <= 1

(* Outside of the critical section the value and the list agree: dequeue   *)
(* is never called on an empty list, and nobody is left on it.             *)
ListMatchesValue ==
    InCritSection = {} =>
        Len(sem.process_list) = IF sem.value < 0 THEN -sem.value ELSE 0

(* up never dequeues from an empty list, which would follow NULL. *)
DequeuesSleeper ==
    \A p \in Proc : pc[p] = "up_dequeue" => sem.process_list # <<>>

(* No wake-up is lost: a process that down has put to sleep is still on    *)
(* the list, where the next up finds it.                                   *)
SleeperIsListed ==
    \A p \in Proc : state[p] = "INTERRUPTIBLE" => p \in Listed(sem.process_list)

(* No more processes past down than there are resources: "value" is how    *)
(* many resources we have access to (sys.c, struct cs1550_sem).            *)
AtMostNumResources == Cardinality(Holders) <= NumResources

(* Whoever asks for the lock gets it, and whoever calls down gets past it. *)
EveryCallReturns ==
    \A p \in Proc : /\ pc[p] = "down_lock" ~> Uses(p)
                    /\ pc[p] = "up_lock" ~> pc[p] = "idle"

-----------------------------------------------------------------------------
(* Refinement.  Seen from outside, down happens when it decrements the     *)
(* value and up when it increments it; the list then already holds the     *)
(* process that is about to enqueue itself, and no longer the one that is  *)
(* about to be dequeued.                                                   *)

(* Counted by down, and not listed yet. *)
Unlisted == {"down_kmalloc", "down_enqueue", "down_oops"}

Enqueuing == {p \in Proc : pc[p] \in Unlisted}
Dequeuing == {p \in Proc : pc[p] = "up_dequeue"}

PromisedList ==
    LET withTail == IF Enqueuing = {} THEN sem.process_list
                    ELSE Enqueue(sem.process_list, CHOOSE p \in Enqueuing : TRUE)
    IN  IF Dequeuing = {} THEN withTail ELSE DequeueRest(withTail)

PromisedPhase ==
    [p \in Proc |->
        IF pc[p] \in {"idle", "down_lock", "down_value", "up_dequeue", "up_unlock"}
          THEN "idle"
        ELSE IF p \in Listed(PromisedList) THEN "waiting" ELSE "granted"]

Promise == INSTANCE Semaphore
               WITH sem   <- [value |-> sem.value, process_list |-> PromisedList],
                    phase <- PromisedPhase

(* With the lock effective and no signals, the calls of sys.c implement    *)
(* the atomic semaphore: pool, order of service and eventual service.      *)
ImplementsSemaphore == Promise!FairSpec
=============================================================================

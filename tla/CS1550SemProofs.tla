--------------------------- MODULE CS1550SemProofs ---------------------------
(***************************************************************************)
(* Theorems about CS1550Sem, for any number of processes and of resources  *)
(* and for every machine on which the lock is effective.                   *)
(***************************************************************************)
EXTENDS CS1550Sem, SemaphoreOpsProofs, FiniteSetTheorems

(* What keeps the calls apart: the spin lock on a kernel for several CPUs, *)
(* or the one CPU that nobody gives up, or dies on, inside of enqueue.     *)
LockEffective ==
    \A m \in Machines : m.smp \/ ~(m.kmallocSleeps \/ m.kmallocFails)

-----------------------------------------------------------------------------
(* Types *)

LEMMA InitType == Init => TypeOK
<1> SUFFICES ASSUME Init PROVE TypeOK
  OBVIOUS
<1>1. Cardinality(cpu) <= machine.ncpu
  BY ConfigAssumption, FS_EmptySet DEF Init
<1> QED
  BY <1>1, ConfigAssumption DEF Init, TypeOK, SemInit, Labels

LEMMA CpuFinite ==
    ASSUME TypeOK
    PROVE  IsFiniteSet(cpu) /\ Cardinality(cpu) \in Nat /\ machine.ncpu \in Nat \ {0}
<1>1. IsFiniteSet(cpu)
  BY ConfigAssumption, FS_Subset DEF TypeOK
<1> QED
  BY <1>1, ConfigAssumption, FS_CardinalityType DEF TypeOK

LEMMA LeaveCpu ==
    ASSUME TypeOK, NEW p
    PROVE  cpu \ {p} \subseteq Proc /\ Cardinality(cpu \ {p}) <= machine.ncpu
<1>1. IsFiniteSet(cpu) /\ Cardinality(cpu) \in Nat /\ machine.ncpu \in Nat \ {0}
  BY CpuFinite
<1>2. Cardinality(cpu \ {p}) = IF p \in cpu THEN Cardinality(cpu) - 1 ELSE Cardinality(cpu)
  BY <1>1, FS_RemoveElement
<1>3. Cardinality(cpu) <= machine.ncpu /\ cpu \subseteq Proc
  BY DEF TypeOK
<1> QED
  BY <1>1, <1>2, <1>3

LEMMA EnterCpu ==
    ASSUME TypeOK, NEW p \in Proc, Cardinality(cpu) < machine.ncpu
    PROVE  cpu \union {p} \subseteq Proc /\ Cardinality(cpu \union {p}) <= machine.ncpu
<1>1. IsFiniteSet(cpu) /\ Cardinality(cpu) \in Nat /\ machine.ncpu \in Nat \ {0}
  BY CpuFinite
<1>2. Cardinality(cpu \union {p}) = IF p \in cpu THEN Cardinality(cpu) ELSE Cardinality(cpu) + 1
  BY <1>1, FS_AddElement
<1>3. cpu \subseteq Proc
  BY DEF TypeOK
<1> QED
  BY <1>1, <1>2, <1>3

LEMMA SchedulerType ==
    ASSUME TypeOK, NEW p \in Proc,
           Dispatch(p) \/ Preempt(p) \/ Signal(p) \/ MemoryFreed(p) \/ Call(p)
    PROVE  TypeOK'
<1>1. CASE Dispatch(p)
  BY <1>1, EnterCpu DEF Dispatch, TypeOK
<1>2. CASE Preempt(p)
  BY <1>2, LeaveCpu DEF Preempt, TypeOK
<1>3. CASE Signal(p)
  BY <1>3, ConfigAssumption DEF Signal, TypeOK
<1>4. CASE MemoryFreed(p)
  BY <1>4 DEF MemoryFreed, TypeOK
<1>5. CASE Call(p)
  BY <1>5 DEF Call, Goto, Labels, TypeOK
<1> QED
  BY <1>1, <1>2, <1>3, <1>4, <1>5

LEMMA SysCallType ==
    ASSUME TypeOK, NEW p \in Proc, SysCall(p)
    PROVE  TypeOK'
<1>1. CASE SpinLock(p)
  BY <1>1 DEF SpinLock, Goto, Labels, CritLabels, TypeOK
<1>2. CASE SpinUnlock(p)
  BY <1>2 DEF SpinUnlock, Goto, Labels, TypeOK
<1>3. CASE DownValue(p)
  BY <1>3 DEF DownValue, Goto, Labels, CritLabels, TypeOK
<1>4. CASE DownKmalloc(p)
  <2>1. cpu' \in {cpu, cpu \ {p}}
    BY <1>4 DEF DownKmalloc
  <2>2. cpu' \subseteq Proc /\ Cardinality(cpu') <= machine.ncpu
    BY <2>1, LeaveCpu DEF TypeOK
  <2>3. pc' \in [Proc -> Labels]
    BY <1>4 DEF DownKmalloc, Goto, Labels, CritLabels, TypeOK
  <2>4. state' \in [Proc -> {"RUNNING", "INTERRUPTIBLE", "UNINTERRUPTIBLE"}]
    BY <1>4 DEF DownKmalloc, TypeOK
  <2> QED
    BY <1>4, <2>2, <2>3, <2>4 DEF DownKmalloc, TypeOK
<1>5. CASE DownEnqueue(p)
  <2>1. Enqueue(sem.process_list, p) \in Seq(Proc)
    BY DEF Enqueue, TypeOK
  <2> QED
    BY <1>5, <2>1 DEF DownEnqueue, Goto, Labels, CritLabels, TypeOK
<1>6. CASE DownSetState(p)
  BY <1>6 DEF DownSetState, Goto, Labels, CritLabels, TypeOK
<1>7. CASE DownSchedule(p)
  BY <1>7, LeaveCpu DEF DownSchedule, Goto, Labels, TypeOK
<1>8. CASE UpValue(p)
  BY <1>8 DEF UpValue, Goto, Labels, CritLabels, TypeOK
<1>9. CASE UpDequeue(p)
  <2>1. CASE sem.process_list = <<>>
    BY <1>9, <2>1, LeaveCpu DEF UpDequeue, Oops, Labels, TypeOK
  <2>2. CASE sem.process_list # <<>>
    <3>1. DequeueRest(sem.process_list) \in Seq(Proc) /\ DequeueItem(sem.process_list) \in Proc
      BY <2>2 DEF TypeOK, DequeueRest, DequeueItem
    <3> QED
      BY <1>9, <2>2, <3>1 DEF UpDequeue, Goto, Labels, CritLabels, TypeOK
  <2> QED
    BY <2>1, <2>2
<1> QED
  BY <1>1, <1>2, <1>3, <1>4, <1>5, <1>6, <1>7, <1>8, <1>9 DEF SysCall

LEMMA StepType == TypeOK /\ [Next]_vars => TypeOK'
<1> SUFFICES ASSUME TypeOK, [Next]_vars PROVE TypeOK'
  OBVIOUS
<1>1. CASE UNCHANGED vars
  BY <1>1 DEF vars, TypeOK
<1> QED
  BY <1>1, SchedulerType, SysCallType DEF Next

(* Every field keeps its type, and no more processes are on a CPU than     *)
(* there are CPUs, on any machine and with any signals.                    *)
THEOREM CS1550SemType == Spec => []TypeOK
BY InitType, StepType, PTL DEF Spec

-----------------------------------------------------------------------------
(* Mutual exclusion.  With the spin lock, whoever is in a critical section *)
(* holds the lock; without it, he is on the only CPU, which he keeps       *)
(* because kmalloc neither makes him wait nor ends him with a NULL.        *)

OwnsSection(p) == IF machine.smp THEN lock = p ELSE p \in cpu

ExclInv == /\ TypeOK
           /\ machine.smp \/ ~(machine.kmallocSleeps \/ machine.kmallocFails)
           /\ \A p \in InCritSection : OwnsSection(p)

(* One CPU is one process. *)
LEMMA OneCpu ==
    ASSUME TypeOK, ~machine.smp, NEW p \in cpu, NEW q \in cpu
    PROVE  p = q
<1>1. IsFiniteSet(cpu) /\ Cardinality(cpu) \in Nat
  BY CpuFinite
<1>2. machine.ncpu = 1 /\ Cardinality(cpu) <= 1
  BY ConfigAssumption DEF TypeOK
<1>3. Cardinality(cpu) = 1
  BY <1>1, <1>2, FS_EmptySet
<1>4. \E x : cpu = {x}
  BY <1>1, <1>3, FS_Singleton
<1> QED
  BY <1>4

LEMMA AtMostOneInside ==
    ASSUME ExclInv, NEW p \in InCritSection, NEW q \in InCritSection
    PROVE  p = q
BY OneCpu DEF ExclInv, OwnsSection

LEMMA ExclScheduler ==
    ASSUME ExclInv, NEW p \in Proc,
           Dispatch(p) \/ Preempt(p) \/ Signal(p) \/ MemoryFreed(p) \/ Call(p)
    PROVE  ExclInv'
<1>1. TypeOK'
  BY SchedulerType DEF ExclInv
<1>2. InCritSection' \subseteq InCritSection /\ UNCHANGED <<lock, machine>>
  BY DEF Dispatch, Preempt, Signal, MemoryFreed, Call, Goto, ExclInv, TypeOK, InCritSection,
         CritLabels
<1>3. \A q \in cpu : q \in InCritSection => q \in cpu'
  BY DEF Dispatch, Preempt, Signal, MemoryFreed, Call, InCritSection, CritLabels
<1> QED
  BY <1>1, <1>2, <1>3 DEF ExclInv, OwnsSection

LEMMA ExclSysCall ==
    ASSUME ExclInv, NEW p \in Proc, SysCall(p)
    PROVE  ExclInv'
<1>1. TypeOK' /\ machine' = machine /\ p \in cpu /\ pc \in [Proc -> Labels]
  BY SysCallType DEF ExclInv, TypeOK, SysCall, SpinLock, SpinUnlock, DownValue, DownKmalloc,
     DownEnqueue, DownSetState, DownSchedule, UpValue, UpDequeue
<1>2. CASE SpinLock(p)
  <2>1. InCritSection' \subseteq InCritSection \union {p} /\ cpu' = cpu
    BY <1>1, <1>2 DEF SpinLock, Goto, InCritSection
  <2>2. CASE machine.smp
    <3>1. InCritSection = {}
      BY <1>2, <2>2, ConfigAssumption DEF SpinLock, ExclInv, OwnsSection, InCritSection
    <3> QED
      BY <1>1, <1>2, <2>1, <2>2, <3>1 DEF SpinLock, ExclInv, OwnsSection
  <2>3. CASE ~machine.smp
    BY <1>1, <2>1, <2>3 DEF ExclInv, OwnsSection
  <2> QED
    BY <2>2, <2>3
<1>3. CASE SpinUnlock(p)
  <2>1. p \in InCritSection /\ InCritSection' \subseteq InCritSection \ {p}
    BY <1>1, <1>3 DEF SpinUnlock, Goto, InCritSection, CritLabels
  <2>2. InCritSection' = {}
    BY <2>1, AtMostOneInside
  <2> QED
    BY <1>1, <2>2 DEF ExclInv
<1>4. CASE DownKmalloc(p)
  <2>1. p \in InCritSection /\ InCritSection' = InCritSection /\ lock' = lock
    BY <1>1, <1>4 DEF DownKmalloc, Goto, InCritSection, CritLabels
  <2>2. ~machine.smp => cpu' = cpu
    BY <1>4 DEF DownKmalloc, ExclInv
  <2> QED
    BY <1>1, <2>1, <2>2 DEF ExclInv, OwnsSection
<1>5. CASE DownValue(p) \/ DownEnqueue(p) \/ DownSetState(p) \/ UpValue(p)
  <2>1. InCritSection' = InCritSection /\ lock' = lock /\ cpu' = cpu
    BY <1>1, <1>5 DEF DownValue, DownEnqueue, DownSetState, UpValue, Goto, InCritSection,
       CritLabels
  <2> QED
    BY <1>1, <2>1 DEF ExclInv, OwnsSection
<1>6. CASE DownSchedule(p)
  <2>1. p \notin InCritSection /\ InCritSection' = InCritSection /\ lock' = lock /\ cpu' = cpu \ {p}
    BY <1>1, <1>6 DEF DownSchedule, Goto, InCritSection, CritLabels
  <2> QED
    BY <1>1, <2>1 DEF ExclInv, OwnsSection
<1>7. CASE UpDequeue(p)
  <2>1. p \in InCritSection /\ lock' = lock
    BY <1>7 DEF UpDequeue, InCritSection, CritLabels
  <2>2. CASE sem.process_list = <<>>
    <3>1. InCritSection' \subseteq InCritSection \ {p} /\ cpu' = cpu \ {p}
      BY <1>1, <1>7, <2>2 DEF UpDequeue, Oops, InCritSection, CritLabels
    <3> QED
      BY <1>1, <2>1, <3>1 DEF ExclInv, OwnsSection
  <2>3. CASE sem.process_list # <<>>
    <3>1. InCritSection' = InCritSection /\ cpu' = cpu
      BY <1>1, <1>7, <2>3 DEF UpDequeue, Goto, InCritSection, CritLabels
    <3> QED
      BY <1>1, <2>1, <3>1 DEF ExclInv, OwnsSection
  <2> QED
    BY <2>2, <2>3
<1> QED
  BY <1>2, <1>3, <1>4, <1>5, <1>6, <1>7 DEF SysCall

LEMMA ExclInit == LockEffective /\ Init => ExclInv
<1> SUFFICES ASSUME LockEffective, Init PROVE ExclInv
  OBVIOUS
<1>1. InCritSection = {}
  BY DEF Init, InCritSection, CritLabels
<1>2. machine \in Machines
  BY DEF Init
<1> QED
  BY <1>1, <1>2, InitType DEF ExclInv, LockEffective

LEMMA ExclStep == ExclInv /\ [Next]_vars => ExclInv'
<1> SUFFICES ASSUME ExclInv, [Next]_vars PROVE ExclInv'
  OBVIOUS
<1>1. CASE UNCHANGED vars
  <2>1. TypeOK'
    BY <1>1, StepType DEF ExclInv
  <2> QED
    BY <1>1, <2>1 DEF vars, ExclInv, InCritSection, OwnsSection
<1> QED
  BY <1>1, ExclScheduler, ExclSysCall DEF Next

LEMMA ExclImplies == ExclInv => CritSectionExclusive
<1> SUFFICES ASSUME ExclInv PROVE CritSectionExclusive
  OBVIOUS
<1>1. CASE InCritSection = {}
  BY <1>1, FS_EmptySet DEF CritSectionExclusive
<1>2. CASE InCritSection # {}
  <2>1. PICK p \in InCritSection : InCritSection = {p}
    BY <1>2, AtMostOneInside
  <2>2. Cardinality({p}) = 1
    BY FS_Singleton
  <2> QED
    BY <2>1, <2>2 DEF CritSectionExclusive
<1> QED
  BY <1>1, <1>2

(* Between spin_lock and spin_unlock there is one process at a time, also  *)
(* when it sleeps in kmalloc, and whatever signals arrive.                 *)
THEOREM CS1550SemExclusive == LockEffective /\ Spec => []CritSectionExclusive
BY ExclInit, ExclStep, ExclImplies, PTL DEF Spec

-----------------------------------------------------------------------------
(* The value and the list.  They differ only while down has yet to enqueue *)
(* its caller, or up to dequeue the one that it wakes.                     *)

Sleepers(value) == IF value < 0 THEN -value ELSE 0

Unsettled == Unlisted \union {"up_dequeue"}

ValueInv ==
    /\ \A p \in Proc :
          /\ pc[p] \in Unlisted =>
                sem.value < 0 /\ Len(sem.process_list) = Sleepers(sem.value) - 1
          /\ pc[p] = "up_dequeue" =>
                sem.value <= 0 /\ Len(sem.process_list) = Sleepers(sem.value) + 1
    /\ (\A p \in Proc : pc[p] \notin Unsettled) =>
          Len(sem.process_list) = Sleepers(sem.value)

LEMMA SemFacts ==
    ASSUME TypeOK
    PROVE  /\ sem.value \in Int /\ sem.process_list \in Seq(Proc)
           /\ Len(sem.process_list) \in Nat
           /\ Sleepers(sem.value) \in Nat
BY DEF TypeOK, Sleepers

LEMMA Alone ==
    ASSUME ExclInv, NEW p \in Proc, pc[p] \in CritLabels
    PROVE  \A q \in Proc : q # p => pc[q] \notin CritLabels /\ pc[q] \notin Unsettled
BY AtMostOneInside DEF InCritSection, Unsettled, Unlisted, CritLabels

LEMMA ValueScheduler ==
    ASSUME ExclInv, ValueInv, NEW p \in Proc,
           Dispatch(p) \/ Preempt(p) \/ Signal(p) \/ MemoryFreed(p) \/ Call(p)
    PROVE  ValueInv'
<1>1. sem' = sem /\ \A q \in Proc : pc'[q] = pc[q] \/ {pc[q], pc'[q]} \cap Unsettled = {}
  BY DEF Dispatch, Preempt, Signal, MemoryFreed, Call, Goto, ExclInv, TypeOK, Unsettled, Unlisted
<1> QED
  BY <1>1 DEF ValueInv, Unsettled, Unlisted

LEMMA ValueSysCall ==
    ASSUME ExclInv, ValueInv, NEW p \in Proc, SysCall(p)
    PROVE  ValueInv'
<1>1. /\ pc \in [Proc -> Labels]
      /\ sem.value \in Int /\ sem.process_list \in Seq(Proc)
      /\ Len(sem.process_list) \in Nat
  BY SemFacts DEF ExclInv, TypeOK
<1>2. CASE SpinLock(p) \/ SpinUnlock(p) \/ DownSetState(p) \/ DownSchedule(p)
  <2>1. sem' = sem /\ \A q \in Proc : pc'[q] = pc[q] \/ {pc[q], pc'[q]} \cap Unsettled = {}
    BY <1>1, <1>2 DEF SpinLock, SpinUnlock, DownSetState, DownSchedule, Goto, Unsettled, Unlisted
  <2> QED
    BY <2>1 DEF ValueInv, Unsettled, Unlisted
<1>3. CASE DownKmalloc(p)
  BY <1>1, <1>3 DEF DownKmalloc, Goto, ValueInv, Unsettled, Unlisted
<1>4. CASE DownValue(p)
  <2>1. /\ \A q \in Proc : pc[q] \notin Unsettled
        /\ \A q \in Proc : q # p => pc'[q] \notin Unsettled
        /\ pc'[p] = IF DownSleeps(sem) THEN "down_kmalloc" ELSE "down_unlock"
    BY <1>1, <1>4, Alone DEF DownValue, Goto, Unsettled, Unlisted, CritLabels
  <2>2. sem'.value = sem.value - 1 /\ sem'.process_list = sem.process_list
    BY <1>1, <1>4 DEF DownValue, ExclInv, TypeOK
  <2>3. Len(sem.process_list) = Sleepers(sem.value)
    BY <2>1 DEF ValueInv
  <2> QED
    BY <1>1, <2>1, <2>2, <2>3 DEF ValueInv, Unsettled, Unlisted, DownSleeps, Sleepers
<1>5. CASE DownEnqueue(p)
  <2>1. /\ \A q \in Proc : pc'[q] \notin Unsettled
        /\ Len(sem.process_list) = Sleepers(sem.value) - 1
    BY <1>1, <1>5, Alone DEF DownEnqueue, Goto, Unsettled, Unlisted, CritLabels, ValueInv
  <2>2. sem'.value = sem.value /\ sem'.process_list = Enqueue(sem.process_list, p)
    BY <1>1, <1>5 DEF DownEnqueue, ExclInv, TypeOK
  <2>3. Len(Enqueue(sem.process_list, p)) = Len(sem.process_list) + 1
    BY <1>1 DEF Enqueue
  <2>4. Sleepers(sem.value) \in Nat
    BY SemFacts DEF ExclInv
  <2> QED
    BY <1>1, <2>1, <2>2, <2>3, <2>4 DEF ValueInv, Unsettled, Unlisted
<1>6. CASE UpValue(p)
  <2>1. /\ \A q \in Proc : pc[q] \notin Unsettled
        /\ \A q \in Proc : q # p => pc'[q] \notin Unsettled
        /\ pc'[p] = IF UpWakes(sem) THEN "up_dequeue" ELSE "up_unlock"
    BY <1>1, <1>6, Alone DEF UpValue, Goto, Unsettled, Unlisted, CritLabels
  <2>2. sem'.value = sem.value + 1 /\ sem'.process_list = sem.process_list
    BY <1>1, <1>6 DEF UpValue, ExclInv, TypeOK
  <2>3. Len(sem.process_list) = Sleepers(sem.value)
    BY <2>1 DEF ValueInv
  <2> QED
    BY <1>1, <2>1, <2>2, <2>3 DEF ValueInv, Unsettled, Unlisted, UpWakes, Sleepers
<1>7. CASE UpDequeue(p)
  <2>1. Len(sem.process_list) = Sleepers(sem.value) + 1 /\ Sleepers(sem.value) \in Nat
    BY <1>7, SemFacts DEF UpDequeue, ExclInv, ValueInv
  <2>2. sem.process_list # <<>>
    BY <1>1, <2>1
  <2>3. \A q \in Proc : pc'[q] \notin Unsettled
    BY <1>1, <1>7, <2>2, Alone DEF UpDequeue, Goto, Unsettled, Unlisted, CritLabels
  <2>4. sem'.value = sem.value /\ sem'.process_list = DequeueRest(sem.process_list)
    BY <1>1, <1>7, <2>2 DEF UpDequeue, ExclInv, TypeOK
  <2>5. Len(DequeueRest(sem.process_list)) = Len(sem.process_list) - 1
    BY <1>1, <2>2 DEF DequeueRest
  <2> QED
    BY <1>1, <2>1, <2>3, <2>4, <2>5 DEF ValueInv, Unsettled, Unlisted
<1> QED
  BY <1>2, <1>3, <1>4, <1>5, <1>6, <1>7 DEF SysCall

LEMMA ValueInit == Init => ValueInv
BY ConfigAssumption DEF Init, SemInit, ValueInv, Unsettled, Unlisted, Sleepers

LEMMA ValueStep == ExclInv /\ ValueInv /\ [Next]_vars => ValueInv'
<1> SUFFICES ASSUME ExclInv, ValueInv, [Next]_vars PROVE ValueInv'
  OBVIOUS
<1>1. CASE UNCHANGED vars
  BY <1>1 DEF vars, ValueInv
<1> QED
  BY <1>1, ValueScheduler, ValueSysCall DEF Next

LEMMA ValueImplies == ExclInv /\ ValueInv => ListMatchesValue /\ DequeuesSleeper
<1> SUFFICES ASSUME ExclInv, ValueInv PROVE ListMatchesValue /\ DequeuesSleeper
  OBVIOUS
<1>1. ListMatchesValue
  BY DEF ValueInv, ListMatchesValue, InCritSection, CritLabels, Unsettled, Unlisted, Sleepers
<1>2. DequeuesSleeper
  BY SemFacts DEF ExclInv, ValueInv, DequeuesSleeper
<1> QED
  BY <1>1, <1>2

(* Outside of the critical section a negative value counts the listed      *)
(* processes and any other leaves the list empty, also when signals wake   *)
(* sleepers early.                                                         *)
THEOREM CS1550SemListMatches == LockEffective /\ Spec => []ListMatchesValue
BY ExclInit, ExclStep, ValueInit, ValueStep, ValueImplies, PTL DEF Spec

(* dequeue never follows a NULL head.                                      *)
THEOREM CS1550SemDequeues == LockEffective /\ Spec => []DequeuesSleeper
BY ExclInit, ExclStep, ValueInit, ValueStep, ValueImplies, PTL DEF Spec

-----------------------------------------------------------------------------
(* Sleepers are listed.  With signals a process can be on the list twice:  *)
(* the two lemmas on lists do without Once.                                *)

LEMMA EnqueueKeeps ==
    ASSUME NEW list \in Seq(Proc), NEW p \in Proc
    PROVE  Listed(list) \union {p} \subseteq Listed(Enqueue(list, p))
<1>1. /\ Len(Enqueue(list, p)) = Len(list) + 1 /\ Len(list) \in Nat
      /\ Enqueue(list, p)[Len(list) + 1] = p
      /\ \A i \in 1..Len(list) : Enqueue(list, p)[i] = list[i]
  BY DEF Enqueue
<1>2. Len(list) + 1 \in 1..Len(Enqueue(list, p)) /\ 1..Len(list) \subseteq 1..Len(Enqueue(list, p))
  BY <1>1
<1> QED
  BY <1>1, <1>2 DEF Listed

LEMMA DequeueKeeps ==
    ASSUME NEW list \in Seq(Proc), list # <<>>
    PROVE  Listed(list) \ {DequeueItem(list)} \subseteq Listed(DequeueRest(list))
<1>1. /\ Len(DequeueRest(list)) = Len(list) - 1 /\ Len(list) \in Nat
      /\ DequeueItem(list) = list[1]
      /\ \A i \in 1..Len(DequeueRest(list)) : DequeueRest(list)[i] = list[i + 1]
  BY DEF DequeueRest, DequeueItem
<1>2. ASSUME NEW i \in 1..Len(list), list[i] # list[1]
      PROVE  list[i] \in Listed(DequeueRest(list))
  <2>1. i - 1 \in 1..Len(DequeueRest(list)) /\ DequeueRest(list)[i - 1] = list[i]
    BY <1>1, <1>2
  <2> QED
    BY <2>1 DEF Listed
<1> QED
  BY <1>1, <1>2 DEF Listed

MustBeListed(p) == state[p] = "INTERRUPTIBLE" \/ pc[p] = "down_set_state"

SleepInv == \A p \in Proc : MustBeListed(p) => p \in Listed(sem.process_list)

LEMMA SleepScheduler ==
    ASSUME ExclInv, SleepInv, NEW p \in Proc,
           Dispatch(p) \/ Preempt(p) \/ Signal(p) \/ MemoryFreed(p) \/ Call(p)
    PROVE  SleepInv'
<1>1. sem' = sem /\ \A q \in Proc : MustBeListed(q)' => MustBeListed(q)
  BY DEF Dispatch, Preempt, Signal, MemoryFreed, Call, Goto, ExclInv, TypeOK, MustBeListed
<1> QED
  BY <1>1 DEF SleepInv

LEMMA SleepSysCall ==
    ASSUME ExclInv, SleepInv, NEW p \in Proc, SysCall(p)
    PROVE  SleepInv'
<1>1. /\ pc \in [Proc -> Labels] /\ sem.process_list \in Seq(Proc)
      /\ state \in [Proc -> {"RUNNING", "INTERRUPTIBLE", "UNINTERRUPTIBLE"}]
  BY SemFacts DEF ExclInv, TypeOK
<1>2. CASE SpinLock(p) \/ SpinUnlock(p) \/ DownValue(p) \/ DownKmalloc(p) \/ DownSetState(p)
           \/ DownSchedule(p) \/ UpValue(p)
  <2>1. /\ sem'.process_list = sem.process_list
        /\ \A q \in Proc : MustBeListed(q)' => MustBeListed(q)
    BY <1>1, <1>2 DEF SpinLock, SpinUnlock, DownValue, DownKmalloc, DownSetState, DownSchedule,
       UpValue, Goto, ExclInv, TypeOK, MustBeListed
  <2> QED
    BY <2>1 DEF SleepInv
<1>3. CASE DownEnqueue(p)
  <2>1. sem'.process_list = Enqueue(sem.process_list, p)
    BY <1>3 DEF DownEnqueue, ExclInv, TypeOK
  <2>2. \A q \in Proc : MustBeListed(q)' => MustBeListed(q) \/ q = p
    BY <1>1, <1>3 DEF DownEnqueue, Goto, MustBeListed
  <2> QED
    BY <1>1, <2>1, <2>2, EnqueueKeeps DEF SleepInv
<1>4. CASE UpDequeue(p)
  <2>1. CASE sem.process_list = <<>>
    <3>1. sem' = sem /\ \A q \in Proc : MustBeListed(q)' => MustBeListed(q)
      BY <1>1, <1>4, <2>1 DEF UpDequeue, Oops, MustBeListed
    <3> QED
      BY <3>1 DEF SleepInv
  <2>2. CASE sem.process_list # <<>>
    <3> DEFINE h == DequeueItem(sem.process_list)
    <3>1. sem'.process_list = DequeueRest(sem.process_list)
      BY <1>4, <2>2 DEF UpDequeue, ExclInv, TypeOK
    <3>2. h \in Proc
      BY <1>1, <2>2 DEF DequeueItem
    <3>3. \A q \in Proc : pc[q] # "down_set_state" /\ pc'[q] # "down_set_state"
      BY <1>1, <1>4, <2>2, Alone DEF UpDequeue, Goto, CritLabels
    <3>4. \A q \in Proc : MustBeListed(q)' => MustBeListed(q) /\ q # h
      BY <1>1, <1>4, <2>2, <3>2, <3>3 DEF UpDequeue, MustBeListed
    <3>5. ASSUME NEW q \in Proc, MustBeListed(q)'
          PROVE  q \in Listed(DequeueRest(sem.process_list))
      <4>1. q \in Listed(sem.process_list) /\ q # h
        BY <3>4, <3>5 DEF SleepInv
      <4> QED
        BY <1>1, <2>2, <4>1, DequeueKeeps
    <3> QED
      BY <3>1, <3>5 DEF SleepInv
  <2> QED
    BY <2>1, <2>2
<1> QED
  BY <1>2, <1>3, <1>4 DEF SysCall

LEMMA SleepInit == Init => SleepInv
BY DEF Init, SleepInv, MustBeListed

LEMMA SleepStep == ExclInv /\ SleepInv /\ [Next]_vars => SleepInv'
<1> SUFFICES ASSUME ExclInv, SleepInv, [Next]_vars PROVE SleepInv'
  OBVIOUS
<1>1. CASE UNCHANGED vars
  BY <1>1 DEF vars, SleepInv, MustBeListed
<1> QED
  BY <1>1, SleepScheduler, SleepSysCall DEF Next

(* No wake-up is lost: whoever is asleep in down is on the list, where the *)
(* next up looks for it.                                                   *)
THEOREM CS1550SemSleepers == LockEffective /\ Spec => []SleeperIsListed
<1>1. SleepInv => SleeperIsListed
  BY DEF SleepInv, MustBeListed, SleeperIsListed
<1> QED
  BY <1>1, ExclInit, ExclStep, SleepInit, SleepStep, PTL DEF Spec

-----------------------------------------------------------------------------
(* Refinement, for processes that no signal wakes.  The invariant that the *)
(* mapping needs says where a process can be that is not running: asleep   *)
(* in down and then on the list, once, or waiting in kmalloc.              *)

WaitInv ==
    /\ \A p \in Proc : p \in Listed(sem.process_list) <=> MustBeListed(p)
    /\ Once(sem.process_list)
    /\ \A p \in Proc :
          /\ state[p] = "INTERRUPTIBLE" => \/ pc[p] \in {"down_unlock", "down_schedule"}
                                           \/ pc[p] = "use" /\ p \notin cpu
          /\ state[p] = "UNINTERRUPTIBLE" => pc[p] = "down_enqueue" /\ p \notin cpu

LEMMA WaitScheduler ==
    ASSUME ExclInv, WaitInv, MaxSignals = 0, NEW p \in Proc,
           Dispatch(p) \/ Preempt(p) \/ Signal(p) \/ MemoryFreed(p) \/ Call(p)
    PROVE  WaitInv'
<1>1. /\ pc \in [Proc -> Labels] /\ signals = 0
      /\ state \in [Proc -> {"RUNNING", "INTERRUPTIBLE", "UNINTERRUPTIBLE"}]
  BY DEF ExclInv, TypeOK
<1>2. CASE Dispatch(p)
  BY <1>1, <1>2 DEF Dispatch, WaitInv, MustBeListed
<1>3. CASE Preempt(p)
  BY <1>1, <1>3 DEF Preempt, WaitInv, MustBeListed
<1>4. CASE Signal(p)
  BY <1>1, <1>4 DEF Signal
<1>5. CASE MemoryFreed(p)
  BY <1>1, <1>5 DEF MemoryFreed, WaitInv, MustBeListed
<1>6. CASE Call(p)
  BY <1>1, <1>6 DEF Call, Goto, WaitInv, MustBeListed
<1> QED
  BY <1>2, <1>3, <1>4, <1>5, <1>6

LEMMA WaitSysCall ==
    ASSUME ExclInv, ValueInv, WaitInv, NEW p \in Proc, SysCall(p)
    PROVE  WaitInv'
<1>1. /\ pc \in [Proc -> Labels] /\ sem.process_list \in Seq(Proc)
      /\ state \in [Proc -> {"RUNNING", "INTERRUPTIBLE", "UNINTERRUPTIBLE"}]
  BY SemFacts DEF ExclInv, TypeOK
<1>2. CASE SpinLock(p) \/ SpinUnlock(p) \/ DownValue(p) \/ UpValue(p)
  <2>1. /\ sem'.process_list = sem.process_list /\ UNCHANGED <<state, cpu>>
        /\ \E label : /\ Goto(p, label)
                      /\ \/ label = "down_schedule"
                         \/ pc[p] \notin {"down_unlock", "down_schedule", "use"}
                      /\ label # "down_set_state" /\ pc[p] \notin {"down_set_state", "down_enqueue"}
    BY <1>1, <1>2 DEF SpinLock, SpinUnlock, DownValue, UpValue, ExclInv, TypeOK
  <2> QED
    BY <1>1, <2>1 DEF Goto, WaitInv, MustBeListed
<1>3. CASE DownKmalloc(p)
  BY <1>1, <1>3 DEF DownKmalloc, Goto, WaitInv, MustBeListed
<1>4. CASE DownEnqueue(p)
  <2>1. sem'.process_list = Enqueue(sem.process_list, p)
    BY <1>4 DEF DownEnqueue, ExclInv, TypeOK
  <2>2. p \notin Listed(sem.process_list)
    BY <1>1, <1>4 DEF DownEnqueue, WaitInv, MustBeListed
  <2>3. /\ Listed(Enqueue(sem.process_list, p)) = Listed(sem.process_list) \union {p}
        /\ Once(Enqueue(sem.process_list, p))
    BY <1>1, <2>2, EnqueueLists DEF WaitInv
  <2> QED
    BY <1>1, <1>4, <2>1, <2>3 DEF DownEnqueue, Goto, WaitInv, MustBeListed
<1>5. CASE DownSetState(p)
  <2>1. /\ sem' = sem /\ cpu' = cpu /\ pc[p] = "down_set_state"
        /\ pc'[p] = "down_unlock" /\ state'[p] = "INTERRUPTIBLE"
        /\ \A q \in Proc : q # p => pc'[q] = pc[q] /\ state'[q] = state[q]
    BY <1>1, <1>5 DEF DownSetState, Goto
  <2>2. \A q \in Proc : MustBeListed(q)' <=> MustBeListed(q)
    BY <2>1 DEF MustBeListed
  <2> QED
    BY <2>1, <2>2 DEF WaitInv
<1>6. CASE DownSchedule(p)
  BY <1>1, <1>6 DEF DownSchedule, Goto, WaitInv, MustBeListed
<1>7. CASE UpDequeue(p)
  <2> DEFINE h == DequeueItem(sem.process_list)
  <2>1. sem.process_list # <<>>
    BY <1>7, ValueImplies DEF UpDequeue, DequeuesSleeper
  <2>2. /\ Listed(DequeueRest(sem.process_list)) = Listed(sem.process_list) \ {h}
        /\ Once(DequeueRest(sem.process_list)) /\ h \in Listed(sem.process_list)
    BY <1>1, <2>1, DequeueLists DEF WaitInv
  <2>3. h \in Proc
    BY <1>1, <2>1 DEF DequeueItem
  <2>4. \A q \in Proc : pc[q] # "down_set_state" /\ pc'[q] # "down_set_state"
    BY <1>1, <1>7, <2>1, Alone DEF UpDequeue, Goto, CritLabels
  <2>5. /\ sem'.process_list = DequeueRest(sem.process_list)
        /\ state' = [state EXCEPT ![h] = "RUNNING"] /\ cpu' = cpu
        /\ pc[p] = "up_dequeue" /\ Goto(p, "up_unlock")
    BY <1>7, <2>1 DEF UpDequeue, ExclInv, TypeOK
  <2> QED
    BY <1>1, <2>2, <2>3, <2>4, <2>5 DEF Goto, WaitInv, MustBeListed
<1> QED
  BY <1>2, <1>3, <1>4, <1>5, <1>6, <1>7 DEF SysCall

LEMMA WaitInit == Init => WaitInv
BY DEF Init, SemInit, WaitInv, MustBeListed, Listed, Once

LEMMA WaitStep ==
    MaxSignals = 0 => (ExclInv /\ ValueInv /\ WaitInv /\ [Next]_vars => WaitInv')
<1> SUFFICES ASSUME MaxSignals = 0, ExclInv, ValueInv, WaitInv, [Next]_vars PROVE WaitInv'
  OBVIOUS
<1>1. CASE UNCHANGED vars
  BY <1>1 DEF vars, WaitInv, MustBeListed
<1> QED
  BY <1>1, WaitScheduler, WaitSysCall DEF Next

(* What the promised list is at each point of a call. *)

PromisedListIs ==
    /\ (\A p \in Proc : pc[p] \notin Unsettled) => PromisedList = sem.process_list
    /\ \A p \in Proc :
          /\ pc[p] \in Unlisted =>
                PromisedList = Enqueue(sem.process_list, p)
          /\ pc[p] = "up_dequeue" => PromisedList = DequeueRest(sem.process_list)

LEMMA PromiseNow == ExclInv => PromisedListIs
<1> SUFFICES ASSUME ExclInv PROVE PromisedListIs
  OBVIOUS
<1>1. ASSUME \A p \in Proc : pc[p] \notin Unsettled
      PROVE  PromisedList = sem.process_list
  <2>1. Enqueuing = {} /\ Dequeuing = {}
    BY <1>1 DEF Enqueuing, Dequeuing, Unsettled, Unlisted
  <2> QED
    BY <2>1 DEF PromisedList
<1>2. ASSUME NEW p \in Proc, pc[p] \in Unlisted
      PROVE  PromisedList = Enqueue(sem.process_list, p)
  <2>1. pc[p] \in CritLabels
    BY <1>2 DEF CritLabels, Unlisted
  <2>2. Enqueuing = {p} /\ Dequeuing = {}
    BY <1>2, <2>1, Alone DEF Enqueuing, Dequeuing, Unsettled, Unlisted
  <2>3. (CHOOSE q \in {p} : TRUE) = p
    OBVIOUS
  <2> QED
    BY <2>2, <2>3 DEF PromisedList
<1>3. ASSUME NEW p \in Proc, pc[p] = "up_dequeue"
      PROVE  PromisedList = DequeueRest(sem.process_list)
  <2>1. pc[p] \in CritLabels
    BY <1>3 DEF CritLabels
  <2>2. Enqueuing = {} /\ Dequeuing = {p}
    BY <1>3, <2>1, Alone DEF Enqueuing, Dequeuing, Unsettled, Unlisted
  <2> QED
    BY <2>2 DEF PromisedList
<1> QED
  BY <1>1, <1>2, <1>3 DEF PromisedListIs

LEMMA PromiseNext == ExclInv' => PromisedListIs'
BY PromiseNow, PTL

RefInv == MaxSignals = 0 /\ ExclInv /\ ValueInv /\ WaitInv

PromisedSem == [value |-> sem.value, process_list |-> PromisedList]

(* The labels at which a process is outside of the abstract down ... up. *)
Outside == {"idle", "down_lock", "down_value", "up_dequeue", "up_unlock"}

LEMMA PhaseNow ==
    PromisedPhase = [p \in Proc |-> IF pc[p] \in Outside THEN "idle"
                                    ELSE IF p \in Listed(PromisedList) THEN "waiting" ELSE "granted"]
BY DEF PromisedPhase, Outside

LEMMA PhaseNext ==
    PromisedPhase' = [p \in Proc |-> IF pc'[p] \in Outside THEN "idle"
                                     ELSE IF p \in Listed(PromisedList') THEN "waiting" ELSE "granted"]
BY DEF PromisedPhase, Outside

(* A step that moves nobody in or out and leaves the promised list alone.  *)
LEMMA PromiseStutters ==
    ASSUME sem'.value = sem.value, PromisedList' = PromisedList,
           \A q \in Proc : pc'[q] \in Outside <=> pc[q] \in Outside
    PROVE  UNCHANGED <<PromisedSem, PromisedPhase>>
<1>1. PromisedPhase' = PromisedPhase
  BY PhaseNow, PhaseNext
<1> QED
  BY <1>1 DEF PromisedSem

LEMMA DownIsDown ==
    ASSUME RefInv, ExclInv', NEW p \in Proc, DownValue(p)
    PROVE  Promise!Down(p)
<1> DEFINE list == sem.process_list
<1>1. /\ pc \in [Proc -> Labels] /\ list \in Seq(Proc) /\ pc[p] = "down_value"
      /\ sem' = [sem EXCEPT !.value = @ - 1]
      /\ sem \in [value : Int, process_list : Seq(Proc)]
      /\ Goto(p, IF DownSleeps(sem) THEN "down_kmalloc" ELSE "down_unlock")
  BY DEF DownValue, RefInv, ExclInv, TypeOK
<1>2. sem'.value = sem.value - 1 /\ sem'.process_list = list
  BY <1>1
<1>3. PromisedList = list
  <2>1. \A q \in Proc : pc[q] \notin Unsettled
    BY <1>1, Alone DEF RefInv, CritLabels, Unsettled, Unlisted
  <2> QED
    BY <2>1, PromiseNow DEF RefInv, PromisedListIs
<1>4. PromisedList' = IF DownSleeps(sem) THEN Enqueue(list, p) ELSE list
  <2>1. CASE DownSleeps(sem)
    BY <1>1, <1>2, <2>1, PromiseNext DEF PromisedListIs, Goto, Unlisted
  <2>2. CASE ~DownSleeps(sem)
    <3>1. \A q \in Proc : pc'[q] \notin Unsettled
      BY <1>1, <2>2, Alone DEF RefInv, CritLabels, Unsettled, Unlisted, Goto
    <3> QED
      BY <1>2, <2>2, <3>1, PromiseNext DEF PromisedListIs
  <2> QED
    BY <2>1, <2>2
<1>5. p \notin Listed(list) /\ Listed(Enqueue(list, p)) = Listed(list) \union {p}
  <2>1. p \notin Listed(list)
    BY <1>1 DEF RefInv, WaitInv, MustBeListed
  <2> QED
    BY <1>1, <2>1, EnqueueLists DEF RefInv, WaitInv
<1>6. PromisedPhase[p] = "idle"
  BY <1>1, PhaseNow DEF Outside
<1>7. PromisedPhase' = [PromisedPhase EXCEPT ![p] = IF DownSleeps(sem) THEN "waiting" ELSE "granted"]
  <2>1. pc'[p] \notin Outside /\ \A q \in Proc : q # p => pc'[q] = pc[q]
    BY <1>1 DEF Goto, Outside
  <2>2. p \in Listed(PromisedList') <=> DownSleeps(sem)
    BY <1>4, <1>5
  <2>3. \A q \in Proc : q # p => (q \in Listed(PromisedList') <=> q \in Listed(PromisedList))
    BY <1>3, <1>4, <1>5
  <2> QED
    BY <2>1, <2>2, <2>3, PhaseNow, PhaseNext
<1>8. /\ Promise!DownSleeps(PromisedSem) = DownSleeps(sem)
      /\ Promise!DownSem(PromisedSem, p) =
            [value |-> sem.value - 1,
             process_list |-> IF DownSleeps(sem) THEN Enqueue(list, p) ELSE list]
  BY <1>3 DEF PromisedSem, Promise!DownSleeps, DownSleeps, Promise!DownSem, Promise!Enqueue, Enqueue
<1>9. PromisedSem' = Promise!DownSem(PromisedSem, p)
  BY <1>2, <1>4, <1>8 DEF PromisedSem
<1> QED
  BY <1>6, <1>7, <1>8, <1>9 DEF Promise!Down, PromisedSem

LEMMA UpIsUp ==
    ASSUME RefInv, ExclInv', NEW p \in Proc, UpValue(p)
    PROVE  Promise!Up(p)
<1> DEFINE list == sem.process_list
           h == DequeueItem(list)
<1>1. /\ pc \in [Proc -> Labels] /\ list \in Seq(Proc) /\ pc[p] = "up_value"
      /\ sem' = [sem EXCEPT !.value = @ + 1]
      /\ sem \in [value : Int, process_list : Seq(Proc)]
      /\ Goto(p, IF UpWakes(sem) THEN "up_dequeue" ELSE "up_unlock")
  BY DEF UpValue, RefInv, ExclInv, TypeOK
<1>2. sem'.value = sem.value + 1 /\ sem'.process_list = list
  BY <1>1
<1>3. \A q \in Proc : pc[q] \notin Unsettled
  BY <1>1, Alone DEF RefInv, CritLabels, Unsettled, Unlisted
<1>4. PromisedList = list
  BY <1>3, PromiseNow DEF RefInv, PromisedListIs
<1>5. PromisedList' = IF UpWakes(sem) THEN DequeueRest(list) ELSE list
  <2>1. CASE UpWakes(sem)
    BY <1>1, <1>2, <2>1, PromiseNext DEF PromisedListIs, Goto
  <2>2. CASE ~UpWakes(sem)
    <3>1. \A q \in Proc : pc'[q] \notin Unsettled
      BY <1>1, <1>3, <2>2 DEF Unsettled, Unlisted, Goto
    <3> QED
      BY <1>2, <2>2, <3>1, PromiseNext DEF PromisedListIs
  <2> QED
    BY <2>1, <2>2
<1>6. UpWakes(sem) => /\ list # <<>>
                      /\ h \in Listed(list)
                      /\ Listed(DequeueRest(list)) = Listed(list) \ {h}
  <2>1. ASSUME UpWakes(sem) PROVE list # <<>>
    <3>1. Len(list) = Sleepers(sem.value)
      BY <1>3 DEF RefInv, ValueInv
    <3> QED
      BY <1>1, <2>1, <3>1 DEF UpWakes, Sleepers
  <2> QED
    BY <1>1, <2>1, DequeueLists DEF RefInv, WaitInv
<1>7. \A q \in Listed(list) : q \in Proc /\ q # p /\ pc[q] \notin Outside
  <2>1. ASSUME NEW q \in Listed(list)
        PROVE  q \in Proc /\ MustBeListed(q)
    <3>1. q \in Proc
      BY <1>1 DEF Listed
    <3> QED
      BY <3>1 DEF RefInv, WaitInv
  <2> QED
    BY <1>1, <2>1 DEF RefInv, WaitInv, MustBeListed, Outside
<1>8. PromisedPhase[p] = "granted"
  BY <1>1, <1>4, <1>7, PhaseNow DEF Outside
<1>9. PromisedPhase' = [q \in Proc |-> IF UpWakes(sem) /\ q = h THEN "granted"
                                       ELSE IF q = p THEN "idle" ELSE PromisedPhase[q]]
  <2>1. pc'[p] \in Outside /\ \A q \in Proc : q # p => pc'[q] = pc[q]
    BY <1>1 DEF Goto, Outside
  <2>2. ASSUME NEW q \in Proc
        PROVE  PromisedPhase'[q] = IF UpWakes(sem) /\ q = h THEN "granted"
                                   ELSE IF q = p THEN "idle" ELSE PromisedPhase[q]
    <3>1. CASE q = p
      BY <1>6, <1>7, <2>1, <3>1, PhaseNext
    <3>2. CASE q # p /\ UpWakes(sem) /\ q = h
      BY <1>5, <1>6, <1>7, <2>1, <3>2, PhaseNext
    <3>3. CASE q # p /\ ~(UpWakes(sem) /\ q = h)
      <4>1. q \in Listed(PromisedList') <=> q \in Listed(PromisedList)
        BY <1>4, <1>5, <1>6, <3>3
      <4> QED
        BY <2>1, <3>3, <4>1, PhaseNow, PhaseNext
    <3> QED
      BY <3>1, <3>2, <3>3
  <2> QED
    BY <2>2, PhaseNext
<1>10. /\ Promise!UpWakes(PromisedSem) = UpWakes(sem)
       /\ Promise!Woken(PromisedSem) = IF UpWakes(sem) THEN {h} ELSE {}
       /\ Promise!UpSem(PromisedSem) =
             [value |-> sem.value + 1,
              process_list |-> IF UpWakes(sem) THEN DequeueRest(list) ELSE list]
  BY <1>4 DEF PromisedSem, Promise!UpWakes, UpWakes, Promise!UpSem, Promise!Woken,
     Promise!DequeueRest, DequeueRest, Promise!DequeueItem, DequeueItem
<1>11. PromisedSem' = Promise!UpSem(PromisedSem)
  BY <1>2, <1>5, <1>10 DEF PromisedSem
<1>12. PromisedPhase' = [q \in Proc |-> IF q \in Promise!Woken(PromisedSem) THEN "granted"
                                        ELSE IF q = p THEN "idle" ELSE PromisedPhase[q]]
  BY <1>9, <1>10
<1> QED
  BY <1>8, <1>11, <1>12 DEF Promise!Up, PromisedSem

LEMMA SchedulerStutters ==
    ASSUME RefInv, NEW p \in Proc,
           Dispatch(p) \/ Preempt(p) \/ Signal(p) \/ MemoryFreed(p) \/ Call(p)
    PROVE  UNCHANGED <<PromisedSem, PromisedPhase>>
<1>1. /\ sem' = sem
      /\ \A q \in Proc : /\ pc'[q] \in Outside <=> pc[q] \in Outside
                         /\ pc'[q] = pc[q] \/ {pc[q], pc'[q]} \cap Unsettled = {}
  BY DEF Dispatch, Preempt, Signal, MemoryFreed, Call, Goto, RefInv, ExclInv, TypeOK, Outside,
         Unsettled, Unlisted
<1>2. Enqueuing' = Enqueuing /\ Dequeuing' = Dequeuing
  BY <1>1 DEF Enqueuing, Dequeuing, Unsettled, Unlisted
<1>3. PromisedList' = PromisedList
  BY <1>1, <1>2 DEF PromisedList
<1> QED
  BY <1>1, <1>3, PromiseStutters

LEMMA SysCallRefines ==
    ASSUME RefInv, ExclInv', NEW p \in Proc, SysCall(p)
    PROVE  Promise!Next \/ UNCHANGED <<PromisedSem, PromisedPhase>>
<1>1. pc \in [Proc -> Labels] /\ sem.process_list \in Seq(Proc)
  BY DEF RefInv, ExclInv, TypeOK
<1>2. CASE DownValue(p)
  BY <1>2, DownIsDown DEF Promise!Next
<1>3. CASE UpValue(p)
  BY <1>3, UpIsUp DEF Promise!Next
<1>4. CASE SpinLock(p) \/ SpinUnlock(p) \/ DownKmalloc(p) \/ DownSetState(p) \/ DownSchedule(p)
  <2>1. /\ sem' = sem
        /\ \A q \in Proc : /\ pc'[q] \in Outside <=> pc[q] \in Outside
                           /\ pc'[q] = "up_dequeue" <=> pc[q] = "up_dequeue"
                           /\ pc'[q] \in Unlisted <=> pc[q] \in Unlisted
    BY <1>1, <1>4
       DEF SpinLock, SpinUnlock, DownKmalloc, DownSetState, DownSchedule, Goto, Outside, Unlisted
  <2>2. Enqueuing' = Enqueuing /\ Dequeuing' = Dequeuing
    BY <2>1 DEF Enqueuing, Dequeuing
  <2>3. PromisedList' = PromisedList
    BY <2>1, <2>2 DEF PromisedList
  <2> QED
    BY <2>1, <2>3, PromiseStutters
<1>5. CASE DownEnqueue(p)
  <2>1. /\ sem'.value = sem.value /\ sem'.process_list = Enqueue(sem.process_list, p)
        /\ pc[p] = "down_enqueue" /\ Goto(p, "down_set_state")
    BY <1>5 DEF DownEnqueue, RefInv, ExclInv, TypeOK
  <2>2. /\ \A q \in Proc : pc'[q] \notin Unsettled
        /\ \A q \in Proc : pc'[q] \in Outside <=> pc[q] \in Outside
    BY <1>1, <2>1, Alone DEF RefInv, Goto, CritLabels, Unsettled, Unlisted, Outside
  <2>3. PromisedList = Enqueue(sem.process_list, p) /\ PromisedList' = sem'.process_list
    BY <2>1, <2>2, PromiseNow, PromiseNext DEF RefInv, PromisedListIs, Unlisted
  <2> QED
    BY <2>1, <2>2, <2>3, PromiseStutters
<1>6. CASE UpDequeue(p)
  <2>1. sem.process_list # <<>>
    BY <1>6, ValueImplies DEF RefInv, UpDequeue, DequeuesSleeper
  <2>2. /\ sem'.value = sem.value /\ sem'.process_list = DequeueRest(sem.process_list)
        /\ pc[p] = "up_dequeue" /\ Goto(p, "up_unlock")
    BY <1>6, <2>1 DEF UpDequeue, RefInv, ExclInv, TypeOK
  <2>3. /\ \A q \in Proc : pc'[q] \notin Unsettled
        /\ \A q \in Proc : pc'[q] \in Outside <=> pc[q] \in Outside
    BY <1>1, <2>2, Alone DEF RefInv, Goto, CritLabels, Unsettled, Unlisted, Outside
  <2>4. PromisedList = DequeueRest(sem.process_list) /\ PromisedList' = sem'.process_list
    BY <2>2, <2>3, PromiseNow, PromiseNext DEF RefInv, PromisedListIs
  <2> QED
    BY <2>2, <2>3, <2>4, PromiseStutters
<1> QED
  BY <1>2, <1>3, <1>4, <1>5, <1>6 DEF SysCall

LEMMA PromiseInit == LockEffective /\ Init => Promise!Init
<1> SUFFICES ASSUME LockEffective, Init PROVE Promise!Init
  OBVIOUS
<1>1. \A p \in Proc : pc[p] = "idle"
  BY DEF Init
<1>2. PromisedList = <<>>
  BY <1>1, ExclInit, PromiseNow DEF Init, SemInit, PromisedListIs, Unsettled, Unlisted
<1>3. PromisedPhase = [p \in Proc |-> "idle"]
  BY <1>1, PhaseNow DEF Outside
<1> QED
  BY <1>2, <1>3 DEF Init, SemInit, Promise!Init, Promise!SemInit

LEMMA PromiseStep ==
    RefInv /\ ExclInv' /\ [Next]_vars => [Promise!Next]_<<PromisedSem, PromisedPhase>>
<1> SUFFICES ASSUME RefInv, ExclInv', [Next]_vars
             PROVE  Promise!Next \/ UNCHANGED <<PromisedSem, PromisedPhase>>
  OBVIOUS
<1>1. CASE UNCHANGED vars
  <2>1. Enqueuing' = Enqueuing /\ Dequeuing' = Dequeuing /\ sem' = sem /\ pc' = pc
    BY <1>1 DEF vars, Enqueuing, Dequeuing
  <2>2. PromisedList' = PromisedList
    BY <2>1 DEF PromisedList
  <2> QED
    BY <2>1, <2>2, PromiseStutters
<1> QED
  BY <1>1, SchedulerStutters, SysCallRefines DEF Next

(* The statements of down and up, on any machine whose lock is effective   *)
(* and without signals, add up to the atomic calls of Semaphore: each step *)
(* is a Down, an Up, or changes nothing that the caller can see.           *)
THEOREM CS1550SemImplements == LockEffective /\ MaxSignals = 0 /\ Spec => Promise!Spec
<1>1. LockEffective /\ MaxSignals = 0 /\ Init => RefInv
  BY ExclInit, ValueInit, WaitInit DEF RefInv
<1>2. RefInv /\ [Next]_vars => RefInv'
  BY ExclStep, ValueStep, WaitStep DEF RefInv
<1>3. RefInv /\ RefInv' /\ [Next]_vars => [Promise!Next]_(Promise!vars)
  BY PromiseStep DEF RefInv, Promise!vars, PromisedSem
<1> QED
  BY <1>1, <1>2, <1>3, PromiseInit, PTL DEF Spec, Promise!Spec

-----------------------------------------------------------------------------
(* The resources.  Who is past down without sleeping holds a resource of   *)
(* the abstract semaphore, so what is proved of that one bounds them too.  *)

PromiseTheorems == INSTANCE SemaphoreProofs
                       WITH sem   <- [value |-> sem.value, process_list |-> PromisedList],
                            phase <- PromisedPhase

LEMMA ConstantsFit == PromiseTheorems!IsFiniteSet(Proc) /\ NumResources \in Nat
BY ConfigAssumption DEF PromiseTheorems!IsFiniteSet, IsFiniteSet

LEMMA TheoremsInit == Promise!Init => PromiseTheorems!IInv
<1>1. Promise!Init => PromiseTheorems!Init
  BY DEF Promise!Init, Promise!SemInit, PromiseTheorems!Init, PromiseTheorems!SemInit
<1> QED
  BY <1>1, ConstantsFit, PromiseTheorems!InitIInv

LEMMA TheoremsStep ==
    PromiseTheorems!IInv /\ [Promise!Next]_(Promise!vars) => PromiseTheorems!IInv'
<1>1. Promise!Next => PromiseTheorems!Next
  BY DEF Promise!Next, PromiseTheorems!Next, Promise!Down, PromiseTheorems!Down,
         Promise!Up, PromiseTheorems!Up, Promise!DownSem, PromiseTheorems!DownSem,
         Promise!DownSleeps, PromiseTheorems!DownSleeps, Promise!Enqueue, PromiseTheorems!Enqueue,
         Promise!UpSem, PromiseTheorems!UpSem, Promise!UpWakes, PromiseTheorems!UpWakes,
         Promise!Woken, PromiseTheorems!Woken, Promise!DequeueItem, PromiseTheorems!DequeueItem,
         Promise!DequeueRest, PromiseTheorems!DequeueRest
<1>2. [Promise!Next]_(Promise!vars) => [PromiseTheorems!Next]_(PromiseTheorems!vars)
  BY <1>1 DEF Promise!vars, PromiseTheorems!vars
<1> QED
  BY <1>2, ConstantsFit, PromiseTheorems!StepIInv

LEMMA HoldersGranted == ASSUME RefInv PROVE Holders \subseteq PromiseTheorems!Granted
<1> SUFFICES ASSUME NEW p \in Holders PROVE p \in PromiseTheorems!Granted
  OBVIOUS
<1> DEFINE list == sem.process_list
<1>1. /\ p \in Proc /\ pc[p] \in {"down_schedule", "use", "up_lock"}
      /\ p \notin Listed(list) /\ list \in Seq(Proc) /\ Once(list)
  BY SemFacts DEF RefInv, ExclInv, WaitInv, Holders, MustBeListed
<1>2. p \notin Listed(PromisedList)
  <2>1. CASE \A q \in Proc : pc[q] \notin Unsettled
    BY <1>1, <2>1, PromiseNow DEF RefInv, PromisedListIs
  <2>2. ASSUME NEW q \in Proc, pc[q] \in Unlisted
        PROVE  p \notin Listed(PromisedList)
    <3>1. PromisedList = Enqueue(list, q) /\ q # p
      BY <1>1, <2>2, PromiseNow DEF RefInv, PromisedListIs, Unlisted
    <3>2. state[q] # "INTERRUPTIBLE" /\ pc[q] # "down_set_state"
      BY <2>2 DEF RefInv, WaitInv, Unlisted
    <3>3. q \notin Listed(list)
      BY <3>2 DEF RefInv, WaitInv, MustBeListed
    <3> QED
      BY <1>1, <3>1, <3>3, EnqueueLists
  <2>3. ASSUME NEW q \in Proc, pc[q] = "up_dequeue"
        PROVE  p \notin Listed(PromisedList)
    <3>1. PromisedList = DequeueRest(list) /\ list # <<>>
      BY <2>3, PromiseNow, ValueImplies DEF RefInv, PromisedListIs, DequeuesSleeper
    <3> QED
      BY <1>1, <3>1, DequeueLists
  <2> QED
    BY <2>1, <2>2, <2>3 DEF Unsettled, Unlisted
<1> QED
  BY <1>1, <1>2, PhaseNow DEF PromiseTheorems!Granted, Outside

LEMMA ResourcesFollow == RefInv /\ PromiseTheorems!IInv => AtMostNumResources
<1> SUFFICES ASSUME RefInv, PromiseTheorems!IInv PROVE AtMostNumResources
  OBVIOUS
<1> DEFINE G == PromiseTheorems!Granted
<1>1. IsFiniteSet(G) /\ G \subseteq Proc
  BY ConfigAssumption, FS_Subset DEF PromiseTheorems!Granted
<1>2. Cardinality(G) <= NumResources
  <2>1. PromiseTheorems!Cardinality(G) = Cardinality(G)
    BY DEF PromiseTheorems!Cardinality, Cardinality
  <2>2. PromiseTheorems!ValueCounts /\ sem.value \in Int /\ NumResources \in Nat
    BY ConfigAssumption, SemFacts DEF PromiseTheorems!IInv, RefInv, ExclInv
  <2> QED
    BY <2>1, <2>2 DEF PromiseTheorems!ValueCounts
<1>3. Cardinality(Holders) <= Cardinality(G)
  BY <1>1, HoldersGranted, FS_Subset
<1>4. IsFiniteSet(Holders)
  BY <1>1, HoldersGranted, FS_Subset
<1>5. Cardinality(G) \in Nat /\ Cardinality(Holders) \in Nat
  BY <1>1, <1>4, FS_CardinalityType
<1> QED
  BY <1>2, <1>3, <1>5, ConfigAssumption DEF AtMostNumResources

(* Without signals no more processes are past down than sem_init announced *)
(* resources.                                                              *)
THEOREM CS1550SemResources == LockEffective /\ MaxSignals = 0 /\ Spec => []AtMostNumResources
<1>1. LockEffective /\ MaxSignals = 0 /\ Init => RefInv /\ PromiseTheorems!IInv
  BY ExclInit, ValueInit, WaitInit, PromiseInit, TheoremsInit DEF RefInv
<1>2. RefInv /\ PromiseTheorems!IInv /\ [Next]_vars => RefInv' /\ PromiseTheorems!IInv'
  <2> SUFFICES ASSUME RefInv, PromiseTheorems!IInv, [Next]_vars
               PROVE  RefInv' /\ PromiseTheorems!IInv'
    OBVIOUS
  <2>1. RefInv'
    BY ExclStep, ValueStep, WaitStep DEF RefInv
  <2>2. [Promise!Next]_(Promise!vars)
    BY <2>1, PromiseStep DEF RefInv, Promise!vars, PromisedSem
  <2> QED
    BY <2>1, <2>2, TheoremsStep
<1> QED
  BY <1>1, <1>2, ResourcesFollow, PTL DEF Spec

=============================================================================

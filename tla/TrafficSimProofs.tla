-------------------------- MODULE TrafficSimProofs --------------------------
(***************************************************************************)
(* Theorems about TrafficSim, for any size of the buffers, any limit in    *)
(* the do-whiles and any number of cars.                                   *)
(***************************************************************************)
EXTENDS TrafficSim, SemaphoreOpsProofs

-----------------------------------------------------------------------------
(* Types *)

LEMMA Names ==
    /\ North # South /\ North # Flagperson /\ South # Flagperson
    /\ \A p \in Children : p # Main /\ p \in Procs
    /\ \A r \in Roads : /\ r \in Children /\ Empty[r] \in Sems /\ Full[r] \in Sems
                        /\ Empty[r] # Mutex /\ Full[r] # Mutex
                        /\ Other(r) \in Roads /\ Other(r) # r
    /\ \A r, q \in Roads : Empty[r] # Full[q]
    /\ \A r, q \in Roads : Empty[r] = Empty[q] \/ Full[r] = Full[q] => r = q
    /\ Mutex \in Sems
BY DEF North, South, Flagperson, Main, Roads, Children, Procs, Empty, Full, Mutex, Sems, Other

LEMMA DownType ==
    ASSUME TypeOK, NEW p \in Procs, NEW s \in Sems, Down(p, s)
    PROVE  /\ sem' \in [Sems -> [value : Int, process_list : Seq(Procs)]]
           /\ state' \in [Procs -> {"RUNNING", "INTERRUPTIBLE"}]
BY DEF TypeOK, Down, DownSem, Enqueue

LEMMA UpType ==
    ASSUME TypeOK, NEW s \in Sems, Up(s),
           UpWakes(sem[s]) => sem[s].process_list # <<>>
    PROVE  /\ sem' \in [Sems -> [value : Int, process_list : Seq(Procs)]]
           /\ state' \in [Procs -> {"RUNNING", "INTERRUPTIBLE"}]
BY DEF TypeOK, Up, UpSem, DequeueRest

-----------------------------------------------------------------------------
(* Who sleeps on which semaphore.  A process that is asleep has its pc at  *)
(* the statement after the down that put it there.                         *)

SleepLabels == {"down_mutex", "write", "fall_asleep", "cross"}

WaitsFor(p) == IF pc[p] \in MutexLabels THEN Mutex
               ELSE IF p = Flagperson THEN Full[lane] ELSE Empty[p]

Asleep(s) == {p \in Children : state[p] = "INTERRUPTIBLE" /\ WaitsFor(p) = s}

(* Only children at such a statement sleep; each semaphore's list has its  *)
(* sleepers, each once, and as many as a negative value counts.            *)
QueueInv ==
    /\ \A p \in Procs : state[p] = "INTERRUPTIBLE" => p \in Children /\ pc[p] \in SleepLabels
    /\ \A s \in Sems :
          /\ Listed(sem[s].process_list) = Asleep(s)
          /\ Once(sem[s].process_list)
          /\ IF sem[s].value < 0 THEN Len(sem[s].process_list) = -sem[s].value
                                 ELSE sem[s].process_list = <<>>

(* An up that wakes finds a sleeper. *)
LEMMA UpFindsSleeper ==
    ASSUME TypeOK, QueueInv, NEW s \in Sems, UpWakes(sem[s])
    PROVE  /\ sem[s].process_list # <<>>
           /\ sem[s].value \in Int /\ sem[s].value < 0
           /\ DequeueItem(sem[s].process_list) \in Asleep(s)
<1>1. sem[s].value \in Int /\ sem[s].process_list \in Seq(Procs)
  BY DEF TypeOK
<1>2. sem[s].value < 0
  BY <1>1 DEF UpWakes
<1>3. sem[s].process_list # <<>>
  BY <1>1, <1>2 DEF QueueInv
<1> QED
  BY <1>1, <1>2, <1>3, DequeueLists DEF QueueInv

(* A process p calls down(s) and will be found at `label'. *)
LEMMA DownQueue ==
    ASSUME TypeOK, QueueInv, NEW p \in Children, NEW s \in Sems, NEW label \in SleepLabels,
           state[p] = "RUNNING", Down(p, s), Goto(p, label), lane' = lane,
           WaitsFor(p)' = s
    PROVE  QueueInv'
<1> DEFINE list == sem[s].process_list
<1>1. /\ sem[s].value \in Int /\ list \in Seq(Procs) /\ Once(list)
      /\ Listed(list) = Asleep(s) /\ p \in Procs /\ p \notin Asleep(s)
  BY Names DEF TypeOK, QueueInv, Asleep
<1>2. /\ pc' = [pc EXCEPT ![p] = label] /\ pc \in [Procs -> Labels]
      /\ \A q \in Children \ {p} : WaitsFor(q)' = WaitsFor(q)
  BY Names DEF TypeOK, Goto, WaitsFor
<1>3. /\ sem' = [sem EXCEPT ![s] = DownSem(sem[s], p)] /\ sem \in [Sems -> [value : Int, process_list : Seq(Procs)]]
      /\ \A t \in Sems \ {s} : sem'[t] = sem[t]
      /\ sem'[s] = DownSem(sem[s], p)
  BY DEF TypeOK, Down
<1>4. state \in [Procs -> {"RUNNING", "INTERRUPTIBLE"}]
  BY DEF TypeOK
<1>5. CASE DownSleeps(sem[s])
  <2>1. state' = [state EXCEPT ![p] = "INTERRUPTIBLE"]
    BY <1>5 DEF Down
  <2>2. sem'[s] = [value |-> sem[s].value - 1, process_list |-> Enqueue(list, p)]
    BY <1>3, <1>5 DEF DownSem
  <2>3. /\ Asleep(s)' = Asleep(s) \union {p}
        /\ \A t \in Sems \ {s} : Asleep(t)' = Asleep(t)
    BY <1>1, <1>2, <1>4, <2>1 DEF Asleep
  <2>4. /\ Once(Enqueue(list, p)) /\ Len(Enqueue(list, p)) = Len(list) + 1
        /\ Listed(Enqueue(list, p)) = Asleep(s) \union {p}
    BY <1>1, EnqueueLists
  <2>5. sem[s].value <= 0 /\ Len(list) = -sem[s].value
    BY <1>1, <1>5 DEF DownSleeps, QueueInv
  <2>6. \A q \in Procs : state'[q] = "INTERRUPTIBLE" => q \in Children /\ pc'[q] \in SleepLabels
    BY <1>1, <1>2, <1>4, <2>1 DEF QueueInv
  <2>7. ASSUME NEW t \in Sems
        PROVE  /\ Listed(sem'[t].process_list) = Asleep(t)'
               /\ Once(sem'[t].process_list)
               /\ IF sem'[t].value < 0 THEN Len(sem'[t].process_list) = -sem'[t].value
                                       ELSE sem'[t].process_list = <<>>
    <3>1. CASE t = s
      <4>1. /\ Listed(sem'[s].process_list) = Asleep(s)'
            /\ Once(sem'[s].process_list)
            /\ IF sem'[s].value < 0 THEN Len(sem'[s].process_list) = -sem'[s].value
                                    ELSE sem'[s].process_list = <<>>
        BY <1>1, <2>2, <2>3, <2>4, <2>5
      <4> QED
        BY <3>1, <4>1
    <3>2. CASE t # s
      BY <1>3, <2>3, <3>2 DEF QueueInv
    <3> QED
      BY <3>1, <3>2
  <2> QED
    BY <2>6, <2>7 DEF QueueInv
<1>6. CASE ~DownSleeps(sem[s])
  <2>1. state' = state
    BY <1>1, <1>4, <1>6 DEF Down
  <2>2. sem'[s] = [value |-> sem[s].value - 1, process_list |-> list] /\ sem[s].value >= 1
    BY <1>1, <1>3, <1>6 DEF DownSem, DownSleeps
  <2>3. \A t \in Sems : Asleep(t)' = Asleep(t)
    BY <1>1, <1>2, <1>4, <2>1 DEF Asleep
  <2>4. \A q \in Procs : state'[q] = "INTERRUPTIBLE" => q \in Children /\ pc'[q] \in SleepLabels
    BY <1>1, <1>2, <1>4, <2>1 DEF QueueInv
  <2>5. ASSUME NEW t \in Sems
        PROVE  /\ Listed(sem'[t].process_list) = Asleep(t)'
               /\ Once(sem'[t].process_list)
               /\ IF sem'[t].value < 0 THEN Len(sem'[t].process_list) = -sem'[t].value
                                       ELSE sem'[t].process_list = <<>>
    <3>1. CASE t = s
      BY <1>1, <2>2, <2>3, <3>1 DEF QueueInv
    <3>2. CASE t # s
      BY <1>3, <2>3, <3>2 DEF QueueInv
    <3> QED
      BY <3>1, <3>2
  <2> QED
    BY <2>4, <2>5 DEF QueueInv
<1> QED
  BY <1>5, <1>6

(* A process p calls up(s) and goes on at `label'. *)
LEMMA UpQueue ==
    ASSUME TypeOK, QueueInv, NEW p \in Children, NEW s \in Sems, NEW label,
           state[p] = "RUNNING", Up(s), Goto(p, label),
           p = Flagperson \/ lane' = lane
    PROVE  QueueInv'
<1> DEFINE list == sem[s].process_list
<1>1. /\ sem[s].value \in Int /\ list \in Seq(Procs) /\ Once(list)
      /\ Listed(list) = Asleep(s) /\ p \in Procs /\ \A t \in Sems : p \notin Asleep(t)
  BY Names DEF TypeOK, QueueInv, Asleep
<1>2. /\ pc' = [pc EXCEPT ![p] = label] /\ pc \in [Procs -> Labels]
      /\ \A q \in Children \ {p} : WaitsFor(q)' = WaitsFor(q)
  BY Names DEF TypeOK, Goto, WaitsFor
<1>3. /\ \A t \in Sems \ {s} : sem'[t] = sem[t]
      /\ sem'[s] = UpSem(sem[s])
  BY DEF TypeOK, Up
<1>4. /\ state \in [Procs -> {"RUNNING", "INTERRUPTIBLE"}]
      /\ state' = [q \in Procs |-> IF q \in Woken(sem[s]) THEN "RUNNING" ELSE state[q]]
  BY DEF TypeOK, Up
<1>5. state'[p] = "RUNNING"
  BY <1>1, <1>4
<1>6. \A q \in Procs : state'[q] = "INTERRUPTIBLE" => q \in Children /\ pc'[q] \in SleepLabels
  BY <1>1, <1>2, <1>4, <1>5 DEF QueueInv
<1>7. \A t \in Sems : Asleep(t)' = Asleep(t) \ Woken(sem[s])
  BY <1>1, <1>2, <1>4, <1>5, Names DEF Asleep
<1>8. CASE UpWakes(sem[s])
  <2> DEFINE h == DequeueItem(list)
  <2>1. Woken(sem[s]) = {h} /\ h \in Asleep(s) /\ list # <<>> /\ sem[s].value < 0
    BY <1>8, UpFindsSleeper DEF Woken
  <2>2. sem'[s] = [value |-> sem[s].value + 1, process_list |-> DequeueRest(list)]
    BY <1>3, <1>8 DEF UpSem
  <2>3. /\ Once(DequeueRest(list)) /\ Len(DequeueRest(list)) = Len(list) - 1
        /\ DequeueRest(list) \in Seq(Procs)
        /\ Listed(DequeueRest(list)) = Asleep(s) \ {h}
    BY <1>1, <2>1, DequeueLists
  <2>4. Len(list) = -sem[s].value
    BY <2>1 DEF QueueInv
  <2>5. Asleep(s)' = Asleep(s) \ {h}
    BY <1>7, <2>1
  <2>6. ASSUME NEW t \in Sems, t # s
        PROVE  Asleep(t)' = Asleep(t)
    <3>1. h \notin Asleep(t)
      BY <2>1, <2>6 DEF Asleep
    <3>2. Asleep(t)' = Asleep(t) \ {h}
      BY <1>7, <2>1
    <3> QED
      BY <3>1, <3>2
  <2>7. Listed(sem'[s].process_list) = Asleep(s)' /\ Once(sem'[s].process_list)
    BY <2>2, <2>3, <2>5
  <2>8. IF sem'[s].value < 0 THEN Len(sem'[s].process_list) = -sem'[s].value
                             ELSE sem'[s].process_list = <<>>
    <3>1. CASE sem[s].value + 1 < 0
      BY <1>1, <2>2, <2>3, <2>4, <3>1
    <3>2. CASE ~(sem[s].value + 1 < 0)
      <4>1. sem[s].value + 1 = 0
        BY <1>1, <2>1, <3>2
      <4>2. Len(DequeueRest(list)) = 0
        BY <1>1, <2>3, <2>4, <4>1
      <4>3. DequeueRest(list) = <<>>
        BY <2>3, <4>2
      <4> QED
        BY <2>2, <4>1, <4>3
    <3> QED
      BY <3>1, <3>2
  <2>9. ASSUME NEW t \in Sems
        PROVE  /\ Listed(sem'[t].process_list) = Asleep(t)'
               /\ Once(sem'[t].process_list)
               /\ IF sem'[t].value < 0 THEN Len(sem'[t].process_list) = -sem'[t].value
                                       ELSE sem'[t].process_list = <<>>
    <3>1. CASE t = s
      BY <2>7, <2>8, <3>1
    <3>2. CASE t # s
      BY <1>3, <2>6, <3>2 DEF QueueInv
    <3> QED
      BY <3>1, <3>2
  <2> QED
    BY <1>6, <2>9 DEF QueueInv
<1>9. CASE ~UpWakes(sem[s])
  <2>1. /\ sem'[s] = [value |-> sem[s].value + 1, process_list |-> list]
        /\ sem[s].value >= 0 /\ Woken(sem[s]) = {}
    BY <1>1, <1>3, <1>9 DEF UpSem, UpWakes, Woken
  <2>2. ASSUME NEW t \in Sems
        PROVE  /\ Listed(sem'[t].process_list) = Asleep(t)'
               /\ Once(sem'[t].process_list)
               /\ IF sem'[t].value < 0 THEN Len(sem'[t].process_list) = -sem'[t].value
                                       ELSE sem'[t].process_list = <<>>
    <3>1. Asleep(t)' = Asleep(t)
      BY <1>7, <2>1
    <3>2. CASE t = s
      BY <1>1, <2>1, <3>1, <3>2 DEF QueueInv
    <3>3. CASE t # s
      BY <1>3, <3>1, <3>3 DEF QueueInv
    <3> QED
      BY <3>2, <3>3
  <2> QED
    BY <1>6, <2>2 DEF QueueInv
<1> QED
  BY <1>8, <1>9

(* A process that is awake moves on without a semaphore. *)
LEMMA MoveQueue ==
    ASSUME TypeOK, QueueInv, NEW p \in Children, NEW label,
           state[p] = "RUNNING", UNCHANGED <<sem, state>>, Goto(p, label) \/ pc' = pc,
           p = Flagperson \/ lane' = lane
    PROVE  QueueInv'
<1>1. /\ \A q \in Procs : state[q] = "INTERRUPTIBLE" => q # p
      /\ \A q \in Procs \ {p} : pc'[q] = pc[q]
  BY DEF TypeOK, Goto
<1>2. \A q \in Children \ {p} : WaitsFor(q)' = WaitsFor(q)
  BY <1>1, Names DEF WaitsFor
<1>3. \A s \in Sems : Asleep(s)' = Asleep(s)
  BY <1>1, <1>2, Names DEF Asleep
<1> QED
  BY <1>1, <1>3 DEF QueueInv

-----------------------------------------------------------------------------
(* The first invariant: types, what main has not forked yet, and the       *)
(* queues.  The types of the semaphores need the queues: only an up that   *)
(* finds a sleeper leaves a sequence on process_list.                      *)

ForkInv ==
    /\ pc[Main] = "fork_flagperson" => \A p \in Children : pc[p] = "unborn"
    /\ pc[Main] = "fork_north" => pc[North] = "unborn" /\ pc[South] = "unborn"
    /\ pc[Main] = "fork_south" => pc[South] = "unborn"

QInv == TypeOK /\ ForkInv /\ QueueInv

LEMMA IndexType ==
    ASSUME NEW i \in 0..BUFFER_MAX - 1
    PROVE  (i + 1) % BUFFER_MAX \in 0..BUFFER_MAX - 1
BY SizeAssumption

LEMMA QueueGrows ==
    ASSUME NEW q \in SharedMemoryQueue, NEW b \in [0..BUFFER_MAX - 1 -> Nat], NEW n \in Nat,
           NEW w \in 0..BUFFER_MAX - 1, NEW c \in Int
    PROVE  [q EXCEPT !.buffer = b, !.total = n, !.writeIndex = w, !.counter = c]
               \in SharedMemoryQueue
BY DEF SharedMemoryQueue

LEMMA QueueShrinks ==
    ASSUME NEW q \in SharedMemoryQueue, NEW i \in 0..BUFFER_MAX - 1, NEW c \in Int
    PROVE  [q EXCEPT !.readIndex = i, !.counter = c] \in SharedMemoryQueue
BY DEF SharedMemoryQueue

LEMMA ChildMoves ==
    ASSUME TypeOK, ForkInv, NEW p \in Children, pc[p] # "unborn",
           NEW label \in Labels, Goto(p, label) \/ pc' = pc
    PROVE  pc' \in [Procs -> Labels] /\ ForkInv'
BY DEF TypeOK, ForkInv, Goto, Children, Roads, Procs, Main, North, South, Flagperson

LEMMA InitQInv == Init => QInv
<1> SUFFICES ASSUME Init PROVE QInv
  OBVIOUS
<1>1. TypeOK
  <2>1. \A s \in Sems : sem[s] \in [value : Int, process_list : Seq(Procs)]
    BY SizeAssumption DEF Init, SemInit, Empty, Full, Mutex, Sems, Roads, North, South
  <2>2. 0 \in 0..BUFFER_MAX - 1
    BY SizeAssumption
  <2>3. road \in [Roads -> SharedMemoryQueue]
    BY <2>2 DEF Init, SharedMemoryQueue
  <2>4. sem \in [Sems -> [value : Int, process_list : Seq(Procs)]]
    BY <2>1 DEF Init
  <2>5. pc \in [Procs -> Labels] /\ state \in [Procs -> {"RUNNING", "INTERRUPTIBLE"}]
    BY DEF Init, Labels
  <2> QED
    BY <2>3, <2>4, <2>5 DEF Init, TypeOK, Roads
<1>2. ForkInv
  BY DEF Init, ForkInv, Children, Roads, Procs, Main, North, South, Flagperson
<1>3. QueueInv
  <2>1. \A s \in Sems : sem[s].process_list = <<>> /\ ~(sem[s].value < 0)
    BY SizeAssumption DEF Init, SemInit, Empty, Full, Mutex, Sems, Roads, North, South
  <2>2. \A s \in Sems : Asleep(s) = {}
    BY Names DEF Init, Asleep
  <2>3. \A s \in Sems : Listed(sem[s].process_list) = {} /\ Once(sem[s].process_list)
    BY <2>1 DEF Listed, Once
  <2> QED
    BY <2>1, <2>2, <2>3 DEF QueueInv, Init
<1> QED
  BY <1>1, <1>2, <1>3 DEF QInv

LEMMA ForkQInv == ASSUME QInv, RunSimulation PROVE QInv'
<1> USE DEF QInv
<1>1. PICK child \in Children, first \in Labels, next \in Labels :
         /\ \/ pc' = [pc EXCEPT ![Main] = next, ![child] = first]
            \/ Goto(Main, next)
         /\ pc[child] = "unborn" /\ state[Main] = "RUNNING"
         /\ UNCHANGED <<road, isAsleep, sem, state, lane>>
  BY DEF RunSimulation, Fork, At, ForkInv, Labels, Children, Roads, North, South, Flagperson
<1>2. TypeOK'
  <2>1. Main \in Procs /\ child \in Procs
    BY Names DEF Procs
  <2>2. pc \in [Procs -> Labels]
    BY DEF TypeOK
  <2>3. pc' \in [Procs -> Labels]
    BY <1>1, <2>1, <2>2 DEF Goto
  <2> QED
    BY <1>1, <2>3 DEF TypeOK
<1>3. ForkInv'
  BY DEF RunSimulation, Fork, At, Goto, TypeOK, ForkInv, Labels, Procs, Children, Roads,
         North, South, Flagperson, Main
<1>4. QueueInv'
  <2>1. \A p \in Children : p # child => pc'[p] = pc[p]
    BY <1>1, Names DEF TypeOK, Goto
  <2>2. state[child] # "INTERRUPTIBLE" /\ state[Main] # "INTERRUPTIBLE"
    BY <1>1, Names DEF QueueInv, SleepLabels
  <2>3. \A p \in Children : p # child => WaitsFor(p)' = WaitsFor(p)
    BY <1>1, <2>1 DEF WaitsFor
  <2>4. \A s \in Sems : Asleep(s)' = Asleep(s)
    BY <1>1, <2>2, <2>3 DEF Asleep
  <2> QED
    BY <1>1, <2>1, <2>2, <2>4 DEF QueueInv
<1> QED
  BY <1>2, <1>3, <1>4

LEMMA ProducerQInv == ASSUME QInv, NEW r \in Roads, Producer(r) PROVE QInv'
<1> USE DEF QInv
<1>1. r \in Children /\ r # Flagperson /\ r \in Procs /\ r # Main
  BY Names DEF Roads
<1>2. CASE CarArrives(r)
  <2>1. PICK arrives \in BOOLEAN :
           /\ road' = [road EXCEPT ![r].carArrived = arrives]
           /\ Goto(r, IF arrives THEN "down_empty" ELSE "sleep")
    BY <1>2 DEF CarArrives
  <2> DEFINE label == IF arrives THEN "down_empty" ELSE "sleep"
  <2>2. /\ pc[r] = "arrive" /\ state[r] = "RUNNING" /\ Goto(r, label) /\ label \in Labels
        /\ UNCHANGED <<isAsleep, sem, state, lane>>
    BY <1>2, <2>1 DEF CarArrives, At, Labels
  <2>3. ForkInv' /\ pc' \in [Procs -> Labels]
    BY <1>1, <2>2, ChildMoves
  <2>4. QueueInv'
    BY <1>1, <2>2, MoveQueue
  <2> QED
    BY <2>1, <2>2, <2>3, <2>4 DEF TypeOK, SharedMemoryQueue
<1>3. CASE SleepOver(r)
  <2>1. /\ pc[r] = "sleep" /\ state[r] = "RUNNING" /\ Goto(r, "arrive") /\ "arrive" \in Labels
        /\ UNCHANGED <<road, isAsleep, sem, state, lane>>
    BY <1>3 DEF SleepOver, At, Labels
  <2>2. ForkInv' /\ pc' \in [Procs -> Labels]
    BY <1>1, <2>1, ChildMoves
  <2>3. QueueInv'
    BY <1>1, <2>1, MoveQueue
  <2> QED
    BY <2>1, <2>2, <2>3 DEF TypeOK
<1>4. CASE ProducerDownEmpty(r)
  <2>1. /\ pc[r] = "down_empty" /\ state[r] = "RUNNING" /\ Down(r, Empty[r])
        /\ Goto(r, "down_mutex") /\ "down_mutex" \in Labels /\ "down_mutex" \in SleepLabels
        /\ UNCHANGED <<road, isAsleep, lane>> /\ Empty[r] \in Sems
    BY <1>4, Names DEF ProducerDownEmpty, At, Labels, SleepLabels
  <2>2. ForkInv' /\ pc' \in [Procs -> Labels]
    BY <1>1, <2>1, ChildMoves
  <2>3. WaitsFor(r)' = Empty[r]
    BY <1>1, <2>1 DEF WaitsFor, TypeOK, Goto, MutexLabels
  <2>4. QueueInv'
    BY <1>1, <2>1, <2>3, DownQueue
  <2> QED
    BY <1>1, <2>1, <2>2, <2>4, DownType DEF TypeOK
<1>5. CASE ProducerDownMutex(r)
  <2>1. /\ pc[r] = "down_mutex" /\ state[r] = "RUNNING" /\ Down(r, Mutex)
        /\ Goto(r, "write") /\ "write" \in Labels /\ "write" \in SleepLabels
        /\ UNCHANGED <<road, isAsleep, lane>> /\ Mutex \in Sems
    BY <1>5, Names DEF ProducerDownMutex, At, Labels, SleepLabels
  <2>2. ForkInv' /\ pc' \in [Procs -> Labels]
    BY <1>1, <2>1, ChildMoves
  <2>3. WaitsFor(r)' = Mutex
    BY <1>1, <2>1 DEF WaitsFor, TypeOK, Goto, MutexLabels
  <2>4. QueueInv'
    BY <1>1, <2>1, <2>3, DownQueue
  <2> QED
    BY <1>1, <2>1, <2>2, <2>4, DownType DEF TypeOK
<1>6. CASE WriteCar(r)
  <2>1. /\ pc[r] = "write" /\ state[r] = "RUNNING" /\ Goto(r, "up_mutex") /\ "up_mutex" \in Labels
        /\ UNCHANGED <<isAsleep, sem, state, lane>>
    BY <1>6 DEF WriteCar, At, Labels
  <2>2. ForkInv' /\ pc' \in [Procs -> Labels]
    BY <1>1, <2>1, ChildMoves
  <2>3. QueueInv'
    BY <1>1, <2>1, MoveQueue
  <2>4. road' \in [Roads -> SharedMemoryQueue]
    <3> DEFINE q == road[r]
               written == [q.buffer EXCEPT ![q.writeIndex] = q.total]
    <3>1. /\ q \in SharedMemoryQueue /\ road \in [Roads -> SharedMemoryQueue]
          /\ (q.writeIndex + 1) % BUFFER_MAX \in 0..BUFFER_MAX - 1
      BY IndexType DEF TypeOK, SharedMemoryQueue
    <3>2. written \in [0..BUFFER_MAX - 1 -> Nat]
      BY <3>1 DEF SharedMemoryQueue
    <3>3. road' = [road EXCEPT ![r] = [q EXCEPT !.buffer = written,
                                                !.total = @ + 1,
                                                !.writeIndex = (@ + 1) % BUFFER_MAX,
                                                !.counter = @ + 1]]
      BY <1>6, <3>1 DEF WriteCar, SharedMemoryQueue
    <3>4. q.total + 1 \in Nat /\ q.counter + 1 \in Int
      BY <3>1 DEF SharedMemoryQueue
    <3> HIDE DEF written, q
    <3>5. [q EXCEPT !.buffer = written, !.total = @ + 1,
                    !.writeIndex = (@ + 1) % BUFFER_MAX, !.counter = @ + 1]
            \in SharedMemoryQueue
      BY <3>1, <3>2, <3>4, QueueGrows
    <3> QED
      BY <3>1, <3>3, <3>5
  <2> QED
    BY <2>1, <2>2, <2>3, <2>4 DEF TypeOK
<1>7. CASE ProducerUpMutex(r)
  <2>1. /\ pc[r] = "up_mutex" /\ state[r] = "RUNNING" /\ Up(Mutex)
        /\ Goto(r, "up_full") /\ "up_full" \in Labels
        /\ UNCHANGED <<road, isAsleep, lane>> /\ Mutex \in Sems
    BY <1>7, Names DEF ProducerUpMutex, At, Labels
  <2>2. ForkInv' /\ pc' \in [Procs -> Labels]
    BY <1>1, <2>1, ChildMoves
  <2>3. QueueInv'
    BY <1>1, <2>1, UpQueue
  <2> QED
    BY <1>1, <2>1, <2>2, <2>3, UpType, UpFindsSleeper DEF TypeOK
<1>8. CASE ProducerUpFull(r)
  <2>1. /\ pc[r] = "up_full" /\ state[r] = "RUNNING" /\ Up(Full[r])
        /\ Goto(r, "arrive") /\ "arrive" \in Labels
        /\ UNCHANGED <<road, isAsleep, lane>> /\ Full[r] \in Sems
    BY <1>8, Names DEF ProducerUpFull, At, Labels
  <2>2. ForkInv' /\ pc' \in [Procs -> Labels]
    BY <1>1, <2>1, ChildMoves
  <2>3. QueueInv'
    BY <1>1, <2>1, UpQueue
  <2> QED
    BY <1>1, <2>1, <2>2, <2>3, UpType, UpFindsSleeper DEF TypeOK
<1> QED
  BY <1>2, <1>3, <1>4, <1>5, <1>6, <1>7, <1>8 DEF Producer

LEMMA ConsumerQInv == ASSUME QInv, Consumer PROVE QInv'
<1> USE DEF QInv
<1> DEFINE f == Flagperson
<1>1. f \in Children /\ f \in Procs /\ f # Main /\ f \notin Roads
  BY Names DEF Children, Roads
<1>2. lane \in Roads
  BY DEF TypeOK
<1>3. CASE CheckSleep
  <2>1. PICK label \in Labels : Goto(f, label)
    BY <1>3 DEF CheckSleep, Labels
  <2>2. /\ pc[f] = "check_sleep" /\ state[f] = "RUNNING" /\ lane' \in Roads
        /\ UNCHANGED <<road, isAsleep, sem, state, lane>>
    BY <1>3, <1>2, Names DEF CheckSleep, At, Roads
  <2>3. ForkInv' /\ pc' \in [Procs -> Labels]
    BY <1>1, <2>1, <2>2, ChildMoves
  <2>4. QueueInv'
    BY <1>1, <2>1, <2>2, MoveQueue
  <2> QED
    BY <1>3, <2>2, <2>3, <2>4 DEF CheckSleep, TypeOK
<1>4. CASE SleepDownMutex
  <2>1. /\ pc[f] = "sleep_down_mutex" /\ state[f] = "RUNNING" /\ Down(f, Mutex)
        /\ Goto(f, "fall_asleep") /\ "fall_asleep" \in Labels /\ "fall_asleep" \in SleepLabels
        /\ UNCHANGED <<road, isAsleep, lane>> /\ Mutex \in Sems
    BY <1>4, <1>2, Names DEF SleepDownMutex, At, Labels, SleepLabels
  <2>2. ForkInv' /\ pc' \in [Procs -> Labels]
    BY <1>1, <2>1, ChildMoves
  <2>3. WaitsFor(f)' = Mutex
    BY <1>1, <2>1 DEF WaitsFor, TypeOK, Goto, MutexLabels
  <2>4. QueueInv'
    BY <1>1, <2>1, <2>3, DownQueue
  <2> QED
    BY <1>1, <2>1, <2>2, <2>4, DownType DEF TypeOK
<1>5. CASE FallAsleep
  <2>1. PICK label \in Labels : Goto(f, label)
    BY <1>5 DEF FallAsleep, Labels
  <2>2. /\ pc[f] = "fall_asleep" /\ state[f] = "RUNNING" /\ lane' \in Roads
        /\ UNCHANGED <<road, sem, state, lane>>
    BY <1>5, <1>2, Names DEF FallAsleep, At, Roads
  <2>3. ForkInv' /\ pc' \in [Procs -> Labels]
    BY <1>1, <2>1, <2>2, ChildMoves
  <2>4. QueueInv'
    BY <1>1, <2>1, <2>2, MoveQueue
  <2> QED
    BY <1>5, <2>2, <2>3, <2>4 DEF FallAsleep, TypeOK
<1>6. CASE SleepUpMutex
  <2>1. PICK label \in Labels : Goto(f, label)
    BY <1>6 DEF SleepUpMutex, Labels
  <2>2. /\ pc[f] = "sleep_up_mutex" /\ state[f] = "RUNNING" /\ Up(Mutex) /\ Mutex \in Sems
        /\ UNCHANGED <<road, isAsleep>> /\ lane' \in Roads
    BY <1>6, <1>2, Names DEF SleepUpMutex, At, ReleasedEmpty, Roads
  <2>3. ForkInv' /\ pc' \in [Procs -> Labels]
    BY <1>1, <2>1, <2>2, ChildMoves
  <2>4. QueueInv'
    BY <1>1, <2>1, <2>2, UpQueue
  <2> QED
    BY <1>1, <2>2, <2>3, <2>4, UpType, UpFindsSleeper DEF TypeOK
<1>7. CASE CheckLine
  <2>1. PICK label \in Labels : Goto(f, label)
    BY <1>7 DEF CheckLine, Labels, NextHalf
  <2>2. /\ pc[f] = "check_line" /\ state[f] = "RUNNING" /\ lane' \in Roads
        /\ UNCHANGED <<road, isAsleep, sem, state>>
    BY <1>7, <1>2, Names DEF CheckLine, At, NextHalf, Roads
  <2>3. ForkInv' /\ pc' \in [Procs -> Labels]
    BY <1>1, <2>1, <2>2, ChildMoves
  <2>4. QueueInv'
    BY <1>1, <2>1, <2>2, MoveQueue
  <2> QED
    BY <1>7, <2>2, <2>3, <2>4 DEF CheckLine, TypeOK
<1>8. CASE ConsumerDownFull
  <2>1. /\ pc[f] = "down_full" /\ state[f] = "RUNNING" /\ Down(f, Full[lane])
        /\ Goto(f, "down_mutex") /\ "down_mutex" \in Labels /\ "down_mutex" \in SleepLabels
        /\ UNCHANGED <<road, isAsleep, lane>> /\ Full[lane] \in Sems
    BY <1>8, <1>2, Names DEF ConsumerDownFull, At, Labels, SleepLabels
  <2>2. ForkInv' /\ pc' \in [Procs -> Labels]
    BY <1>1, <2>1, ChildMoves
  <2>3. WaitsFor(f)' = Full[lane]
    BY <1>1, <2>1 DEF WaitsFor, TypeOK, Goto, MutexLabels
  <2>4. QueueInv'
    BY <1>1, <2>1, <2>3, DownQueue
  <2> QED
    BY <1>1, <2>1, <2>2, <2>4, DownType DEF TypeOK
<1>9. CASE ConsumerDownMutex
  <2>1. /\ pc[f] = "down_mutex" /\ state[f] = "RUNNING" /\ Down(f, Mutex)
        /\ Goto(f, "cross") /\ "cross" \in Labels /\ "cross" \in SleepLabels
        /\ UNCHANGED <<road, isAsleep, lane>> /\ Mutex \in Sems
    BY <1>9, <1>2, Names DEF ConsumerDownMutex, At, Labels, SleepLabels
  <2>2. ForkInv' /\ pc' \in [Procs -> Labels]
    BY <1>1, <2>1, ChildMoves
  <2>3. WaitsFor(f)' = Mutex
    BY <1>1, <2>1 DEF WaitsFor, TypeOK, Goto, MutexLabels
  <2>4. QueueInv'
    BY <1>1, <2>1, <2>3, DownQueue
  <2> QED
    BY <1>1, <2>1, <2>2, <2>4, DownType DEF TypeOK
<1>10. CASE CrossCar
  <2>1. /\ pc[f] = "cross" /\ state[f] = "RUNNING" /\ isAsleep' = FALSE
        /\ Goto(f, "up_mutex") \/ pc' = pc
        /\ "up_mutex" \in Labels
        /\ UNCHANGED <<sem, state, lane>>
    BY <1>10 DEF CrossCar, At, Labels
  <2>2. ForkInv' /\ pc' \in [Procs -> Labels]
    BY <1>1, <2>1, ChildMoves
  <2>3. QueueInv'
    BY <1>1, <2>1, MoveQueue
  <2>4. road' \in [Roads -> SharedMemoryQueue]
    <3> DEFINE q == road[lane]
    <3>1. /\ q \in SharedMemoryQueue /\ road \in [Roads -> SharedMemoryQueue]
          /\ (q.readIndex + 1) % BUFFER_MAX \in 0..BUFFER_MAX - 1
      BY <1>2, IndexType DEF TypeOK, SharedMemoryQueue
    <3>2. road' = [road EXCEPT ![lane] = [q EXCEPT !.readIndex = (@ + 1) % BUFFER_MAX,
                                                   !.counter = @ - 1]]
      BY <1>10, <1>2, <3>1 DEF CrossCar, SharedMemoryQueue
    <3>3. [q EXCEPT !.readIndex = (@ + 1) % BUFFER_MAX, !.counter = @ - 1]
             \in SharedMemoryQueue
      <4>1. q.counter - 1 \in Int
        BY <3>1 DEF SharedMemoryQueue
      <4> HIDE DEF q
      <4> QED
        BY <3>1, <4>1, QueueShrinks
    <3> QED
      BY <1>2, <3>1, <3>2, <3>3
  <2> QED
    BY <2>1, <2>2, <2>3, <2>4 DEF TypeOK
<1>11. CASE ConsumerUpMutex
  <2>1. PICK label \in Labels : Goto(f, label)
    BY <1>11 DEF ConsumerUpMutex, Labels
  <2>2. /\ pc[f] = "up_mutex" /\ state[f] = "RUNNING" /\ Up(Mutex) /\ Mutex \in Sems
        /\ UNCHANGED <<road, isAsleep>> /\ lane' \in Roads
    BY <1>11, <1>2, Names DEF ConsumerUpMutex, At, ReleasedEmpty, Roads
  <2>3. ForkInv' /\ pc' \in [Procs -> Labels]
    BY <1>1, <2>1, <2>2, ChildMoves
  <2>4. QueueInv'
    BY <1>1, <2>1, <2>2, UpQueue
  <2> QED
    BY <1>1, <2>2, <2>3, <2>4, UpType, UpFindsSleeper DEF TypeOK
<1>12. CASE ConsumerUpEmpty
  <2>1. PICK label \in Labels : Goto(f, label)
    BY <1>12 DEF ConsumerUpEmpty, Labels, NextHalf
  <2>2. /\ pc[f] = "up_empty" /\ state[f] = "RUNNING" /\ Up(Empty[North]) /\ Empty[North] \in Sems
        /\ UNCHANGED <<road, isAsleep>> /\ lane' \in Roads
    BY <1>12, <1>2, Names DEF ConsumerUpEmpty, At, NextHalf, ReleasedEmpty, Roads
  <2>3. ForkInv' /\ pc' \in [Procs -> Labels]
    BY <1>1, <2>1, <2>2, ChildMoves
  <2>4. QueueInv'
    BY <1>1, <2>1, <2>2, UpQueue
  <2> QED
    BY <1>1, <2>2, <2>3, <2>4, UpType, UpFindsSleeper DEF TypeOK
<1> QED
  BY <1>3, <1>4, <1>5, <1>6, <1>7, <1>8, <1>9, <1>10, <1>11, <1>12 DEF Consumer

LEMMA StepQInv == QInv /\ [Next]_vars => QInv'
<1> SUFFICES ASSUME QInv, [Next]_vars PROVE QInv'
  OBVIOUS
<1>1. CASE Next
  BY <1>1, ForkQInv, ProducerQInv, ConsumerQInv DEF Next
<1>2. CASE UNCHANGED vars
  BY <1>2 DEF vars, QInv, TypeOK, ForkInv, QueueInv, Asleep, WaitsFor
<1> QED
  BY <1>1, <1>2

THEOREM TrafficSimQueues == Spec => []QInv
BY InitQInv, StepQInv, PTL DEF Spec

(* The shared memory of trafficsim.c keeps its types; the indices of the   *)
(* two buffers stay inside of them.                                        *)
THEOREM TrafficSimType == Spec => []TypeOK
<1>1. QInv => TypeOK
  BY DEF QInv
<1> QED
  BY <1>1, TrafficSimQueues, PTL

-----------------------------------------------------------------------------
(* sem_mutex implements Semaphore.  A step of TrafficSim is a Down or an   *)
(* Up of the abstract semaphore when it calls down or up on sem_mutex, and *)
(* a stutter otherwise: it then touches neither sem_mutex nor the phase of *)
(* a process.                                                              *)

LEMMA MoveIsStutter ==
    ASSUME QInv, NEW p \in Children, NEW label \in Labels,
           Goto(p, label) \/ (pc' = pc /\ label = pc[p]),
           pc[p] \in MutexLabels <=> label \in MutexLabels,
           UNCHANGED <<sem, state>>
    PROVE  UNCHANGED <<sem[Mutex], MutexPhase>>
BY DEF QInv, TypeOK, Goto, MutexPhase

LEMMA OtherDownIsStutter ==
    ASSUME QInv, NEW p \in Children, NEW label \in Labels, NEW s \in Sems \ {Mutex},
           Goto(p, label), Down(p, s),
           pc[p] \notin MutexLabels, label \notin MutexLabels
    PROVE  UNCHANGED <<sem[Mutex], MutexPhase>>
<1>1. sem'[Mutex] = sem[Mutex]
  BY DEF QInv, TypeOK, Down
<1>2. \A q \in Procs : q # p => state'[q] = state[q] /\ pc'[q] = pc[q]
  BY DEF QInv, TypeOK, Down, Goto
<1>3. pc'[p] \notin MutexLabels
  BY Names DEF QInv, TypeOK, Goto
<1> QED
  BY <1>1, <1>2, <1>3 DEF MutexPhase

LEMMA OtherUpIsStutter ==
    ASSUME QInv, NEW p \in Children, NEW label \in Labels, NEW s \in Sems \ {Mutex},
           Goto(p, label), Up(s),
           pc[p] \notin MutexLabels, label \notin MutexLabels
    PROVE  UNCHANGED <<sem[Mutex], MutexPhase>>
<1>1. sem'[Mutex] = sem[Mutex]
  BY DEF QInv, TypeOK, Up
<1>2. ASSUME NEW q \in Woken(sem[s])
      PROVE  pc[q] \notin MutexLabels
  <2>1. UpWakes(sem[s]) /\ q = DequeueItem(sem[s].process_list)
    BY <1>2 DEF Woken
  <2>2. q \in Asleep(s)
    BY <2>1, UpFindsSleeper DEF QInv
  <2> QED
    BY <2>2 DEF Asleep, WaitsFor
<1>3. \A q \in Procs : /\ pc'[q] \in MutexLabels <=> pc[q] \in MutexLabels
                       /\ pc[q] \in MutexLabels => state'[q] = state[q]
  BY <1>2 DEF QInv, TypeOK, Goto, Up
<1> QED
  BY <1>1, <1>3 DEF MutexPhase

LEMMA MutexDownIsDown ==
    ASSUME QInv, NEW p \in Children, NEW label \in MutexLabels,
           Goto(p, label), Down(p, Mutex), state[p] = "RUNNING", pc[p] \notin MutexLabels
    PROVE  RoadLock!Down(p)
<1>1. /\ sem'[Mutex] = DownSem(sem[Mutex], p)
      /\ state' = [state EXCEPT ![p] = IF DownSleeps(sem[Mutex]) THEN "INTERRUPTIBLE"
                                                                 ELSE "RUNNING"]
  BY Names DEF QInv, TypeOK, Down
<1>2. p \in Procs /\ MutexPhase[p] = "idle"
  BY Names DEF MutexPhase
<1>3. MutexPhase' = [MutexPhase EXCEPT ![p] = IF DownSleeps(sem[Mutex]) THEN "waiting"
                                                                        ELSE "granted"]
  BY <1>1, <1>2 DEF QInv, TypeOK, Goto, MutexPhase
<1>4. /\ RoadLock!DownSleeps(sem[Mutex]) = DownSleeps(sem[Mutex])
      /\ RoadLock!DownSem(sem[Mutex], p) = DownSem(sem[Mutex], p)
  BY DEF RoadLock!DownSleeps, DownSleeps, RoadLock!DownSem, DownSem, RoadLock!Enqueue, Enqueue
<1> QED
  BY <1>1, <1>2, <1>3, <1>4 DEF RoadLock!Down

LEMMA MutexUpIsUp ==
    ASSUME QInv, NEW p \in Children, NEW label \in Labels \ MutexLabels,
           Goto(p, label), Up(Mutex), state[p] = "RUNNING", pc[p] \in MutexLabels
    PROVE  RoadLock!Up(p)
<1>1. /\ sem'[Mutex] = UpSem(sem[Mutex])
      /\ state' = [q \in Procs |-> IF q \in Woken(sem[Mutex]) THEN "RUNNING" ELSE state[q]]
  BY Names DEF QInv, TypeOK, Up
<1>2. p \in Procs /\ MutexPhase[p] = "granted"
  BY Names DEF MutexPhase
<1>3. ASSUME NEW q \in Woken(sem[Mutex])
      PROVE  pc[q] \in MutexLabels /\ q # p
  <2>1. UpWakes(sem[Mutex]) /\ q = DequeueItem(sem[Mutex].process_list)
    BY <1>3 DEF Woken
  <2>2. q \in Asleep(Mutex)
    BY <2>1, Names, UpFindsSleeper DEF QInv
  <2>3. lane \in Roads
    BY DEF QInv, TypeOK
  <2> QED
    BY <2>2, <2>3, Names DEF Asleep, WaitsFor, Children
<1>4. \A q \in Procs : pc'[q] = IF q = p THEN label ELSE pc[q]
  BY DEF QInv, TypeOK, Goto
<1>5. MutexPhase' = [q \in Procs |-> IF q \in Woken(sem[Mutex]) THEN "granted"
                                     ELSE IF q = p THEN "idle" ELSE MutexPhase[q]]
  BY <1>1, <1>3, <1>4 DEF MutexPhase
<1>6. /\ RoadLock!Woken(sem[Mutex]) = Woken(sem[Mutex])
      /\ RoadLock!UpSem(sem[Mutex]) = UpSem(sem[Mutex])
  BY DEF RoadLock!Woken, Woken, RoadLock!UpSem, UpSem, RoadLock!UpWakes, UpWakes,
         RoadLock!DequeueItem, DequeueItem, RoadLock!DequeueRest, DequeueRest
<1> QED
  BY <1>1, <1>2, <1>5, <1>6 DEF RoadLock!Up

LEMMA InitIsInit == Init => RoadLock!Init
<1> SUFFICES ASSUME Init PROVE RoadLock!Init
  OBVIOUS
<1>1. sem[Mutex] = [value |-> 1, process_list |-> <<>>]
  BY DEF Init, SemInit, Empty, Full, Mutex, Sems, Roads, North, South
<1>2. MutexPhase = [p \in Procs |-> "idle"]
  BY DEF Init, MutexPhase, MutexLabels
<1> QED
  BY <1>1, <1>2 DEF RoadLock!Init, RoadLock!SemInit

LEMMA ProducerIsStep ==
    ASSUME QInv, NEW r \in Roads, Producer(r)
    PROVE  \/ RoadLock!Next
           \/ UNCHANGED <<sem[Mutex], MutexPhase>>
<1>1. r \in Children /\ r \in Procs
  BY Names
<1>2. CASE CarArrives(r)
  <2>1. PICK label \in Labels \ MutexLabels : Goto(r, label)
    BY <1>2 DEF CarArrives, Labels, MutexLabels
  <2> QED
    BY <1>1, <1>2, <2>1, MoveIsStutter DEF CarArrives, At, MutexLabels
<1>3. CASE SleepOver(r)
  <2>1. Goto(r, "arrive") /\ "arrive" \in Labels \ MutexLabels
    BY <1>3 DEF SleepOver, Labels, MutexLabels
  <2> QED
    BY <1>1, <1>3, <2>1, MoveIsStutter DEF SleepOver, At, MutexLabels
<1>4. CASE ProducerDownEmpty(r)
  <2>1. Goto(r, "down_mutex") /\ "down_mutex" \in Labels \ MutexLabels
    BY <1>4 DEF ProducerDownEmpty, Labels, MutexLabels
  <2> QED
    BY <1>1, <1>4, <2>1, Names, OtherDownIsStutter DEF ProducerDownEmpty, At, MutexLabels
<1>5. CASE ProducerDownMutex(r)
  <2>1. /\ Goto(r, "write") /\ "write" \in MutexLabels /\ Down(r, Mutex)
        /\ state[r] = "RUNNING" /\ pc[r] \notin MutexLabels
    BY <1>5 DEF ProducerDownMutex, At, MutexLabels
  <2>2. RoadLock!Down(r)
    BY <1>1, <2>1, MutexDownIsDown
  <2> QED
    BY <1>1, <2>2 DEF RoadLock!Next
<1>6. CASE WriteCar(r)
  <2>1. Goto(r, "up_mutex") /\ "up_mutex" \in Labels /\ "up_mutex" \in MutexLabels
    BY <1>6 DEF WriteCar, Labels, MutexLabels
  <2> QED
    BY <1>1, <1>6, <2>1, MoveIsStutter DEF WriteCar, At, MutexLabels
<1>7. CASE ProducerUpMutex(r)
  <2>1. /\ Goto(r, "up_full") /\ "up_full" \in Labels \ MutexLabels /\ Up(Mutex)
        /\ state[r] = "RUNNING" /\ pc[r] \in MutexLabels
    BY <1>7 DEF ProducerUpMutex, At, MutexLabels, Labels
  <2>2. RoadLock!Up(r)
    BY <1>1, <2>1, MutexUpIsUp
  <2> QED
    BY <1>1, <2>2 DEF RoadLock!Next
<1>8. CASE ProducerUpFull(r)
  <2>1. Goto(r, "arrive") /\ "arrive" \in Labels \ MutexLabels
    BY <1>8 DEF ProducerUpFull, Labels, MutexLabels
  <2> QED
    BY <1>1, <1>8, <2>1, Names, OtherUpIsStutter DEF ProducerUpFull, At, MutexLabels
<1> QED
  BY <1>2, <1>3, <1>4, <1>5, <1>6, <1>7, <1>8 DEF Producer

LEMMA ConsumerIsStep ==
    ASSUME QInv, Consumer
    PROVE  \/ RoadLock!Next
           \/ UNCHANGED <<sem[Mutex], MutexPhase>>
<1> DEFINE f == Flagperson
<1>1. f \in Children /\ f \in Procs /\ lane \in Roads
  BY Names DEF Children, QInv, TypeOK
<1>2. CASE CheckSleep
  <2>1. PICK label \in Labels \ MutexLabels : Goto(f, label)
    BY <1>2 DEF CheckSleep, Labels, MutexLabels
  <2> QED
    BY <1>1, <1>2, <2>1, MoveIsStutter DEF CheckSleep, At, MutexLabels
<1>3. CASE SleepDownMutex
  <2>1. /\ Goto(f, "fall_asleep") /\ "fall_asleep" \in MutexLabels /\ Down(f, Mutex)
        /\ state[f] = "RUNNING" /\ pc[f] \notin MutexLabels
    BY <1>3 DEF SleepDownMutex, At, MutexLabels
  <2>2. RoadLock!Down(f)
    BY <1>1, <2>1, MutexDownIsDown
  <2> QED
    BY <1>1, <2>2 DEF RoadLock!Next
<1>4. CASE FallAsleep
  <2>1. Goto(f, "sleep_up_mutex") /\ "sleep_up_mutex" \in Labels /\ "sleep_up_mutex" \in MutexLabels
    BY <1>4 DEF FallAsleep, Labels, MutexLabels
  <2> QED
    BY <1>1, <1>4, <2>1, MoveIsStutter DEF FallAsleep, At, MutexLabels
<1>5. CASE SleepUpMutex
  <2>1. /\ Goto(f, "check_line") /\ "check_line" \in Labels \ MutexLabels /\ Up(Mutex)
        /\ state[f] = "RUNNING" /\ pc[f] \in MutexLabels
    BY <1>5 DEF SleepUpMutex, At, MutexLabels, Labels
  <2>2. RoadLock!Up(f)
    BY <1>1, <2>1, MutexUpIsUp
  <2> QED
    BY <1>1, <2>2 DEF RoadLock!Next
<1>6. CASE CheckLine
  <2>1. PICK label \in Labels \ MutexLabels : Goto(f, label)
    BY <1>6 DEF CheckLine, Labels, MutexLabels, NextHalf
  <2> QED
    BY <1>1, <1>6, <2>1, MoveIsStutter DEF CheckLine, At, MutexLabels
<1>7. CASE ConsumerDownFull
  <2>1. Goto(f, "down_mutex") /\ "down_mutex" \in Labels \ MutexLabels
    BY <1>7 DEF ConsumerDownFull, Labels, MutexLabels
  <2> QED
    BY <1>1, <1>7, <2>1, Names, OtherDownIsStutter DEF ConsumerDownFull, At, MutexLabels
<1>8. CASE ConsumerDownMutex
  <2>1. /\ Goto(f, "cross") /\ "cross" \in MutexLabels /\ Down(f, Mutex)
        /\ state[f] = "RUNNING" /\ pc[f] \notin MutexLabels
    BY <1>8 DEF ConsumerDownMutex, At, MutexLabels
  <2>2. RoadLock!Down(f)
    BY <1>1, <2>1, MutexDownIsDown
  <2> QED
    BY <1>1, <2>2 DEF RoadLock!Next
<1>9. CASE CrossCar
  <2>1. /\ Goto(f, "up_mutex") \/ pc' = pc
        /\ pc[f] = "cross" /\ UNCHANGED <<sem, state>>
        /\ {"cross", "up_mutex"} \subseteq Labels /\ {"cross", "up_mutex"} \subseteq MutexLabels
    BY <1>9 DEF CrossCar, At, Labels, MutexLabels
  <2> QED
    BY <1>1, <2>1, MoveIsStutter
<1>10. CASE ConsumerUpMutex
  <2>1. /\ Goto(f, "up_empty") /\ "up_empty" \in Labels \ MutexLabels /\ Up(Mutex)
        /\ state[f] = "RUNNING" /\ pc[f] \in MutexLabels
    BY <1>10 DEF ConsumerUpMutex, At, MutexLabels, Labels
  <2>2. RoadLock!Up(f)
    BY <1>1, <2>1, MutexUpIsUp
  <2> QED
    BY <1>1, <2>2 DEF RoadLock!Next
<1>11. CASE ConsumerUpEmpty
  <2>1. PICK label \in Labels \ MutexLabels : Goto(f, label)
    BY <1>11 DEF ConsumerUpEmpty, NextHalf, Labels, MutexLabels
  <2>2. Empty[North] \in Sems \ {Mutex}
    BY Names DEF Roads
  <2> QED
    BY <1>1, <1>11, <2>1, <2>2, OtherUpIsStutter DEF ConsumerUpEmpty, ReleasedEmpty, At, MutexLabels
<1> QED
  BY <1>2, <1>3, <1>4, <1>5, <1>6, <1>7, <1>8, <1>9, <1>10, <1>11 DEF Consumer

LEMMA ForkIsStutter ==
    ASSUME QInv, RunSimulation
    PROVE  UNCHANGED <<sem[Mutex], MutexPhase>>
<1>1. PICK child \in Children, first \in Labels \ MutexLabels, next \in Labels \ MutexLabels :
         /\ \/ pc' = [pc EXCEPT ![Main] = next, ![child] = first]
            \/ Goto(Main, next)
         /\ pc[child] = "unborn" /\ pc[Main] \notin MutexLabels
         /\ UNCHANGED <<sem, state>>
  BY DEF RunSimulation, Fork, At, QInv, ForkInv, Labels, MutexLabels, Children, Roads,
         North, South, Flagperson
<1>2. \A p \in Procs : pc'[p] \in MutexLabels <=> pc[p] \in MutexLabels
  BY <1>1, Names DEF QInv, TypeOK, Goto, MutexLabels
<1> QED
  BY <1>1, <1>2 DEF MutexPhase

LEMMA StepIsStep == QInv /\ [Next]_vars => [RoadLock!Next]_<<sem[Mutex], MutexPhase>>
<1> SUFFICES ASSUME QInv, [Next]_vars PROVE [RoadLock!Next]_<<sem[Mutex], MutexPhase>>
  OBVIOUS
<1>1. CASE Next
  BY <1>1, ForkIsStutter, ProducerIsStep, ConsumerIsStep DEF Next
<1>2. CASE UNCHANGED vars
  BY <1>2 DEF vars, MutexPhase
<1> QED
  BY <1>1, <1>2

(* The critical sections of trafficsim.c use sem_mutex as Semaphore says.  *)
THEOREM TrafficSimImplementsSemaphore == Spec => MutexIsSemaphore
<1>1. QInv /\ [Next]_vars => [RoadLock!Next]_(RoadLock!vars)
  BY StepIsStep DEF RoadLock!vars
<1> QED
  BY <1>1, InitIsInit, TrafficSimQueues, PTL DEF Spec, MutexIsSemaphore, RoadLock!Spec

-----------------------------------------------------------------------------
(* Mutual exclusion, from the steps of the abstract semaphore.  Its one    *)
(* resource is free when the value is 1, and then nobody is between down   *)
(* and up; an up that lets the value become 1 leaves nobody there, because *)
(* whoever else is there is asleep, hence on the list, which is empty.     *)

MutexInv ==
    /\ sem[Mutex].value <= 1
    /\ sem[Mutex].value = 1 => \A p \in Procs : MutexPhase[p] = "idle"
    /\ RoadMutex

LEMMA OnRoadGranted ==
    /\ OnRoad = {p \in Procs : MutexPhase[p] = "granted"}
    /\ OnRoad' = {p \in Procs : MutexPhase'[p] = "granted"}
<1>1. OnRoad = {p \in Procs : MutexPhase[p] = "granted"}
  BY DEF OnRoad, MutexPhase
<1>2. OnRoad' = {p \in Procs : MutexPhase'[p] = "granted"}
  BY DEF OnRoad, MutexPhase
<1> QED
  BY <1>1, <1>2

LEMMA SleepersOfMutex ==
    ASSUME QInv
    PROVE  \A p \in Procs : MutexPhase[p] = "waiting"
                              <=> p \in Listed(sem[Mutex].process_list)
<1>1. Listed(sem[Mutex].process_list) = Asleep(Mutex)
  BY Names DEF QInv, QueueInv
<1>2. ASSUME NEW p \in Procs
      PROVE  MutexPhase[p] = "waiting" <=> p \in Asleep(Mutex)
  <2>1. state[p] \in {"RUNNING", "INTERRUPTIBLE"} /\ lane \in Roads
    BY DEF QInv, TypeOK
  <2>2. state[p] = "INTERRUPTIBLE" => p \in Children
    BY DEF QInv, QueueInv
  <2>3. ASSUME p \in Children
        PROVE  WaitsFor(p) = Mutex <=> pc[p] \in MutexLabels
    BY <2>1, <2>3, Names DEF WaitsFor, Children
  <2> QED
    BY <2>1, <2>2, <2>3 DEF MutexPhase, Asleep
<1> QED
  BY <1>1, <1>2

LEMMA InitMutexInv == Init => MutexInv
<1> SUFFICES ASSUME Init PROVE MutexInv
  OBVIOUS
<1>1. sem[Mutex].value = 1 /\ \A p \in Procs : MutexPhase[p] = "idle"
  BY InitIsInit DEF RoadLock!Init, RoadLock!SemInit
<1> QED
  BY <1>1, OnRoadGranted DEF MutexInv, RoadMutex

LEMMA DownMutexInv ==
    ASSUME QInv, MutexInv, NEW p \in Procs, RoadLock!Down(p)
    PROVE  MutexInv'
<1>1. sem[Mutex].value \in Int /\ sem[Mutex].value <= 1
  BY Names DEF QInv, TypeOK, MutexInv
<1>2. sem'[Mutex].value = sem[Mutex].value - 1
  BY DEF RoadLock!Down, RoadLock!DownSem
<1>3. CASE sem[Mutex].value = 1
  <2>1. \A q \in Procs : q # p => MutexPhase'[q] = "idle"
    BY <1>3 DEF MutexInv, RoadLock!Down, MutexPhase
  <2> QED
    BY <1>2, <1>3, <2>1, OnRoadGranted DEF MutexInv, RoadMutex
<1>4. CASE sem[Mutex].value # 1
  <2>1. RoadLock!DownSleeps(sem[Mutex])
    BY <1>1, <1>4 DEF RoadLock!DownSleeps
  <2>2. MutexPhase' = [MutexPhase EXCEPT ![p] = "waiting"]
    BY <2>1 DEF RoadLock!Down
  <2>3. OnRoad' \subseteq OnRoad
    BY <2>2, OnRoadGranted DEF MutexPhase
  <2> QED
    BY <1>1, <1>2, <1>4, <2>3 DEF MutexInv, RoadMutex
<1> QED
  BY <1>3, <1>4

LEMMA UpMutexInv ==
    ASSUME QInv, MutexInv, NEW p \in Procs, RoadLock!Up(p)
    PROVE  MutexInv'
<1> DEFINE list == sem[Mutex].process_list
<1>1. /\ sem[Mutex].value \in Int /\ sem[Mutex].value <= 0
      /\ list \in Seq(Procs) /\ MutexPhase[p] = "granted"
  BY Names DEF QInv, TypeOK, MutexInv, RoadLock!Up
<1>2. /\ sem'[Mutex].value = sem[Mutex].value + 1
      /\ \A q \in Procs : MutexPhase'[q] = IF q \in RoadLock!Woken(sem[Mutex]) THEN "granted"
                                           ELSE IF q = p THEN "idle" ELSE MutexPhase[q]
  BY DEF RoadLock!Up, RoadLock!UpSem
<1>3. \A q \in Procs : MutexPhase[q] = "granted" => q = p
  BY <1>1, OnRoadGranted DEF MutexInv, RoadMutex
<1>4. \A q, r \in RoadLock!Woken(sem[Mutex]) : q = r
  BY DEF RoadLock!Woken
<1>5. RoadMutex'
  BY <1>2, <1>3, <1>4, OnRoadGranted DEF RoadMutex
<1>6. ASSUME sem'[Mutex].value = 1
      PROVE  \A q \in Procs : MutexPhase'[q] = "idle"
  <2>1. sem[Mutex].value = 0
    BY <1>1, <1>2, <1>6
  <2>2. list = <<>> /\ RoadLock!Woken(sem[Mutex]) = {}
    BY <2>1, Names DEF QInv, QueueInv, RoadLock!Woken, RoadLock!UpWakes
  <2>3. Listed(list) = {}
    BY <2>2 DEF Listed
  <2>4. \A q \in Procs : MutexPhase[q] # "waiting"
    BY <2>3, SleepersOfMutex
  <2>5. \A q \in Procs : MutexPhase[q] \in {"idle", "waiting", "granted"}
    BY DEF MutexPhase
  <2> QED
    BY <1>2, <1>3, <2>2, <2>4, <2>5
<1> QED
  BY <1>1, <1>2, <1>5, <1>6 DEF MutexInv

(* The producers and the flagperson of trafficsim.c are never in their     *)
(* critical sections together.                                             *)
THEOREM TrafficSimMutex == Spec => []RoadMutex
<1>1. QInv /\ MutexInv /\ [Next]_vars => MutexInv'
  <2> SUFFICES ASSUME QInv, MutexInv, [Next]_vars PROVE MutexInv'
    OBVIOUS
  <2>1. CASE RoadLock!Next
    BY <2>1, DownMutexInv, UpMutexInv DEF RoadLock!Next
  <2>2. CASE UNCHANGED <<sem[Mutex], MutexPhase>>
    BY <2>2, OnRoadGranted DEF MutexInv, RoadMutex
  <2> QED
    BY <2>1, <2>2, StepIsStep
<1>2. MutexInv => RoadMutex
  BY DEF MutexInv
<1> QED
  BY <1>1, <1>2, InitMutexInv, TrafficSimQueues, PTL DEF Spec

-----------------------------------------------------------------------------
(* What becomes of the tokens of the four semaphores that count: their     *)
(* names, and how a step changes them.                                     *)

LEMMA Counters ==
    /\ Empty[North] = "north_sem_empty" /\ Empty[South] = "south_sem_empty"
    /\ Full[North] = "north_sem_full" /\ Full[South] = "south_sem_full"
    /\ Mutex = "sem_mutex"
    /\ {Empty[North], Empty[South], Full[North], Full[South], Mutex} \subseteq Sems
BY DEF Empty, Full, Mutex, Sems, Roads, North, South

LEMMA DownValue ==
    ASSUME TypeOK, NEW p, NEW s \in Sems, Down(p, s)
    PROVE  /\ sem'[s].value = sem[s].value - 1
           /\ \A t \in Sems : t # s => sem'[t].value = sem[t].value
BY DEF TypeOK, Down, DownSem

LEMMA UpValue ==
    ASSUME TypeOK, NEW s \in Sems, Up(s)
    PROVE  /\ sem'[s].value = sem[s].value + 1
           /\ \A t \in Sems : t # s => sem'[t].value = sem[t].value
BY DEF TypeOK, Up, UpSem

(* A process goes on at a label, and the others stay where they are.       *)
LEMMA GotoLabel ==
    ASSUME TypeOK, NEW p \in Procs, NEW label, Goto(p, label)
    PROVE  pc'[p] = label /\ \A q \in Procs : q # p => pc'[q] = pc[q]
BY DEF TypeOK, Goto

LEMMA Values ==
    ASSUME TypeOK
    PROVE  /\ \A s \in Sems : sem[s].value \in Int
           /\ \A r \in Roads : road[r].total \in Nat /\ road[r].counter \in Int
BY DEF TypeOK, SharedMemoryQueue

(* What the steps that write to a road's struct do to its counts.          *)
LEMMA ArriveCounts ==
    ASSUME TypeOK, NEW r \in Roads, CarArrives(r)
    PROVE  /\ \A q \in Roads : road'[q].total = road[q].total /\ road'[q].counter = road[q].counter
           /\ Goto(r, "down_empty") \/ Goto(r, "sleep")
<1>1. PICK arrives \in BOOLEAN :
         /\ road' = [road EXCEPT ![r].carArrived = arrives]
         /\ Goto(r, IF arrives THEN "down_empty" ELSE "sleep")
  BY DEF CarArrives
<1>2. road \in [Roads -> SharedMemoryQueue]
  BY DEF TypeOK
<1>3. \A q \in Roads : road'[q] = IF q = r THEN [road[r] EXCEPT !.carArrived = arrives] ELSE road[q]
  BY <1>1, <1>2
<1>4. /\ [road[r] EXCEPT !.carArrived = arrives].total = road[r].total
      /\ [road[r] EXCEPT !.carArrived = arrives].counter = road[r].counter
  BY <1>2 DEF SharedMemoryQueue
<1> QED
  BY <1>1, <1>3, <1>4

LEMMA WriteCounts ==
    ASSUME TypeOK, NEW r \in Roads, WriteCar(r)
    PROVE  /\ road'[r].total = road[r].total + 1 /\ road'[r].counter = road[r].counter + 1
           /\ \A q \in Roads : q # r => road'[q] = road[q]
<1>1. road \in [Roads -> SharedMemoryQueue]
  BY DEF TypeOK
<1> QED
  BY <1>1 DEF WriteCar, SharedMemoryQueue

LEMMA CrossCounts ==
    ASSUME TypeOK, CrossCar
    PROVE  /\ road'[lane].total = road[lane].total
           /\ road'[lane].counter = road[lane].counter - 1
           /\ \A q \in Roads : q # lane => road'[q] = road[q]
<1>1. road \in [Roads -> SharedMemoryQueue] /\ lane \in Roads
  BY DEF TypeOK
<1> QED
  BY <1>1 DEF CrossCar, SharedMemoryQueue

(* A child that main forks was at no label and comes to its first one.     *)
LEMMA ForkMoves ==
    ASSUME TypeOK, ForkInv, RunSimulation
    PROVE  /\ UNCHANGED <<road, isAsleep, sem, state, lane>>
           /\ \A p \in Children : \/ pc'[p] = pc[p]
                                  \/ pc[p] = "unborn" /\ pc'[p] \in {"arrive", "check_sleep"}
BY DEF TypeOK, ForkInv, RunSimulation, Fork, At, Goto, Children, Roads, Procs, North, South,
       Flagperson, Main

-----------------------------------------------------------------------------
LEMMA TokensInit == Init => TokensAccounted
BY SizeAssumption, Counters
   DEF Init, SemInit, TokensAccounted, Pending, InBatch, Roads, Procs, Children, North, South,
       Flagperson, Main

LEMMA TokensProducer ==
    ASSUME TypeOK, TokensAccounted, NEW r \in Roads, Producer(r)
    PROVE  TokensAccounted'
<1> USE Values, Counters DEF TokensAccounted, Pending, InBatch, Roads, Procs, Children, At
<1> USE DEF North, South, Flagperson, Main
<1>1. CASE CarArrives(r)
  BY <1>1, ArriveCounts, GotoLabel DEF CarArrives
<1>2. CASE SleepOver(r)
  BY <1>2, GotoLabel DEF SleepOver
<1>3. CASE ProducerDownEmpty(r)
  BY <1>3, GotoLabel, DownValue DEF ProducerDownEmpty
<1>4. CASE ProducerDownMutex(r)
  BY <1>4, GotoLabel, DownValue DEF ProducerDownMutex
<1>5. CASE WriteCar(r)
  <2>1. pc[r] = "write" /\ Goto(r, "up_mutex") /\ sem' = sem
    BY <1>5 DEF WriteCar
  <2>2. road'[South].total = road[South].total + (IF r = South THEN 1 ELSE 0)
    BY <1>5, WriteCounts
  <2> QED
    BY <2>1, <2>2, GotoLabel
<1>6. CASE ProducerUpMutex(r)
  BY <1>6, GotoLabel, UpValue DEF ProducerUpMutex
<1>7. CASE ProducerUpFull(r)
  BY <1>7, GotoLabel, UpValue DEF ProducerUpFull
<1> QED
  BY <1>1, <1>2, <1>3, <1>4, <1>5, <1>6, <1>7 DEF Producer

LEMMA TokensConsumer ==
    ASSUME TypeOK, TokensAccounted, Consumer
    PROVE  TokensAccounted'
<1> USE Values, Counters DEF TokensAccounted, Pending, InBatch, Roads, Procs, Children, At
<1> USE DEF North, South, Flagperson, Main
<1>0. lane \in Roads
  BY DEF TypeOK
<1>1. CASE CheckSleep
  BY <1>1, GotoLabel DEF CheckSleep
<1>2. CASE SleepDownMutex
  BY <1>2, GotoLabel, DownValue DEF SleepDownMutex
<1>3. CASE FallAsleep
  BY <1>3, GotoLabel DEF FallAsleep
<1>4. CASE SleepUpMutex
  BY <1>4, GotoLabel, UpValue DEF SleepUpMutex
<1>5. CASE CheckLine
  BY <1>5, GotoLabel DEF CheckLine, NextHalf
<1>6. CASE ConsumerDownFull
  BY <1>0, <1>6, GotoLabel, DownValue DEF ConsumerDownFull
<1>7. CASE ConsumerDownMutex
  BY <1>7, GotoLabel, DownValue DEF ConsumerDownMutex
<1>8. CASE CrossCar
  <2>1. road'[South].total = road[South].total
    BY <1>0, <1>8, CrossCounts
  <2> QED
    BY <1>8, <2>1, GotoLabel DEF CrossCar
<1>9. CASE ConsumerUpMutex
  BY <1>9, GotoLabel, UpValue DEF ConsumerUpMutex
<1>10. CASE ConsumerUpEmpty
  BY <1>10, GotoLabel, UpValue DEF ConsumerUpEmpty, ReleasedEmpty, NextHalf
<1> QED
  BY <1>1, <1>2, <1>3, <1>4, <1>5, <1>6, <1>7, <1>8, <1>9, <1>10 DEF Consumer

LEMMA TokensStep == QInv /\ TokensAccounted /\ [Next]_vars => TokensAccounted'
<1> SUFFICES ASSUME QInv, TokensAccounted, [Next]_vars PROVE TokensAccounted'
  OBVIOUS
<1> USE DEF QInv
<1>1. CASE RunSimulation
  BY <1>1, ForkMoves, Names DEF TokensAccounted, Pending, InBatch, Children, Roads
<1>2. CASE UNCHANGED vars
  BY <1>2 DEF vars, TokensAccounted, Pending
<1> QED
  BY <1>1, <1>2, TokensProducer, TokensConsumer DEF Next

(* What up and down move between the semaphores of trafficsim.c: with every *)
(* car of the south one token more for the north, and one less for the     *)
(* south.                                                                  *)
THEOREM TrafficSimTokens == Spec => []TokensAccounted
  BY TokensInit, TokensStep, TrafficSimQueues, PTL DEF Spec

-----------------------------------------------------------------------------
(* The tokens of the full semaphores and the cars in line.  The invariant  *)
(* is inductive: a producer's pending up covers the car it has written, a  *)
(* batch takes one token and at least one car.                             *)

LEMMA CoversInit == Init => FullCoversLine
BY SizeAssumption, Counters
   DEF Init, SemInit, FullCoversLine, Pending, Roads, Procs, Children, North, South,
       Flagperson, Main

LEMMA CoversProducer ==
    ASSUME TypeOK, FullCoversLine, NEW r \in Roads, Producer(r)
    PROVE  FullCoversLine'
<1> USE Values, Counters DEF FullCoversLine, Pending, Roads, Procs, Children, At
<1> USE DEF North, South, Flagperson, Main
<1>1. CASE CarArrives(r)
  <2>1. /\ pc[r] = "arrive" /\ sem' = sem /\ lane' = lane
        /\ Goto(r, "down_empty") \/ Goto(r, "sleep")
        /\ \A q \in Roads : road'[q].counter = road[q].counter
    BY <1>1, ArriveCounts DEF CarArrives
  <2> QED
    BY <2>1, GotoLabel
<1>2. CASE SleepOver(r)
  BY <1>2, GotoLabel DEF SleepOver
<1>3. CASE ProducerDownEmpty(r)
  BY <1>3, GotoLabel, DownValue DEF ProducerDownEmpty
<1>4. CASE ProducerDownMutex(r)
  BY <1>4, GotoLabel, DownValue DEF ProducerDownMutex
<1>5. CASE WriteCar(r)
  <2>1. pc[r] = "write" /\ Goto(r, "up_mutex") /\ sem' = sem /\ lane' = lane
    BY <1>5 DEF WriteCar
  <2>2. \A q \in Roads : road'[q].counter = road[q].counter + (IF q = r THEN 1 ELSE 0)
    BY <1>5, WriteCounts
  <2> QED
    BY <2>1, <2>2, GotoLabel
<1>6. CASE ProducerUpMutex(r)
  BY <1>6, GotoLabel, UpValue DEF ProducerUpMutex
<1>7. CASE ProducerUpFull(r)
  BY <1>7, GotoLabel, UpValue DEF ProducerUpFull
<1> QED
  BY <1>1, <1>2, <1>3, <1>4, <1>5, <1>6, <1>7 DEF Producer

LEMMA CoversConsumer ==
    ASSUME TypeOK, FullCoversLine, Consumer
    PROVE  FullCoversLine'
<1> USE Values, Counters DEF FullCoversLine, Pending, Roads, Procs, Children, At
<1> USE DEF North, South, Flagperson, Main
<1>0. lane \in Roads
  BY DEF TypeOK
<1>1. CASE CheckSleep
  BY <1>1, GotoLabel DEF CheckSleep
<1>2. CASE SleepDownMutex
  BY <1>2, GotoLabel, DownValue DEF SleepDownMutex
<1>3. CASE FallAsleep
  BY <1>3, GotoLabel DEF FallAsleep
<1>4. CASE SleepUpMutex
  BY <1>4, GotoLabel, UpValue DEF SleepUpMutex
<1>5. CASE CheckLine
  BY <1>0, <1>5, GotoLabel DEF CheckLine, NextHalf
<1>6. CASE ConsumerDownFull
  BY <1>0, <1>6, GotoLabel, DownValue DEF ConsumerDownFull
<1>7. CASE ConsumerDownMutex
  BY <1>7, GotoLabel, DownValue DEF ConsumerDownMutex
<1>8. CASE CrossCar
  <2>1. /\ pc[Flagperson] = "cross" /\ sem' = sem /\ lane' = lane
        /\ pc' = pc \/ Goto(Flagperson, "up_mutex")
    BY <1>8 DEF CrossCar
  <2>2. \A q \in Roads : road'[q].counter = road[q].counter - (IF q = lane THEN 1 ELSE 0)
    BY <1>0, <1>8, CrossCounts
  <2> QED
    BY <1>0, <2>1, <2>2, GotoLabel
<1>9. CASE ConsumerUpMutex
  BY <1>9, GotoLabel, UpValue DEF ConsumerUpMutex
<1>10. CASE ConsumerUpEmpty
  BY <1>0, <1>10, GotoLabel, UpValue DEF ConsumerUpEmpty, ReleasedEmpty, NextHalf
<1> QED
  BY <1>1, <1>2, <1>3, <1>4, <1>5, <1>6, <1>7, <1>8, <1>9, <1>10 DEF Consumer

LEMMA CoversStep == QInv /\ FullCoversLine /\ [Next]_vars => FullCoversLine'
<1> SUFFICES ASSUME QInv, FullCoversLine, [Next]_vars PROVE FullCoversLine'
  OBVIOUS
<1> USE DEF QInv
<1>1. CASE RunSimulation
  BY <1>1, ForkMoves, Names DEF FullCoversLine, Pending, Children, Roads
<1>2. CASE UNCHANGED vars
  BY <1>2 DEF vars, FullCoversLine, Pending
<1> QED
  BY <1>1, <1>2, CoversProducer, CoversConsumer DEF Next

(* The flagperson, who looks at a counter without the mutex, never waits   *)
(* at the full semaphore for a car that no producer is about to announce.  *)
THEOREM TrafficSimFullCovers == Spec => []FullCoversLine
  BY CoversInit, CoversStep, TrafficSimQueues, PTL DEF Spec

-----------------------------------------------------------------------------
(* The counters.  Only the flagperson lowers one, so a counter that he has *)
(* found positive stays so until he lets a car go; and no road's counter   *)
(* exceeds the number of its cars so far.                                  *)

CountInv == /\ CrossesOnlyCars
            /\ \A r \in Roads : road[r].counter <= road[r].total

LEMMA CountInit == Init => CountInv
BY DEF Init, CountInv, CrossesOnlyCars, Roads, Procs, Children, North, South, Flagperson, Main

LEMMA CountProducer ==
    ASSUME TypeOK, CountInv, NEW r \in Roads, Producer(r)
    PROVE  CountInv'
<1>1. lane' = lane /\ pc'[Flagperson] = pc[Flagperson] /\ lane \in Roads
  <2>1. Flagperson # r /\ Flagperson \in Procs
    BY Names DEF Roads, Procs, Children
  <2>2. \E label : Goto(r, label)
    BY DEF Producer, CarArrives, SleepOver, ProducerDownEmpty, ProducerDownMutex, WriteCar,
           ProducerUpMutex, ProducerUpFull
  <2> QED
    BY <2>1, <2>2 DEF TypeOK, Goto, Producer, CarArrives, SleepOver, ProducerDownEmpty,
       ProducerDownMutex, WriteCar, ProducerUpMutex, ProducerUpFull
<1>2. \A q \in Roads :
         \/ road'[q].counter = road[q].counter /\ road'[q].total = road[q].total
         \/ road'[q].counter = road[q].counter + 1 /\ road'[q].total = road[q].total + 1
  <2>1. CASE CarArrives(r)
    BY <2>1, ArriveCounts
  <2>2. CASE WriteCar(r)
    BY <2>2, WriteCounts
  <2>3. CASE road' = road
    BY <2>3
  <2> QED
    BY <2>1, <2>2, <2>3 DEF Producer, SleepOver, ProducerDownEmpty, ProducerDownMutex,
       ProducerUpMutex, ProducerUpFull
<1> QED
  BY <1>1, <1>2, Values DEF CountInv, CrossesOnlyCars

LEMMA CountConsumer ==
    ASSUME TypeOK, CountInv, Consumer
    PROVE  CountInv'
<1>1. lane \in Roads /\ pc \in [Procs -> Labels] /\ Flagperson \in Procs
  BY Names DEF TypeOK, Children
<1>2. CASE CrossCar
  <2>1. /\ pc[Flagperson] = "cross" /\ lane' = lane
        /\ \/ pc' = pc /\ road[lane].counter - 1 > 0
           \/ Goto(Flagperson, "up_mutex")
    BY <1>2 DEF CrossCar, At, GoesOn
  <2>2. \A q \in Roads : /\ road'[q].counter = road[q].counter - (IF q = lane THEN 1 ELSE 0)
                         /\ road'[q].total = road[q].total
    BY <1>1, <1>2, CrossCounts, Values
  <2> QED
    BY <1>1, <2>1, <2>2, Values, GotoLabel DEF CountInv, CrossesOnlyCars
<1>3. CASE CheckLine
  BY <1>1, <1>3, Values, GotoLabel DEF CheckLine, NextHalf, CountInv, CrossesOnlyCars
<1>4. CASE ConsumerUpEmpty
  BY <1>1, <1>4, Values, GotoLabel DEF ConsumerUpEmpty, NextHalf, CountInv, CrossesOnlyCars
<1>5. CASE CheckSleep \/ SleepDownMutex \/ FallAsleep \/ SleepUpMutex \/ ConsumerUpMutex
  <2>1. /\ \E label \in {"sleep_down_mutex", "check_line", "fall_asleep", "sleep_up_mutex",
                          "up_empty"} : Goto(Flagperson, label)
        /\ road' = road
    BY <1>5 DEF CheckSleep, SleepDownMutex, FallAsleep, SleepUpMutex, ConsumerUpMutex
  <2> QED
    BY <1>1, <2>1, GotoLabel DEF CountInv, CrossesOnlyCars
<1>6. CASE ConsumerDownFull \/ ConsumerDownMutex
  <2>1. /\ pc[Flagperson] \in {"down_full", "down_mutex"} /\ road' = road /\ lane' = lane
    BY <1>6 DEF ConsumerDownFull, ConsumerDownMutex, At
  <2> QED
    BY <2>1 DEF CountInv, CrossesOnlyCars
<1> QED
  BY <1>2, <1>3, <1>4, <1>5, <1>6 DEF Consumer

LEMMA CountStep == QInv /\ CountInv /\ [Next]_vars => CountInv'
<1> SUFFICES ASSUME QInv, CountInv, [Next]_vars PROVE CountInv'
  OBVIOUS
<1> USE DEF QInv
<1>1. CASE RunSimulation
  BY <1>1, ForkMoves DEF CountInv, CrossesOnlyCars, Children
<1>2. CASE UNCHANGED vars
  BY <1>2 DEF vars, CountInv, CrossesOnlyCars
<1> QED
  BY <1>1, <1>2, CountProducer, CountConsumer DEF Next

(* The counter the flagperson has read without the mutex is still positive *)
(* when the car is let go.                                                 *)
THEOREM TrafficSimCrossesCars == Spec => []CrossesOnlyCars
<1>1. CountInv => CrossesOnlyCars
  BY DEF CountInv
<1> QED
  BY <1>1, CountInit, CountStep, TrafficSimQueues, PTL DEF Spec

-----------------------------------------------------------------------------
(* The lines.  No semaphore but the mutex has two sleepers, and the one it *)
(* has is at the label after its down: what is missing there is counted as *)
(* pending.                                                                *)

LEMMA OneSleeper ==
    ASSUME QInv, NEW s \in Sems, NEW p, Asleep(s) \subseteq {p}
    PROVE  sem[s].value >= -1 /\ (sem[s].value < 0 => p \in Asleep(s))
<1> DEFINE list == sem[s].process_list
<1>1. sem[s].value \in Int /\ list \in Seq(Procs)
  BY DEF QInv, TypeOK
<1>2. Listed(list) = Asleep(s) /\ Once(list)
      /\ (sem[s].value < 0 => Len(list) = -sem[s].value)
  BY DEF QInv, QueueInv
<1>3. \A i \in 1..Len(list) : list[i] = p
  BY <1>2 DEF Listed
<1>4. Len(list) \in Nat /\ ~(Len(list) >= 2)
  <2>1. Len(list) \in Nat
    BY <1>1
  <2>2. ASSUME Len(list) >= 2 PROVE FALSE
    <3>1. 1 \in 1..Len(list) /\ 2 \in 1..Len(list)
      BY <2>1, <2>2
    <3> QED
      BY <1>2, <1>3, <3>1 DEF Once
  <2> QED
    BY <2>1, <2>2
<1>5. ASSUME sem[s].value < 0 PROVE p \in Asleep(s)
  <2>1. 1 \in 1..Len(list)
    BY <1>1, <1>2, <1>5
  <2> QED
    BY <1>2, <1>3, <2>1 DEF Listed
<1> QED
  BY <1>1, <1>2, <1>4, <1>5

LEMMA MissingIsPending ==
    ASSUME QInv
    PROVE  \A r \in Roads :
              /\ sem[Empty[r]].value + Pending(r, {"down_mutex"}) >= 0
              /\ sem[Full[r]].value
                  + (IF lane = r THEN Pending(Flagperson, {"down_mutex"}) ELSE 0) >= 0
<1> SUFFICES ASSUME NEW r \in Roads
             PROVE  /\ sem[Empty[r]].value + Pending(r, {"down_mutex"}) >= 0
                    /\ sem[Full[r]].value
                        + (IF lane = r THEN Pending(Flagperson, {"down_mutex"}) ELSE 0) >= 0
  OBVIOUS
<1>1. /\ Empty[r] \in Sems /\ Full[r] \in Sems /\ lane \in Roads
      /\ sem[Empty[r]].value \in Int /\ sem[Full[r]].value \in Int
  BY Names DEF QInv, TypeOK
<1>2. \A p \in Children : p # Flagperson => p \in Roads
  BY DEF Children
<1>3. Asleep(Empty[r]) \subseteq {r} /\ Asleep(Full[r]) \subseteq {Flagperson}
  BY <1>1, <1>2, Names DEF Asleep, WaitsFor
<1>4. ASSUME NEW s \in Sems, s # Mutex, NEW p \in Asleep(s)
      PROVE  pc[p] = "down_mutex"
  BY <1>4, Names DEF QInv, QueueInv, Asleep, WaitsFor, SleepLabels, MutexLabels
<1>5. Flagperson \in Asleep(Full[r]) => lane = r
  BY <1>1, Names DEF Asleep, WaitsFor
<1> QED
  BY <1>1, <1>3, <1>4, <1>5, OneSleeper, Names DEF Pending

LEMMA LinesFollow ==
    ASSUME QInv, TokensAccounted, FullCoversLine, CountInv
    PROVE  LinesBounded /\ SouthTotalBounded
<1>1. /\ \A s \in Sems : sem[s].value \in Int
      /\ \A r \in Roads : road[r].total \in Nat /\ road[r].counter \in Int
      /\ lane \in Roads /\ BUFFER_MAX \in Nat
  BY Values, SizeAssumption DEF QInv, TypeOK
<1>2. SouthTotalBounded
  BY <1>1, Counters, MissingIsPending
     DEF TokensAccounted, Pending, SouthTotalBounded, Roads
<1>3. road[South].counter <= BUFFER_MAX
  BY <1>1, <1>2 DEF CountInv, SouthTotalBounded, Roads
<1>4. road[North].counter <= 2 * BUFFER_MAX
  BY <1>1, <1>2, Counters, MissingIsPending
     DEF TokensAccounted, FullCoversLine, Pending, InBatch, SouthTotalBounded, Roads, North, South
<1> QED
  BY <1>2, <1>3, <1>4 DEF LinesBounded

(* The wrong semaphore at the end of the southern half makes the northern  *)
(* line outgrow its buffer, but at most to twice its size, and the south   *)
(* come to an end.                                                         *)
THEOREM TrafficSimLines == Spec => [](LinesBounded /\ SouthTotalBounded)
  BY LinesFollow, TokensInit, TokensStep, CoversInit, CoversStep, CountInit, CountStep,
     TrafficSimQueues, PTL DEF Spec

-----------------------------------------------------------------------------
(* The southern line.  The cars in line are the slots from readIndex to    *)
(* writeIndex, around the end of the buffer; as there are never more of    *)
(* them than slots, a new car overwrites none of them.                     *)

CarsInRing ==
    /\ road[South].counter >= 0
    /\ road[South].writeIndex = (road[South].readIndex + road[South].counter) % BUFFER_MAX

LEMMA Wraps ==
    ASSUME NEW i \in 0..BUFFER_MAX - 1, NEW k \in 0..BUFFER_MAX
    PROVE  /\ (i + k) % BUFFER_MAX = IF i + k < BUFFER_MAX THEN i + k ELSE i + k - BUFFER_MAX
           /\ (i + k) % BUFFER_MAX \in 0..BUFFER_MAX - 1
<1>1. BUFFER_MAX \in Nat \ {0} /\ i \in Nat /\ k \in Nat
  BY SizeAssumption
<1>2. CASE i + k < BUFFER_MAX
  BY <1>1, <1>2
<1>3. CASE i + k >= BUFFER_MAX
  <2>1. i + k = (i + k - BUFFER_MAX) + (1 * BUFFER_MAX) /\ i + k - BUFFER_MAX \in 0..BUFFER_MAX - 1
    BY <1>1, <1>3
  <2> QED
    BY <1>1, <1>3, <2>1
<1> QED
  BY <1>1, <1>2, <1>3

(* The slot after the hand's, seen from there.                             *)
LEMMA WrapsTwice ==
    ASSUME NEW i \in 0..BUFFER_MAX - 1, NEW k \in 0..BUFFER_MAX - 1
    PROVE  (((i + 1) % BUFFER_MAX) + k) % BUFFER_MAX = (i + (k + 1)) % BUFFER_MAX
<1>1. BUFFER_MAX \in Nat \ {0} /\ 1 \in 0..BUFFER_MAX /\ k + 1 \in 0..BUFFER_MAX
  BY SizeAssumption
<1> DEFINE j == (i + 1) % BUFFER_MAX
<1>2. j = (IF i + 1 < BUFFER_MAX THEN i + 1 ELSE i + 1 - BUFFER_MAX) /\ j \in 0..BUFFER_MAX - 1
  BY <1>1, Wraps
<1>3. (j + k) % BUFFER_MAX = IF j + k < BUFFER_MAX THEN j + k ELSE j + k - BUFFER_MAX
  <2> HIDE DEF j
  <2>1. k \in 0..BUFFER_MAX
    BY <1>1
  <2> QED
    BY <1>2, <2>1, Wraps
<1>4. (i + (k + 1)) % BUFFER_MAX
        = IF i + (k + 1) < BUFFER_MAX THEN i + (k + 1) ELSE i + (k + 1) - BUFFER_MAX
  BY <1>1, Wraps
<1> HIDE DEF j
<1> QED
  <2>1. (j + k) % BUFFER_MAX = (i + (k + 1)) % BUFFER_MAX
    BY <1>1, <1>2, <1>3, <1>4
  <2> QED
    BY <2>1 DEF j

LEMMA SouthTypes ==
    ASSUME TypeOK
    PROVE  LET q == road[South]
           IN  /\ q.readIndex \in 0..BUFFER_MAX - 1 /\ q.writeIndex \in 0..BUFFER_MAX - 1
               /\ q.counter \in Int /\ q.total \in Nat
               /\ q.buffer \in [0..BUFFER_MAX - 1 -> Nat]
               /\ South \in Roads
BY DEF TypeOK, SharedMemoryQueue, Roads

(* What the steps do to the southern line's struct.                        *)
LEMMA SouthWrites ==
    ASSUME TypeOK, WriteCar(South)
    PROVE  LET q == road[South]
           IN  /\ road'[South].readIndex = q.readIndex
               /\ road'[South].writeIndex = (q.writeIndex + 1) % BUFFER_MAX
               /\ road'[South].counter = q.counter + 1
               /\ road'[South].total = q.total + 1
               /\ road'[South].buffer = [q.buffer EXCEPT ![q.writeIndex] = q.total]
<1>1. road \in [Roads -> SharedMemoryQueue] /\ South \in Roads
  BY DEF TypeOK, Roads
<1> QED
  BY <1>1 DEF WriteCar, SharedMemoryQueue

LEMMA SouthCrosses ==
    ASSUME TypeOK, CrossCar, lane = South
    PROVE  LET q == road[South]
           IN  /\ road'[South].readIndex = (q.readIndex + 1) % BUFFER_MAX
               /\ road'[South].writeIndex = q.writeIndex
               /\ road'[South].counter = q.counter - 1
               /\ road'[South].total = q.total
               /\ road'[South].buffer = q.buffer
<1>1. road \in [Roads -> SharedMemoryQueue] /\ South \in Roads
  BY DEF TypeOK, Roads
<1> QED
  BY <1>1 DEF CrossCar, SharedMemoryQueue

SouthStays ==
    LET q == road[South]
    IN  /\ road'[South].readIndex = q.readIndex
        /\ road'[South].writeIndex = q.writeIndex
        /\ road'[South].counter = q.counter
        /\ road'[South].total = q.total
        /\ road'[South].buffer = q.buffer

LEMMA SouthMoves ==
    ASSUME TypeOK, [Next]_vars
    PROVE  \/ SouthStays
           \/ WriteCar(South)
           \/ CrossCar /\ lane = South
<1>1. road \in [Roads -> SharedMemoryQueue] /\ South \in Roads /\ lane \in Roads
  BY DEF TypeOK, Roads
<1>2. CASE road' = road
  BY <1>2 DEF SouthStays
<1>3. CASE CrossCar /\ lane # South
  <2>1. road'[South] = road[South]
    BY <1>1, <1>3, CrossCounts
  <2> QED
    BY <2>1 DEF SouthStays
<1>4. CASE \E r \in Roads : WriteCar(r) /\ r # South
  <2>1. road'[South] = road[South]
    BY <1>1, <1>4, WriteCounts
  <2> QED
    BY <2>1 DEF SouthStays
<1>5. CASE \E r \in Roads : CarArrives(r)
  <2>1. PICK r \in Roads, arrives \in BOOLEAN : road' = [road EXCEPT ![r].carArrived = arrives]
    BY <1>5 DEF CarArrives
  <2> QED
    BY <1>1, <2>1 DEF SouthStays, SharedMemoryQueue
<1>6. \/ road' = road
      \/ CrossCar
      \/ \E r \in Roads : WriteCar(r) \/ CarArrives(r)
  BY DEF Next, vars, RunSimulation, Fork, Consumer, CheckSleep, SleepDownMutex, FallAsleep,
     SleepUpMutex, CheckLine, ConsumerDownFull, ConsumerDownMutex, ConsumerUpMutex,
     ConsumerUpEmpty, Producer, SleepOver, ProducerDownEmpty, ProducerDownMutex,
     ProducerUpMutex, ProducerUpFull
<1> QED
  BY <1>2, <1>3, <1>4, <1>5, <1>6

LEMMA RingInit == Init => CarsInRing
<1> SUFFICES ASSUME Init PROVE CarsInRing
  OBVIOUS
<1>1. road[South].counter = 0 /\ road[South].readIndex = 0 /\ road[South].writeIndex = 0
  BY DEF Init, Roads
<1>2. (0 + 0) % BUFFER_MAX = 0
  BY SizeAssumption
<1> QED
  BY <1>1, <1>2 DEF CarsInRing

(* No more cars are in line than the buffer has slots, now and after a     *)
(* step: this is what TrafficSimLines says of the south.                   *)
LEMMA RingStep ==
    CarsInRing /\ TypeOK /\ CountInv /\ LinesBounded /\ LinesBounded' /\ [Next]_vars
        => CarsInRing'
<1> SUFFICES ASSUME CarsInRing, TypeOK, CountInv, LinesBounded, LinesBounded', [Next]_vars
             PROVE  CarsInRing'
  OBVIOUS
<1> DEFINE q == road[South]
<1>1. /\ q.readIndex \in 0..BUFFER_MAX - 1 /\ q.writeIndex \in 0..BUFFER_MAX - 1
      /\ q.counter \in 0..BUFFER_MAX /\ BUFFER_MAX \in Nat \ {0}
      /\ q.writeIndex = (q.readIndex + q.counter) % BUFFER_MAX
  BY SouthTypes, SizeAssumption DEF CarsInRing, LinesBounded
<1>2. CASE SouthStays
  BY <1>2 DEF SouthStays, CarsInRing
<1>3. CASE WriteCar(South)
  <2>1. /\ road'[South].readIndex = q.readIndex
        /\ road'[South].writeIndex = (q.writeIndex + 1) % BUFFER_MAX
        /\ road'[South].counter = q.counter + 1
    BY <1>3, SouthWrites
  <2>2. q.counter + 1 \in 0..BUFFER_MAX /\ 1 \in 0..BUFFER_MAX
    BY <1>1, <2>1 DEF LinesBounded
  <2>3. (q.writeIndex + 1) % BUFFER_MAX = (q.readIndex + (q.counter + 1)) % BUFFER_MAX
    <3> DEFINE i == q.readIndex
               k == q.counter
               w == q.writeIndex
    <3>1. w = IF i + k < BUFFER_MAX THEN i + k ELSE i + k - BUFFER_MAX
      BY <1>1, Wraps
    <3>2. (w + 1) % BUFFER_MAX = IF w + 1 < BUFFER_MAX THEN w + 1 ELSE w + 1 - BUFFER_MAX
      BY <1>1, <2>2, Wraps
    <3>3. (i + (k + 1)) % BUFFER_MAX
            = IF i + (k + 1) < BUFFER_MAX THEN i + (k + 1) ELSE i + (k + 1) - BUFFER_MAX
      BY <1>1, <2>2, Wraps
    <3>4. i \in 0..BUFFER_MAX - 1 /\ w \in 0..BUFFER_MAX - 1 /\ k + 1 \in 0..BUFFER_MAX
          /\ k \in 0..BUFFER_MAX
      BY <1>1, <2>2
    <3> HIDE DEF i, k, w
    <3>5. (w + 1) % BUFFER_MAX = (i + (k + 1)) % BUFFER_MAX
      BY <1>1, <3>1, <3>2, <3>3, <3>4
    <3> QED
      BY <3>5 DEF i, k, w
  <2> QED
    BY <1>1, <2>1, <2>2, <2>3 DEF CarsInRing
<1>4. CASE CrossCar /\ lane = South
  <2>1. /\ road'[South].readIndex = (q.readIndex + 1) % BUFFER_MAX
        /\ road'[South].writeIndex = q.writeIndex
        /\ road'[South].counter = q.counter - 1
    BY <1>4, SouthCrosses
  <2>2. q.counter > 0
    BY <1>4 DEF CountInv, CrossesOnlyCars, CrossCar, At
  <2>3. (((q.readIndex + 1) % BUFFER_MAX) + (q.counter - 1)) % BUFFER_MAX = q.writeIndex
    <3>1. q.counter - 1 \in 0..BUFFER_MAX - 1 /\ (q.counter - 1) + 1 = q.counter
      BY <1>1, <2>2
    <3> QED
      BY <1>1, <3>1, WrapsTwice
  <2> QED
    BY <1>1, <2>1, <2>2, <2>3 DEF CarsInRing
<1> QED
  BY <1>2, <1>3, <1>4, SouthMoves

LEMMA TailByIndex ==
    ASSUME NEW S, NEW s \in Seq(S), s # <<>>
    PROVE  Tail(s) = [n \in 1..Len(s) - 1 |-> s[n + 1]]
<1>1. Len(s) \in Nat /\ Len(s) > 0
  OBVIOUS
<1>2. Tail(s) \in Seq(S) /\ Len(Tail(s)) = Len(s) - 1
  BY <1>1
<1>3. Tail(s) = [n \in 1..Len(s) - 1 |-> Tail(s)[n]]
  <2>1. \A t \in Seq(S) : t = [n \in 1..Len(t) |-> t[n]]
    OBVIOUS
  <2> QED
    BY <1>2, <2>1
<1>4. \A n \in 1..Len(s) - 1 : Tail(s)[n] = s[n + 1]
  BY <1>1
<1> QED
  BY <1>3, <1>4, Zenon

LEMMA RingRefines ==
    CarsInRing /\ TypeOK /\ CountInv /\ LinesBounded /\ LinesBounded' /\ [Next]_vars
        => [SouthLine!Next]_<<Line(South), road[South].total>>
<1> SUFFICES ASSUME CarsInRing, TypeOK, CountInv, LinesBounded, LinesBounded', [Next]_vars
             PROVE  \/ SouthLine!Next
                    \/ Line(South)' = Line(South) /\ road'[South].total = road[South].total
  OBVIOUS
<1> DEFINE q == road[South]
           i == q.readIndex
           k == q.counter
           slot(n) == (i + n - 1) % BUFFER_MAX
<1>1. /\ i \in 0..BUFFER_MAX - 1 /\ q.writeIndex \in 0..BUFFER_MAX - 1
      /\ k \in 0..BUFFER_MAX /\ BUFFER_MAX \in Nat \ {0}
  BY SouthTypes, SizeAssumption DEF CarsInRing, LinesBounded
<1>0. q.buffer \in [0..BUFFER_MAX - 1 -> Nat] /\ q.total \in Nat
  BY SouthTypes
<1>9. q.writeIndex = (i + k) % BUFFER_MAX
  BY DEF CarsInRing
<1>2. ASSUME NEW n \in 1..BUFFER_MAX
      PROVE  /\ slot(n) \in 0..BUFFER_MAX - 1
             /\ slot(n) = IF i + (n - 1) < BUFFER_MAX THEN i + (n - 1) ELSE i + (n - 1) - BUFFER_MAX
  <2>1. n - 1 \in 0..BUFFER_MAX /\ i + n - 1 = i + (n - 1)
    BY <1>1
  <2> QED
    BY <1>1, <2>1, Wraps
<1>3. Line(South) = [n \in 1..k |-> q.buffer[slot(n)]]
  BY DEF Line
<1>4. \A n \in 1..k : q.buffer[slot(n)] \in Nat
  <2> SUFFICES ASSUME NEW n \in 1..k PROVE q.buffer[slot(n)] \in Nat
    OBVIOUS
  <2>1. n \in 1..BUFFER_MAX
    BY <1>1
  <2>2. slot(n) \in 0..BUFFER_MAX - 1
    BY <1>2, <2>1
  <2> HIDE DEF slot
  <2> QED
    BY <1>0, <2>2
<1>5. Line(South) \in Seq(Nat) /\ Len(Line(South)) = k
  <2> HIDE DEF slot, k, q
  <2> QED
    BY <1>1, <1>3, <1>4
<1>6. CASE SouthStays
  BY <1>6 DEF SouthStays, Line
<1>7. CASE WriteCar(South)
  <2>1. /\ road'[South].readIndex = i
        /\ road'[South].counter = k + 1
        /\ road'[South].total = q.total + 1
        /\ road'[South].buffer = [q.buffer EXCEPT ![q.writeIndex] = q.total]
    BY <1>7, SouthWrites
  <2>2. k < BUFFER_MAX
    BY <1>1, <2>1 DEF LinesBounded
  <2>3. Line(South)' = [n \in 1..k + 1 |-> [q.buffer EXCEPT ![q.writeIndex] = q.total][slot(n)]]
    BY <2>1 DEF Line
  <2>4. slot(k + 1) = q.writeIndex
    <3>1. i + (k + 1) - 1 = i + k
      BY <1>1
    <3> QED
      BY <1>9, <3>1
  <2>5. \A n \in 1..k : slot(n) # q.writeIndex
    <3> SUFFICES ASSUME NEW n \in 1..k PROVE slot(n) # slot(k + 1)
      BY <2>4
    <3>1. n \in 1..BUFFER_MAX /\ k + 1 \in 1..BUFFER_MAX
      BY <1>1, <2>2
    <3>2. slot(n) = IF i + (n - 1) < BUFFER_MAX THEN i + (n - 1) ELSE i + (n - 1) - BUFFER_MAX
      BY <1>2, <3>1
    <3>3. slot(k + 1) = IF i + ((k + 1) - 1) < BUFFER_MAX THEN i + ((k + 1) - 1)
                                                       ELSE i + ((k + 1) - 1) - BUFFER_MAX
      BY <1>2, <3>1
    <3> HIDE DEF slot, i, k
    <3> QED
      BY <1>1, <3>1, <3>2, <3>3
  <2>6. \A n \in 1..k + 1 :
           [q.buffer EXCEPT ![q.writeIndex] = q.total][slot(n)]
              = IF n = k + 1 THEN q.total ELSE q.buffer[slot(n)]
    <3> SUFFICES ASSUME NEW n \in 1..k + 1
                 PROVE  [q.buffer EXCEPT ![q.writeIndex] = q.total][slot(n)]
                          = IF n = k + 1 THEN q.total ELSE q.buffer[slot(n)]
      OBVIOUS
    <3>1. n \in 1..BUFFER_MAX /\ (n = k + 1 \/ n \in 1..k)
      BY <1>1, <2>2
    <3>2. slot(n) \in 0..BUFFER_MAX - 1
      BY <1>2, <3>1
    <3>3. n = k + 1 <=> slot(n) = q.writeIndex
      BY <1>1, <2>4, <2>5, <3>1
    <3> HIDE DEF slot, k
    <3> QED
      BY <1>0, <3>2, <3>3
  <2>7. Line(South)' = Append(Line(South), q.total)
    <3>1. Line(South)' = [n \in 1..k + 1 |-> IF n = k + 1 THEN q.total ELSE q.buffer[slot(n)]]
      BY <2>3, <2>6
    <3> HIDE DEF slot, k, q
    <3>2. Append(Line(South), q.total)
            = [n \in 1..k + 1 |-> IF n = k + 1 THEN q.total ELSE Line(South)[n]]
      BY <1>1, <1>5
    <3>3. \A n \in 1..k + 1 : n # k + 1 => Line(South)[n] = q.buffer[slot(n)]
      BY <1>1, <1>3
    <3> QED
      BY <3>1, <3>2, <3>3
  <2>8. SouthLine!Arrive
    BY <1>5, <2>1, <2>2, <2>7 DEF SouthLine!Arrive
  <2> QED
    BY <2>8 DEF SouthLine!Next
<1>8. CASE CrossCar /\ lane = South
  <2>1. /\ road'[South].readIndex = (i + 1) % BUFFER_MAX
        /\ road'[South].counter = k - 1
        /\ road'[South].total = q.total
        /\ road'[South].buffer = q.buffer
    BY <1>8, SouthCrosses
  <2>2. k > 0
    BY <1>8 DEF CountInv, CrossesOnlyCars, CrossCar, At
  <2>3. \A n \in 1..k - 1 : (((i + 1) % BUFFER_MAX) + n - 1) % BUFFER_MAX = slot(n + 1)
    <3> SUFFICES ASSUME NEW n \in 1..k - 1
                 PROVE  (((i + 1) % BUFFER_MAX) + n - 1) % BUFFER_MAX = slot(n + 1)
      OBVIOUS
    <3>1. /\ n - 1 \in 0..BUFFER_MAX - 1 /\ (i + 1) % BUFFER_MAX \in Int
          /\ ((i + 1) % BUFFER_MAX) + n - 1 = ((i + 1) % BUFFER_MAX) + (n - 1)
          /\ i + (n + 1) - 1 = i + ((n - 1) + 1)
      BY <1>1
    <3> QED
      BY <1>1, <3>1, WrapsTwice
  <2>4. Line(South)' = [n \in 1..k - 1 |-> q.buffer[(((i + 1) % BUFFER_MAX) + n - 1) % BUFFER_MAX]]
    BY <2>1 DEF Line
  <2>5. Line(South)' = [n \in 1..k - 1 |-> q.buffer[slot(n + 1)]]
    BY <2>3, <2>4
  <2>6. Line(South)' = Tail(Line(South))
    <3> HIDE DEF slot, k, q
    <3>1. Tail(Line(South)) = [n \in 1..k - 1 |-> Line(South)[n + 1]]
      <4>1. Line(South) \in Seq(Nat) /\ Len(Line(South)) = k
        BY <1>5
      <4>2. Line(South) # <<>> /\ k \in Nat
        BY <1>1, <2>2, <4>1
      <4> QED
        BY <4>1, <4>2, TailByIndex, Zenon
    <3>2. \A n \in 1..k - 1 : Line(South)[n + 1] = q.buffer[slot(n + 1)]
      BY <1>1, <1>3
    <3> QED
      BY <2>5, <3>1, <3>2
  <2>7. Line(South) # <<>>
    BY <1>5, <2>2
  <2>8. SouthLine!Cross
    BY <2>1, <2>6, <2>7 DEF SouthLine!Cross
  <2> QED
    BY <2>8 DEF SouthLine!Next
<1> QED
  BY <1>6, <1>7, <1>8, SouthMoves

LEMMA LineInit == Init => SouthLine!Init
<1> SUFFICES ASSUME Init PROVE SouthLine!Init
  OBVIOUS
<1>1. road[South].counter = 0 /\ road[South].total = 0
  BY DEF Init, Roads
<1>2. Line(South) = <<>>
  BY <1>1 DEF Line
<1> QED
  BY <1>1, <1>2 DEF SouthLine!Init

(* The southern cars queue in a line of at most BUFFER_MAX and cross in    *)
(* the order in which they came, none lost and none twice, although the    *)
(* flagperson reads the counter without the mutex: what SouthIsBoundedLine *)
(* says but for its liveness.                                              *)
THEOREM TrafficSimSouthImplementsLine == Spec => SouthLine!Spec
<1>1. Spec => [](TypeOK /\ CountInv /\ LinesBounded)
  BY LinesFollow, TokensInit, TokensStep, CoversInit, CoversStep, CountInit, CountStep,
     TrafficSimQueues, TrafficSimType, PTL DEF Spec
<1> QED
  BY <1>1, RingInit, RingStep, RingRefines, LineInit, PTL DEF Spec, SouthLine!Spec, SouthLine!vars

=============================================================================

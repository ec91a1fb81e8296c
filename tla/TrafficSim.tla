----------------------------- MODULE TrafficSim -----------------------------
(***************************************************************************)
(* trafficsim.c of the submitted project 2: a road under repair with one   *)
(* lane, a line of cars at its north and at its south end, and a flagperson *)
(* who lets them cross.  main forks three processes that share the struct  *)
(* Road: the flagperson (consumer) and one producer per end.  They keep    *)
(* apart with five cs1550 semaphores, whose calls are atomic here          *)
(* (CS1550Sem shows what that takes).                                      *)
(*                                                                         *)
(* Every action is the code between two points at which another process    *)
(* can be noticed; pc names the statement a process executes next.  The    *)
(* two halves of consumer(), "CONSUME NORTH" and "CONSUME SOUTH", are the  *)
(* same actions with `lane' telling which half is running.                 *)
(***************************************************************************)
EXTENDS SemaphoreOps, FiniteSets

CONSTANTS BUFFER_MAX,   \* slots of a road's buffer: 10 in the source
          LINE_LIMIT,   \* the literal 10 in the conditions of the do-whiles
          MaxCars,      \* bound on the cars that arrive on each road
          ForkMayFail   \* the processes whose fork() may fail

North == "north"
South == "south"
Flagperson == "flagperson"
Main == "main"

Roads == {North, South}
Children == Roads \union {Flagperson}
Procs == Children \union {Main}

ASSUME SizeAssumption == BUFFER_MAX \in Nat \ {0} /\ LINE_LIMIT \in Nat \ {0}
ASSUME BoundAssumption == MaxCars \in Nat /\ ForkMayFail \subseteq Children

Mutex == "sem_mutex"
Empty == [r \in Roads |-> IF r = North THEN "north_sem_empty" ELSE "south_sem_empty"]
Full  == [r \in Roads |-> IF r = North THEN "north_sem_full" ELSE "south_sem_full"]
Sems == {Mutex, "north_sem_empty", "south_sem_empty", "north_sem_full", "south_sem_full"}

VARIABLES road,      \* the two SharedMemoryQueues
          isAsleep,  \* flagperson.isAsleep
          sem,       \* the five semaphores of struct Road
          state,     \* the kernel's state of each process
          pc,        \* the next statement of each process
          lane       \* which half of consumer() the flagperson is in

vars == <<road, isAsleep, sem, state, pc, lane>>

Other(r) == IF r = North THEN South ELSE North

At(p, label) == pc[p] = label /\ state[p] = "RUNNING"

Goto(p, label) == pc' = [pc EXCEPT ![p] = label]

(* down(&s) and up(&s), called by p *)
Down(p, s) ==
    /\ sem' = [sem EXCEPT ![s] = DownSem(sem[s], p)]
    /\ state' = [state EXCEPT ![p] = IF DownSleeps(sem[s]) THEN "INTERRUPTIBLE"
                                                           ELSE "RUNNING"]

Up(s) ==
    /\ sem' = [sem EXCEPT ![s] = UpSem(sem[s])]
    /\ state' = [p \in Procs |-> IF p \in Woken(sem[s]) THEN "RUNNING" ELSE state[p]]

-----------------------------------------------------------------------------
(* Mutants of the actions below, each a slip that a change of trafficsim.c *)
(* could make.                                                             *)

(* the producer enters its critical section without down(&sem_mutex) *)
ProducerDownMutex_left_out(r) ==
    /\ At(r, "down_mutex")
    /\ Goto(r, "write")
    /\ UNCHANGED <<road, isAsleep, sem, state, lane>>

(* nothing keeps a producer from running ahead *)
ProducerDownEmpty_left_out(r) ==
    /\ At(r, "down_empty")
    /\ Goto(r, "down_mutex")
    /\ UNCHANGED <<road, isAsleep, sem, state, lane>>

(* the car is written after it has been counted *)
WriteCar_counts_first(r) ==
    /\ At(r, "write")
    /\ road' = [road EXCEPT ![r].buffer[road[r].writeIndex] = road[r].total + 1,
                            ![r].total = @ + 1,
                            ![r].writeIndex = (@ + 1) % BUFFER_MAX,
                            ![r].counter = @ + 1]
    /\ Goto(r, "up_mutex")
    /\ UNCHANGED <<isAsleep, sem, state, lane>>

(* both producers announce their cars in the north *)
ProducerUpFull_north(r) ==
    /\ At(r, "up_full")
    /\ Up(Full[North])
    /\ Goto(r, "arrive")
    /\ UNCHANGED <<road, isAsleep, lane>>

(* the flagperson goes to sleep with the mutex *)
SleepUpMutex_left_out ==
    /\ At(Flagperson, "sleep_up_mutex")
    /\ Goto(Flagperson, "check_line")
    /\ UNCHANGED <<road, isAsleep, sem, state, lane>>

(* a single car is left to wait for company *)
CheckLine_more_than_one ==
    /\ At(Flagperson, "check_line")
    /\ IF road[lane].counter > 1
         THEN Goto(Flagperson, "down_full") /\ UNCHANGED lane
         ELSE IF lane = North
           THEN lane' = South /\ Goto(Flagperson, "check_line")
           ELSE lane' = North /\ Goto(Flagperson, "check_sleep")
    /\ UNCHANGED <<road, isAsleep, sem, state>>

(* the do-while runs once too often *)
GoesOn_ge(line, otherLine) == otherLine < LINE_LIMIT /\ line >= 0

(* no horn *)
CrossCar_no_horn ==
    /\ At(Flagperson, "cross")
    /\ road' = [road EXCEPT ![lane].readIndex = (@ + 1) % BUFFER_MAX,
                            ![lane].counter = @ - 1]
    /\ IF road[Other(lane)].counter >= LINE_LIMIT \/ road[lane].counter = 1
         THEN Goto(Flagperson, "up_mutex")
         ELSE UNCHANGED pc
    /\ UNCHANGED <<isAsleep, sem, state, lane>>

(* a token is given back for every car, and after the batch once more *)
CrossCar_ups_for_each_car ==
    /\ At(Flagperson, "cross")
    /\ isAsleep' = FALSE
    /\ road' = [road EXCEPT ![lane].readIndex = (@ + 1) % BUFFER_MAX,
                            ![lane].counter = @ - 1]
    /\ IF road[Other(lane)].counter >= LINE_LIMIT \/ road[lane].counter = 1
         THEN Goto(Flagperson, "up_mutex")
         ELSE UNCHANGED pc
    /\ Up(Empty[North])
    /\ UNCHANGED lane

(* no token is given back *)
ConsumerUpEmpty_left_out ==
    /\ At(Flagperson, "up_empty")
    /\ IF lane = North
         THEN lane' = South /\ Goto(Flagperson, "check_line")
         ELSE lane' = North /\ Goto(Flagperson, "check_sleep")
    /\ UNCHANGED <<road, isAsleep, sem, state>>

-----------------------------------------------------------------------------
(* mapSharedMemory has initialised the semaphores and main the fields of   *)
(* struct Road; runSimulation starts with the flagperson's fork.           *)
Init ==
    /\ road = [r \in Roads |-> [carArrived |-> FALSE, readIndex |-> 0,
                                writeIndex |-> 0, counter |-> 0, total |-> 0,
                                buffer |-> [i \in 0..BUFFER_MAX - 1 |-> 0]]]
    /\ isAsleep = FALSE
    /\ sem = [s \in Sems |-> SemInit(CASE s = Mutex -> 1
                                       [] s \in {Empty[North], Empty[South]} -> BUFFER_MAX
                                       [] s \in {Full[North], Full[South]} -> 0)]
    /\ state = [p \in Procs |-> "RUNNING"]
    /\ pc = [p \in Procs |-> IF p = Main THEN "fork_flagperson" ELSE "unborn"]
    /\ lane = North

-----------------------------------------------------------------------------
(* main: runSimulation *)

(* main forks `child'.  When the fork fails, it says so and carries on.    *)
Fork(label, child, first, next) ==
    /\ At(Main, label)
    /\ \/ pc' = [pc EXCEPT ![Main] = next, ![child] = first]
       \/ child \in ForkMayFail /\ Goto(Main, next)
    /\ UNCHANGED <<road, isAsleep, sem, state, lane>>

RunSimulation ==
    \/ Fork("fork_flagperson", Flagperson, "check_sleep", "fork_north")
    \/ Fork("fork_north", North, "arrive", "fork_south")
    \/ Fork("fork_south", South, "arrive", "exited")

-----------------------------------------------------------------------------
(* north_road_producer and south_road_producer *)

(* carArrives() draws whether a car comes.  The bound: no more than MaxCars *)
(* of them on a road.                                                       *)
CarArrives(r) ==
    /\ At(r, "arrive")
    /\ \E arrives \in BOOLEAN :
          /\ arrives => road[r].total < MaxCars
          /\ road' = [road EXCEPT ![r].carArrived = arrives]
          /\ Goto(r, IF arrives THEN "down_empty" ELSE "sleep")
    /\ UNCHANGED <<isAsleep, sem, state, lane>>

(* sleep(20) returns. *)
SleepOver(r) ==
    /\ At(r, "sleep")
    /\ Goto(r, "arrive")
    /\ UNCHANGED <<road, isAsleep, sem, state, lane>>

ProducerDownEmpty(r) ==
    /\ At(r, "down_empty")
    /\ Down(r, Empty[r])
    /\ Goto(r, "down_mutex")
    /\ UNCHANGED <<road, isAsleep, lane>>

ProducerDownMutex(r) ==
    /\ At(r, "down_mutex")
    /\ Down(r, Mutex)
    /\ Goto(r, "write")
    /\ UNCHANGED <<road, isAsleep, lane>>

(* The producers' critical section: the car gets the next number and the   *)
(* slot at writeIndex.                                                     *)
WriteCar(r) ==
    /\ At(r, "write")
    /\ road' = [road EXCEPT ![r].buffer[road[r].writeIndex] = road[r].total,
                            ![r].total = @ + 1,
                            ![r].writeIndex = (@ + 1) % BUFFER_MAX,
                            ![r].counter = @ + 1]
    /\ Goto(r, "up_mutex")
    /\ UNCHANGED <<isAsleep, sem, state, lane>>

ProducerUpMutex(r) ==
    /\ At(r, "up_mutex")
    /\ Up(Mutex)
    /\ Goto(r, "up_full")
    /\ UNCHANGED <<road, isAsleep, lane>>

ProducerUpFull(r) ==
    /\ At(r, "up_full")
    /\ Up(Full[r])
    /\ Goto(r, "arrive")
    /\ UNCHANGED <<road, isAsleep, lane>>

Producer(r) ==
    \/ CarArrives(r) \/ SleepOver(r)
    \/ ProducerDownEmpty(r) \/ ProducerDownMutex(r)
    \/ WriteCar(r)
    \/ ProducerUpMutex(r) \/ ProducerUpFull(r)

-----------------------------------------------------------------------------
(* consumer *)

(* "check if we need to sleep", without the mutex.  The three reads count  *)
(* as one: nobody but the flagperson sets isAsleep or lowers a counter, so *)
(* a counter that is read as 0 was 0 all the time before.                  *)
CheckSleep ==
    /\ At(Flagperson, "check_sleep")
    /\ IF ~isAsleep /\ \A r \in Roads : road[r].counter = 0
         THEN Goto(Flagperson, "sleep_down_mutex")
         ELSE Goto(Flagperson, "check_line")
    /\ UNCHANGED <<road, isAsleep, sem, state, lane>>

SleepDownMutex ==
    /\ At(Flagperson, "sleep_down_mutex")
    /\ Down(Flagperson, Mutex)
    /\ Goto(Flagperson, "fall_asleep")
    /\ UNCHANGED <<road, isAsleep, lane>>

FallAsleep ==
    /\ At(Flagperson, "fall_asleep")
    /\ isAsleep' = TRUE
    /\ Goto(Flagperson, "sleep_up_mutex")
    /\ UNCHANGED <<road, sem, state, lane>>

SleepUpMutex ==
    /\ At(Flagperson, "sleep_up_mutex")
    /\ Up(Mutex)
    /\ Goto(Flagperson, "check_line")
    /\ UNCHANGED <<road, isAsleep, lane>>

(* After the northern half comes the southern one, then the loop again.    *)
NextHalf == IF lane = North
              THEN lane' = South /\ Goto(Flagperson, "check_line")
              ELSE lane' = North /\ Goto(Flagperson, "check_sleep")

(* if (counter > 0), also without the mutex *)
CheckLine ==
    /\ At(Flagperson, "check_line")
    /\ IF road[lane].counter > 0
         THEN Goto(Flagperson, "down_full") /\ UNCHANGED lane
         ELSE NextHalf
    /\ UNCHANGED <<road, isAsleep, sem, state>>

ConsumerDownFull ==
    /\ At(Flagperson, "down_full")
    /\ Down(Flagperson, Full[lane])
    /\ Goto(Flagperson, "down_mutex")
    /\ UNCHANGED <<road, isAsleep, lane>>

ConsumerDownMutex ==
    /\ At(Flagperson, "down_mutex")
    /\ Down(Flagperson, Mutex)
    /\ Goto(Flagperson, "cross")
    /\ UNCHANGED <<road, isAsleep, lane>>

(* The condition of the do-while after a car of this line has crossed. *)
GoesOn(line, otherLine) == otherLine < LINE_LIMIT /\ line > 0

(* One round of the do-while: the horn wakes the flagperson, the car at    *)
(* readIndex crosses, the condition is tested.                             *)
CrossCar ==
    /\ At(Flagperson, "cross")
    /\ isAsleep' = FALSE
    /\ road' = [road EXCEPT ![lane].readIndex = (@ + 1) % BUFFER_MAX,
                            ![lane].counter = @ - 1]
    /\ IF GoesOn(road[lane].counter - 1, road[Other(lane)].counter)
         THEN UNCHANGED pc
         ELSE Goto(Flagperson, "up_mutex")
    /\ UNCHANGED <<sem, state, lane>>

ConsumerUpMutex ==
    /\ At(Flagperson, "up_mutex")
    /\ Up(Mutex)
    /\ Goto(Flagperson, "up_empty")
    /\ UNCHANGED <<road, isAsleep, lane>>

(* Both halves of consumer() end with up(&road_ptr->north_sem_empty).      *)
ReleasedEmpty == Empty[North]

ConsumerUpEmpty ==
    /\ At(Flagperson, "up_empty")
    /\ Up(ReleasedEmpty)
    /\ NextHalf
    /\ UNCHANGED <<road, isAsleep>>

Consumer ==
    \/ CheckSleep \/ SleepDownMutex \/ FallAsleep \/ SleepUpMutex
    \/ CheckLine
    \/ ConsumerDownFull \/ ConsumerDownMutex
    \/ CrossCar
    \/ ConsumerUpMutex \/ ConsumerUpEmpty

-----------------------------------------------------------------------------
Next == RunSimulation \/ Consumer \/ \E r \in Roads : Producer(r)

Spec == Init /\ [][Next]_vars

(* The kernel schedules every runnable process again and again. *)
FairSpec == /\ Spec
            /\ WF_vars(RunSimulation) /\ WF_vars(Consumer)
            /\ \A r \in Roads : WF_vars(Producer(r))
-----------------------------------------------------------------------------
(* Invariants *)

Labels == {"unborn", "fork_flagperson", "fork_north", "fork_south", "exited",
           "arrive", "sleep", "down_empty", "down_mutex", "write", "up_mutex", "up_full",
           "check_sleep", "sleep_down_mutex", "fall_asleep", "sleep_up_mutex",
           "check_line", "down_full", "cross", "up_empty"}

SharedMemoryQueue ==
    [carArrived : BOOLEAN,
     readIndex  : 0..BUFFER_MAX - 1,
     writeIndex : 0..BUFFER_MAX - 1,
     counter    : Int,
     total      : Nat,
     buffer     : [0..BUFFER_MAX - 1 -> Nat]]

(* Type invariant *)
TypeOK ==
    /\ road \in [Roads -> SharedMemoryQueue]
    /\ isAsleep \in BOOLEAN
    /\ sem \in [Sems -> [value : Int, process_list : Seq(Procs)]]
    /\ state \in [Procs -> {"RUNNING", "INTERRUPTIBLE"}]
    /\ pc \in [Procs -> Labels]
    /\ lane \in Roads

(* Where a process is that has called down(sem_mutex) and not up since. *)
MutexLabels == {"write", "up_mutex", "fall_asleep", "sleep_up_mutex", "cross"}

OnRoad == {p \in Procs : pc[p] \in MutexLabels /\ state[p] = "RUNNING"}

(* "everything shares one mutex": the two producers and the flagperson are *)
(* never in their critical sections together.                              *)
RoadMutex == \A p, q \in OnRoad : p = q

(* 1 when the process is at one of the labels *)
Pending(p, labels) == IF pc[p] \in labels THEN 1 ELSE 0

(* The flagperson has taken a token of a full semaphore for this batch of  *)
(* cars and has not given the token of an empty semaphore for it yet.      *)
InBatch == {"down_mutex", "cross", "up_mutex", "up_empty"}

(* A batch of cars costs one token of its line's full semaphore and gives  *)
(* one to north_sem_empty, however many cars it has and whatever line it   *)
(* is of; a car of the north line takes one from there and gives one to    *)
(* north_sem_full.  So the tokens of the three semaphores grow by one with *)
(* every car of the south line, and with nothing else.  Nothing is ever    *)
(* given back to south_sem_empty.                                          *)
TokensAccounted ==
    /\ sem[Empty[North]].value + sem[Full[North]].value + sem[Full[South]].value
         + Pending(North, {"down_mutex", "write", "up_mutex", "up_full"})
         + Pending(South, {"up_mutex", "up_full"})
         + Pending(Flagperson, InBatch)
       = BUFFER_MAX + road[South].total
    /\ sem[Empty[South]].value + Pending(South, {"down_mutex", "write"}) + road[South].total
       = BUFFER_MAX

(* The tokens of a full semaphore suffice for the cars in line: finding    *)
(* the counter positive, without the mutex, the flagperson does not sleep  *)
(* on the full semaphore for longer than the producer's pending up.  The   *)
(* token of a batch covers one of its cars until the last has crossed.     *)
FullCoversLine ==
    \A r \in Roads :
        road[r].counter <= sem[Full[r]].value + Pending(r, {"up_mutex", "up_full"})
                           + (IF lane = r THEN Pending(Flagperson, {"down_mutex", "cross"})
                                          ELSE 0)

(* The whole simulation lets at most BUFFER_MAX cars arrive in the south. *)
SouthTotalBounded == road[South].total <= BUFFER_MAX

(* The lines stay bounded, although the northern buffer can be overrun. *)
LinesBounded == /\ road[North].counter <= 2 * BUFFER_MAX
                /\ road[South].counter <= BUFFER_MAX

(* The line whose counter the flagperson found positive without the mutex  *)
(* still has a car when it is let go: no counter is ever driven below 0.   *)
CrossesOnlyCars ==
    pc[Flagperson] \in {"down_full", "down_mutex", "cross"} => road[lane].counter > 0

-----------------------------------------------------------------------------
(* Refinement *)

(* sem_mutex is a pool of one resource that the four processes share. *)
MutexPhase ==
    [p \in Procs |-> IF pc[p] \notin MutexLabels THEN "idle"
                     ELSE IF state[p] = "RUNNING" THEN "granted" ELSE "waiting"]

RoadLock == INSTANCE Semaphore WITH Proc <- Procs, NumResources <- 1,
                                    sem <- sem[Mutex], phase <- MutexPhase

(* The critical sections of trafficsim.c use sem_mutex as Semaphore says:  *)
(* every down is followed by one up of the same process.                   *)
MutexIsSemaphore == RoadLock!Spec

(* The cars that stand in the line of road r, from the buffer. *)
Line(r) == [i \in 1..road[r].counter |->
               road[r].buffer[(road[r].readIndex + i - 1) % BUFFER_MAX]]

SouthLine == INSTANCE BoundedLine WITH Capacity <- BUFFER_MAX,
                                       line <- Line(South), total <- road[South].total

(* The southern line is a bounded first-in first-out line whose head       *)
(* crosses in the end.                                                     *)
SouthIsBoundedLine == SouthLine!FairSpec

-----------------------------------------------------------------------------
(* Liveness *)

(* On either road there are in the end as many crossings as cars have      *)
(* come; total - counter is the number of crossings.  This counts and does *)
(* not name the cars: in the south, where the buffer is never overrun,     *)
(* SouthIsBoundedLine says that they cross in their order; in the north a  *)
(* car that has to wait can be overwritten by a later one, which then      *)
(* crosses twice.                                                          *)
CrossingsMatchArrivals ==
    \A r \in Roads : \A c \in 0..MaxCars - 1 :
        road[r].total > c ~> road[r].total - road[r].counter > c

(* The horn: a car in either line wakes the flagperson. *)
HornWakesFlagperson ==
    (isAsleep /\ \E r \in Roads : road[r].counter > 0) ~> ~isAsleep

(* The northern producer gets back to the top of its loop for ever. *)
NorthProducerGoesOn == []<>(pc[North] = "arrive")

-----------------------------------------------------------------------------
(* What a comment of trafficsim.c says, and the code does not do. *)

(* "also needs to be a while(1) loop, so that it runs forever": the        *)
(* southern producer gets back to the top of its loop for ever.            *)
SouthProducerGoesOn == []<>(pc[South] = "arrive")
=============================================================================

# A verification project for OperatingSystems-Coursework

The repository holds the four projects of an operating systems course. This
directory models the parts of them in which something can go wrong that a test
would hardly show, checks the models with TLC and proves the central facts
with TLAPS. Line numbers refer to the files in `src/`; in this text
*trafficsim.c* and *sys.c* stand for the submitted versions in
`project02/trafficsim/adp59-project2/`.

## 1. Inventory

### cs1550 semaphore system calls (project 2, sys.c 2383-2517)

*State*: a `struct cs1550_sem` with a signed `value` and a FIFO
`process_list` of sleeping tasks; one spin lock `sem_lock` for all semaphores;
the kernel's state of each task.
*Operations*: `sys_cs1550_sem_init`, `sys_cs1550_down` (decrement; below zero:
list the caller, make it TASK_INTERRUPTIBLE; open the lock; schedule),
`sys_cs1550_up` (increment; not above zero: dequeue and wake one).
*Hard*: several CPUs in the two calls at once; `kmalloc(GFP_USER)` inside the
critical section; the window between listing oneself, sleeping and being woken;
signals, which end the sleep of `down`.
*Correct when*: never more processes past `down` than resources, no lost
wake-up, first come first served, every call returns.

### Process queue (sys.c 2383-2437, also simple_queue.c)

*State*: a linked list with `head`, `tail`, `size` over nodes from `kmalloc`.
*Operations*: `initializeQueue`, `enqueue`, `dequeue`. *Hard*: `dequeue` of the
last node leaves `tail` pointing at freed memory, which `kmalloc` may hand out
again. *Correct when*: it is a FIFO, no node leaks, and no write goes through
the stale pointer.

### Traffic simulation (trafficsim.c; three more versions with the same control)

*State*: in shared memory, per road a ring buffer of `BUFFER_MAX` cars with
indices, `counter` and `total`; the flagperson's `isAsleep`; five semaphores.
*Operations*: `main` initialises and forks; `north_road_producer` and
`south_road_producer` add cars; `consumer` (the flagperson) falls asleep when
both lines look empty and lets batches of cars cross, north and south in turn.
*Interaction*: shared memory under `sem_mutex`, except for the reads that
decide whether to sleep and whether a line has a car; the system calls above.
*Hard*: decisions taken on those unprotected reads; tokens given per batch and
taken per car; both halves of `consumer` give their token to the northern road
(368, 405); a fork that fails. *Correct when*: the road is used by one at a
time, lines stay bounded and first-in first-out, as many cars cross as arrive, a
sleeping flagperson is woken.

### Virtual memory simulator (project 3, Python)

*State*: a table of frames (VPN, in_use, dirty, reference, aging value, last
reference, time to next use) and counters of faults and disk writes; for Opt a
dictionary of the pages in memory and the whole trace.
*Operations*: one per reference of a trace, for each of the algorithms Clock
(`clock.py`, `circularQueue.py`), LRU, Aging and Opt; `vmsim.py` selects one.
*Hard*: sequences of references that leave bookkeeping of an evicted page
behind; a page that is added twice; free frames found by an impossible VPN;
aging by processor time. *Correct when*: a page is in one frame, a dirty page
leaves memory only with a disk write, the victim is the one the algorithm's
definition names, which for the Clock is one that has had its second chance.

### cs1550 file system (project 4, cs1550.c)

*State*: the file `.disk`, nothing else between calls. Block 0 is the root
(29 directory entries), the blocks from 1 belong to the directories (17 file
entries each), those from 18 to the files, one block each. There is no map of
free blocks: a block is free when its first byte is 0.
*Operations*: `mkdir`, `mknod` and `write` change the disk; `getattr`,
`readdir` and `read` look at it; `rmdir`, `unlink`, `truncate`, `open` and
`flush` do nothing. *Interaction*: FUSE calls them from several threads; they
share `.disk` and no lock. *Hard*: a stop, or another thread, between the reads
and writes of one call; directories, files and blocks at their maximum number;
offsets inside and behind a file. *Correct when*: two files never share a
block, a file once made is found by every lookup, a call changes nothing but
the file it is about.

### Not modelled at all

The graphics library of project 1 (sequential pixel arithmetic), the tables
that number the system calls, the sample programs beside project 2 except for
`prodcons_soln.c`, and FUSE with its `hello.c`, which is vendored: section 6.

## 2. Modules

| module | models | kind |
| --- | --- | --- |
| `SemaphoreOps` | what the three calls do to one semaphore | operators |
| `Semaphore` | the promise of `down` and `up` to the processes of a pool | abstract spec |
| `CS1550Sem` | the calls statement by statement, with CPUs, `sem_lock`, `kmalloc`, scheduler, signals | detailed spec, implements `Semaphore` |
| `Fifo` | a FIFO of processes | abstract spec |
| `ProcessQueue` | the linked list over a reused heap | detailed spec, implements `Fifo` |
| `BoundedLine` | the bounded line of cars of `prodcons_soln.c` | abstract spec |
| `TrafficSim` | `main`, the two producers and `consumer` | detailed spec; its southern line implements `BoundedLine`, its mutex `Semaphore` |
| `PageTable` | the frames of the virtual memory simulator and what is done to one of them | operators |
| `PagedMemory` | what any page replacement algorithm promises | abstract spec |
| `Clock` | `clock.py` and `circularQueue.py` | detailed spec, implements `PagedMemory` |
| `LRU`, `Aging`, `Opt` | one access under `lru.py`, `aging.py`, `opt.py` | actions |
| `VMSim` | `vmsim.py` with these three | detailed spec; Aging and Opt implement `PagedMemory` |
| `DiskLayout` | the blocks of `.disk` and the searches over them | operators |
| `FileStore` | a map from names to contents | abstract spec |
| `CS1550FS` | `mkdir`, `mknod`, `write` in several threads that may be stopped | detailed spec, implements `FileStore` |
| `SemaphoreOpsProofs`, `SemaphoreProofs`, `CS1550SemProofs`, `ProcessQueueProofs`, `TrafficSimProofs`, `ClockProofs`, `VMSimProofs`, `CS1550FSProofs` | theorems | proofs |
| `MC...` | the instances TLC checks | constants |

`SemaphoreOps` is shared: `Semaphore` and `TrafficSim` use `DownSem` and `UpSem`
as atomic calls; `CS1550Sem` shows under which conditions that is what the
kernel code does.

### Semaphore

`phase[p]` says what process `p` has been promised: "idle", "waiting" (asleep
in `down`) or "granted". `Down(p)` and `Up(p)` are the two system calls, taken
in this order by every process that uses a pool of `NumResources`.

### CS1550Sem

One action per statement between which another CPU, a sleep or a signal can
come; `pc` names the next one. `cpu` is the set of processes on a CPU, `state`
the field of `task_struct`, `lock` the holder of `sem_lock`. The kernel is not
preemptive: in a call a process leaves its CPU in `DownSchedule` and, if the
machine's `kmalloc` may have to wait, in `DownKmalloc`. If it may return NULL,
`enqueue` writes through it (2411) and the process ends there ("down_oops"),
with the lock closed and the value decremented. `Dispatch`, `Preempt`,
`MemoryFreed` and `Signal` are the kernel around the calls (external). The
variable `machine` is chosen by `Init` and never changes: it holds the number
of CPUs, whether the kernel is built for several, and whether `kmalloc` sleeps
or fails.

The refinement mapping lets `down` happen at its decrement and `up` at its
increment: the abstract list already has the caller that is about to enqueue
itself, and no longer the process that is about to be dequeued.

### ProcessQueue

`item` and `next` are the fields of the node at each address and keep their
content when the node is freed; `allocated` are the live ones. `Enqueue` and
`Dequeue` are one action each because their callers hold `sem_lock`; `Dequeue`
has a node to take because `up` calls it only after a value below zero
(`ListMatchesValue` and `DequeuesSleeper` of `CS1550Sem`).

### TrafficSim

Every action is the code between two points at which another process can be
noticed; a call of `down` or `up` is an action of its own. A process whose
`state` is "INTERRUPTIBLE" is asleep in the `down` before its `pc`. The two
halves of `consumer` are the same actions with `lane` telling which half runs;
`ReleasedEmpty` is the semaphore either half gives its token to, the northern
one. `carArrives` draws with `rand`; the model lets it answer either way, which
includes the sequences of the generator. Failing forks are in `Fork`. What the
buffer's slots hold before a car is written is never read. Output, sleeping
times and the fields no code reads (`roadInUse`, the two line lengths,
`used_spaces`) are left out.

### Clock

The trace is a sequence of page numbers and "R" or "W"; `Next` draws each access
when it is needed. `AddOrUpdate` is an access that `add_or_update_successful`
can serve, `PageFault` one that it cannot. From there one action is one round
of the loop of `find_victim`: `SecondChance`, `SkipDirty`, or `Evict`, which also
removes the victim and adds the page; `NoVictim` is its `return None`, `Flush` the
swap daemon. `index` is the loop's, `flushes` counts the daemon's runs for one
fault (up to two, enough to see a second one). Page 0 is among the pages
because the VPN of an unused frame is 0. The history variable `referenced`, which
no step depends on, keeps the frames whose pages were referenced when the search
began, since the search clears those bits; `SecondChanceKept` compares the
victim with it.

In the mapping to `PagedMemory` an access happens when its page gets its frame;
the fault is counted when the search begins, so it is not shown before it ends.

Two peculiarities of the code are in the model and no property is stated
against them. `continue` in line 64 leaves the hand where it is, so that a dirty
frame there ends the round, and the daemon runs even if another frame is clean
and unreferenced: with two frames, after reads of two pages and a write of a third,
the next fault finds the third under the hand, flushes it and evicts it, although the
second page could have gone without a write. And a page that comes into a
free frame is reported as a hit, not counted as a fault (clock.py 84-86). `PagedMemory`
leaves open whether it is one, so nothing here judges that count.

### LRU, Aging, Opt and VMSim

`VMSim` composes the three algorithms over one set of variables: `algorithm` is
chosen by `Init`, `rank` is the field its frames are ordered by
(`last_reference`, `aging_value` or `instructions_until_next_reference`), and
each step of `Next` is one round of the loop of `run_algorithm`, through
`INSTANCE ... WITH` with the name the algorithm has for that field. The trace is
a whole sequence because Opt looks ahead in it; whether an access is "R" or "W"
is drawn when it comes. `tick` in `Aging` says whether the processor clock has
passed the refresh rate, which may happen before any access.

Three history variables, which no algorithm reads, carry what the properties
need: `last_read`, `written_in` (a page has come into memory by a write) and
`reused` (the pages that were used again since they came in).
What the code does and the algorithm's name does not promise is thereby exact:

* LRU stamps a frame only for reads, and a page that comes in by a write keeps
  the stamp of the page before it. `LeastRecentlyRead` says that until the first
  such write the victim is the page whose last read is the longest ago, and
  nothing of the traces after it.
* Opt recomputes a counter that has run out for the page of the access instead of
  the frame's own. A counter runs out when its page is used again, so only the pages in
  `reused` can have a wrong one. `FarthestInFuture` says that of all other
  pages the one that leaves is needed last, on every trace and
  whatever hits the reused pages have had; where these end up is not judged.
* LRU adds a page twice when two frames are free (add_after_page_fault is called
  at line 50 and again at line 122), so the same page may be written to disk once
  for each frame; `PagedMemory` is stated of Aging and Opt only, `WritesNotLost`
  of all three.

`NoPageZero` is assumed: Aging and LRU find page 0 in a frame that was never
used.

### DiskLayout and CS1550FS

`DiskLayout` has a block as a record of one of the kinds "zero", "root", "dir",
"data" and "junk" (anything else); `AsRoot`, `AsDir` and `AsData` are what
`fread` makes of a block of zeros. A block of one kind that is read as another
is not interpreted: no call that finds one is followed, except that the search
for a free block sees the first byte of `nFiles` in a directory. A directory block
includes its `padding`: the entry one behind the last (the 18th) has its name there,
where read finds it (213), and its size and block beyond the block, where
nothing keeps them. `ReadFinds` searches it as the code does, `FindBlock` writes it.

`CS1550FS` has an action for each call, or for each part of `write` between
two accesses to `.disk`: `WriteNew` or `WriteOld` reads the directory, `FindBlock`
searches for a free block, `ReadBlock` reads it and copies the buffer in,
`WriteDir` and `WriteData` are the two writes. `mkdir` and `mknod` are one
action each: two calls of `mkdir` cannot overlap, since the kernel holds the
mutex of the root's inode, and calls that follow a `mknod` are not of interest.
The kernel also makes the writes to one file one after the other. `Fail` is an
`fwrite` that does not write its block and makes `write` return -1, taken as writing
nothing; of `fopen` and `fread` the code only prints the failure and goes on. `Stop` ends the
process anywhere; the state in memory is lost and nothing is repaired at the
next mount.

The code copes with none of a number of circumstances. The history
variable `trouble` collects those that have come about, and each property
excludes those, and only those, under which it breaks; with any one of them no
longer excluded TLC finds a counterexample (for `OneOwner` and "slots", a file
that has no entry to evaluate).

| in `trouble` | what has happened | breaks |
| --- | --- | --- |
| "race" | two calls had the same directory, or a free block, in their hands | `OneOwner`, `FilesStay` |
| "stop" | a stop, or a failed `fwrite`, between the directory and the data | `OneOwner` |
| "full" | a new file on a full disk, block -1 | `RootIntact`, `OneOwner`, `FilesStay` |
| "slots" | a new file in a full directory | `LookupsAgree`, `OneOwner` (read finds the file in the padding, without an entry), `FilesStay` (the next file takes the count back to 1) |
| "zero" | data that begins with a 0 | `OneOwner` |
| "mknod" | a call of `mknod` | `LookupsAgree`, `FilesStay` |
| "dirs" | more directories than blocks before the files | all but `RootIntact` |

The hazards in PROJECT.json name the line at which each of them bites.

With none of them the file system implements `FileStore`, in which a write
inside a file makes the file end with it (cs1550.c 1597: `fsize += size -
overage`), a write at the end is refused and nothing is ever removed. The
truncation is the code's; `FileStore` takes it as its specification because
nothing in the repository states another, and so does not judge it. That no size
exceeds a block follows from the test for room in `WriteBegins`, which
the code does not make: longer writes are not modelled (section 6).

## 3. Runs

| run | shows |
| --- | --- |
| `semaphore` | the promise itself: types, list and value agree, at most `NumResources` past `down`, nobody is overtaken, every sleeper is served |
| `kernel` | the kernel code implements `Semaphore` on three machines, with mutual exclusion in the critical sections and every call returning |
| `kernel_signals` | neither signals nor a `kmalloc` that fails break the list, and `up` never dequeues from an empty one |
| `process_queue` | the list is a FIFO and its nodes are exactly the live ones, although `tail` dangles |
| `traffic_safety` | mutual exclusion on the road, the exact balance of the tokens, the bounds of the lines, decisions on unprotected reads stay right, with any fork failing |
| `traffic_liveness` | there are as many crossings as arrivals on either road, the flagperson is woken, the northern producer goes on for ever; the southern line is a bounded FIFO whose cars all cross |
| `clock` | the Clock keeps the promise of `PagedMemory`, a page is never in two frames, a page that was referenced before the search is evicted only if all were, the search ends and needs at most one flush |
| `vmsim` | Opt, Aging and LRU evict the page their definition names as long as the code keeps to it, no write is lost, the dictionary of Opt agrees with the frames, Aging and Opt keep the promise of `PagedMemory` |
| `filesystem` | what stays true of the disk under each kind of trouble, and that without any it is a map from names to contents which each call changes in one step |

Violations, each a statement of the repository that the code does not keep:

| run | statement | what happens |
| --- | --- | --- |
| `kernel_up_kmalloc` | bounded_buffer.c:23, "wait and signal must be atomic" | on one CPU `kmalloc` sleeps in the critical section of `down`, another process enters its own |
| `kernel_signal_wakes` | bounded_buffer.c:15, `wait` stalls the caller while there is nothing to take | a signal ends the sleep, `down` returns without a resource |
| `traffic_south_stops` | trafficsim.c:252, the southern producer "runs forever" | nobody ever ups `south_sem_empty`; after `BUFFER_MAX` cars the producer sleeps for good |

`TokensAccounted` and `LinesBounded` say what the wrong semaphore of
line 405 does to the rest of the program: the southern cars' tokens feed the
northern producer, so at most `BUFFER_MAX` cars ever arrive in the south and the
northern line grows to at most twice its buffer (TLC reaches that length): the
northern cars in the overwritten slots never cross, and the cars that took
their slots cross twice. `CrossingsMatchArrivals` only counts, and holds on both
roads; which car crosses is stated of the southern line only, by `BoundedLine`.
No more than `BUFFER_MAX` cars ever come there, so no slot of its ring is used a
second time.

The flagperson may fall asleep with a car in line, because the counters are read
before the mutex is taken (325) and not again after it;
`HornWakesFlagperson` says that this never lasts.

One combination is left out of `MCMachines` on purpose: several CPUs, as many
spinning processes as CPUs, and a `kmalloc` that sleeps. The spinners then keep
the CPUs from the holder of `sem_lock`, and nothing moves any more. The kernel
forbids sleeping under a spin lock for this reason; sys.c 2410 does it.

### Bounds

* `semaphore`: five processes, two resources; three sleep at once, so order of
  service is observable.
* `kernel`: three processes, one resource: two on the list while the third is in
  `up`. Two processes already reach every statement.
* `kernel_signals`: `MaxSignals` = 2, one for each process that can sleep. Deadlock
  is not checked here: when `kmalloc` has failed, the others spin for ever.
* `process_queue`: two tasks, three addresses: an address is freed and handed
  out again while the stale `tail` still points at it.
* `traffic_*`: `BUFFER_MAX` = `LINE_LIMIT` = 2 (the source has 10 for both, as
  a macro and as a literal). The indices wrap, both conditions of the
  do-while occur, the tokens run out. `MaxCars` bounds the cars on each road: six
  in `traffic_safety`, enough to fill the northern line twice over; four in
  `traffic_liveness`. A producer at the bound behaves like one that draws "no
  car" for ever, so the bound adds no behaviour. `traffic_safety` does not
  check for deadlock: when the fork of both producers fails, or of all three
  children, the program really comes to an end of what can happen.

* `clock`: three frames, four pages, six accesses: enough for three accesses after
  the table is full, so that a hand that has moved, a frame left dirty and a flush
  meet in one search. The program stops at the end of its trace, so deadlock is
  not checked.

* `vmsim`: three frames, four pages, all traces of six accesses up to the
  names of the pages, as for the Clock: three accesses with a full table.
* `filesystem`: two threads, three directories of two files, two or three file
  blocks, five calls. That is enough to fill a directory and come round to its first
  slot (three files), to fill the disk, to make the directory that shares a block
  with a file (three), and to write a file twice. Blocks have five bytes, so
  that a file can grow, shrink and begin with a 0; the 0 that `write` puts one byte
  too far falls inside the block. `Payloads` has one buffer; a second
  one would only make the same blocks differ more. With these payloads and offsets
  a file is never shorter than the offset of a write by a call that follows: the branch of
  `WriteOld` for an offset behind the end is taken in the proofs (any offsets and
  payloads) and hardly in the run.

### Fairness

* `Semaphore`: whoever holds a resource gives it back (weak fairness of `Up`).
* `CS1550Sem`: the scheduler does not forget a runnable process (strong
  fairness of `Dispatch`: with fewer CPUs than processes it is not enabled all
  the time), ends the time slice of a process in user mode, memory is found in
  the end, and a process that gets the CPU again and again executes its
  statements (strong fairness of `SysCall`: spinning processes compete for
  `sem_lock`, whose spin lock is not a fair one by itself). The user of a
  resource calls `up`. A process outside is not forced to call `down`.
* `TrafficSim`: weak fairness for each of the three processes and `main`, the
  kernel's scheduling. No fairness is assumed of `carArrives`.

* `Clock`: a single process; weak fairness of `FindVictim` says that it runs on
  while it searches. The trace may end at any time.
* `VMSim` and `CS1550FS`: no liveness is stated. The simulator is one loop
  over the trace, and every call of the file system ends after a fixed number of
  steps; nothing in it waits.

## 4. Proofs

Every invariant, every action property and every refinement that a run checks is
also a theorem, for arbitrary constants; what stays with TLC is liveness. The
assumptions are those the modules name (`ConfigAssumption`, `SizeAssumption`,
`NumFramesAssumption`, `TracesAssumption`, `DiskAssumption`, `CallAssumption`,
...), which TLC evaluates on every run.

### Semaphores

`SemaphoreOpsProofs` has the two lemmas on lists: what is on a list of distinct
processes after `Enqueue` and `DequeueItem`.

`SemaphoreProofs`: for any finite set of processes and any number of resources.
The inductive invariant is `TypeOK /\ ListHoldsSleepers /\ ValueCounts`.
`AtMostNumResources` alone is not inductive: it does not say who will be woken.
`SemaphoreFifo` is an action property over the same invariant: a sleeper is
overtaken by nobody, because a list that is not empty means a negative value,
so that `down` puts the newcomer to sleep at the tail, and `up` takes the head.

`CS1550SemProofs`: for any number of processes, CPUs and resources. Types hold on
every machine. The rest assumes `LockEffective`, that each machine has either
spin locks that spin (`smp`) or a `kmalloc` that neither sleeps nor fails; without it
the run `kernel_up_kmalloc` shows the mutual exclusion broken. A process that `kmalloc`
has ended stays in the critical section: counted and `Unlisted`, it is "waiting" for
`Semaphore`, which it never leaves.

* `ExclInv` says who owns the critical section: the holder of `sem_lock` with
  several CPUs, whoever is on the CPU with one. `CS1550SemExclusive` follows.
* `ValueInv` gives the length of the list at each statement at which the value
  is already changed and the list is not yet; `CS1550SemListMatches` and
  `CS1550SemDequeues` follow, also with signals.
* `SleepInv`: whoever is asleep, or about to set its state, is on the list. It
  needs no hypothesis about signals, since a signal only wakes.
* `WaitInv` adds, for `MaxSignals` = 0, that nobody else is on the list, each once.
  With it `CS1550SemImplements` shows each statement to be a `Down`, an `Up` or
  a stutter of `Semaphore`. `PromisedListIs` says what the mapping makes
  of the list while one process is between the change of the value and that of the list.
  With a signal the refinement is false, as the run `kernel_signal_wakes` shows.
* `CS1550SemResources` carries `AtMostNumResources` over that mapping, by an
  instance of `SemaphoreProofs`.

### Process queue

`ProcessQueueProofs`: for any heap. The inductive invariant is that there is a
sequence `s` of distinct nodes (`InOrder(s)`) that are all the live ones, the
first of which is `head`, the last `tail`, each pointing to the next one. `Longer`
and `Shorter` are the witnesses after `Enqueue` and `Dequeue`. `Walk` says that
following `next` from `head` meets the nodes of `s` in this order: `WellFormed`
is stated of the walk. It is proved by the least index at which the two
would differ, because the library's induction theorems cannot be used here.
`QueueImplementsFifo` reads the contents off `s`.

### Traffic simulation

`TrafficSimProofs`: for any buffer size, limit and number of cars, and whatever
forks fail. `QInv` joins the type invariant, `ForkInv` (a process that is not
born is not asleep and main never sleeps) and `QueueInv` (each semaphore's list
has exactly the processes asleep in a `down` of it, each once, as many as its
negative value). `DownQueue`, `UpQueue` and `MoveQueue` show it kept by a call
of `down`, of `up`, and by any other step; each action then cites the one that
fits it. From it follow

* `TrafficSimType`,
* `TrafficSimImplementsSemaphore`: every step is a `Down`, an `Up` or a stutter
  of the abstract semaphore with one resource,
* `TrafficSimMutex`: the road is used by one process at a time. The added
  invariant `MutexInv` says that a value of 1 means nobody is between `down` and
  `up`; it is kept because a value that returns to 1 leaves the list empty,
  hence no sleeper.

What the four counting semaphores do: `TokensAccounted` and `FullCoversLine` are
inductive on top of `QInv`, which gives the types and where a forked child
starts; each action is one case, with `DownValue`, `UpValue` and `GotoLabel` for
what it changes. `CountInv` adds to `CrossesOnlyCars` that no line is longer
than its road's total. A negative value stands for one sleeper (`OneSleeper`:
nobody but road `r`'s producer waits at its empty semaphore, nobody but the
flagperson at a full one), and that sleeper is counted as pending
(`MissingIsPending`). So no sum of a value and what is pending on it is
negative, and `TrafficSimLines` follows by arithmetic: at most `BUFFER_MAX` cars
in all in the south, hence at most `2 * BUFFER_MAX` in the northern line.

`TrafficSimSouthImplementsLine`: because `LinesBounded` keeps the southern line
within its buffer, the slots from `readIndex` to `writeIndex` are the cars in line
(`CarsInRing`), and a new car overwrites none of them: as only `BUFFER_MAX` cars
ever come, the theorem does not depend on a reader that keeps up. Writing appends to that
sequence, crossing takes its head (`TailByIndex`); `Wraps` and `WrapsTwice` are
the arithmetic of the ring. This is the safety part of `SouthIsBoundedLine`.

### Virtual memory simulator

`ClockProofs`: for any number of frames, any pages and any trace. `PagesDistinct`
is not inductive: a free frame in front of the page's own would be taken.
`FilledInOrder` says that the frames in use come first, which holds because
`Evict` fills the victim's frame at once. `OneFlushSuffices` needs
`SearchProgress`: in the first round every frame the hand has passed (`Behind(i) <=
index`) is unreferenced, or the hand stays at an unreferenced dirty one; so at
the end of the round the frame at the hand is unreferenced, the daemon makes it
clean, and the second round takes it at once. `SecondChanceKept` needs `ClearedInOrder`:
every bit that is set was set when the search began, and the frames whose bits the
search has cleared lie one behind the other, from where the hand was then (`Cleared`,
`Behind`), so that a cleared frame comes to be evicted only when the hand has gone
all the way round, and then every frame had been referenced. `SearchIsNeeded` (all
frames are in use by other pages while a victim is sought) is a conjunct of the
invariant and no result of its own. `AdvanceInCircle` is the arithmetic
of the hand, `FirstIsFirst` the search of the table. For
`ClockImplementsPagedMemory`, `PagesOfTrace` and `RequestInTrace` say that
what is in the frames and what is searched for comes from the trace. The steps
of a search change no page and only `Flush` writes, so the whole
search becomes one fault of the abstract algorithm, at its end.

`VMSimProofs`: for any number of frames and any traces. First what one access
does to the table, algorithm by algorithm, is brought under one of three heads:
it `Hits` a frame, `Loads` free frames (two under LRU), or `Replaces` a
victim (`AccessMoves`). Only these are used afterwards. `SimInv` joins the types,
`FramesNumbered` (a frame has a page number exactly when it is in use; without
it a hit could find a page in a free frame), `OneFrameEach` and
`FastIndexAgrees`. Two properties need an invariant of their own, in which the
history variables meet the frames:

* `StampsTell`: under LRU no frame has a later stamp than the last read
  of its page, and the first frame of a page has that one. A page can be in two
  frames, of which only the first is stamped again, so the least stamp may belong
  to a page read just now; evicting one copy is then no loss of the page.
* `CountersRight`: under Opt the counter of every page not in `reused` is its
  `Distance`, the number of accesses before its next use, or more than are left, and
  no counter, of whatever page, is higher than the trace is long
  (`CountedDownBounded`). So a hit, which sets counters for the wrong page, spoils none
  but those of reused pages.

### File system

`CS1550FSProofs`: for any number of threads, directories, files and blocks, any
payloads and offsets. Five invariants, each resting on those before it; each
names the troubles under which it is claimed.

* `DiskInv` (types, root and entries): a name in the root has the block of its
  slot, an entry's block is one of the file section or -1, and the calls in
  progress have a directory, a slot and a block that fit. From it
  `FileSystemType` and `FileSystemRoot`. The type says among other things
  that no size exceeds a block and no seek leaves the disk.
* `PackedInv` and `SectionInv`: files fill the slots of a directory from the
  first without gap or double name, no more of them than there are slots, on the disk and
  in the hands of a call, so that read's search does not come to the padding (`PackedFinds`);
  directories and files stay in their sections of the disk. From it `FileSystemLookups`.
* `OwnerInv`: an entry, on the disk or in the hands of a call, is a *claim* to
  its block. Two claims to a block are the same slot of the same directory
  (`Disjoint`), and a claimed block does not look free, or its new data is about
  to be written (`Pending`). `OneOwner` alone is not inductive: it does not speak of
  the blocks that calls have chosen and not yet written. From it
  `FileSystemOwners`.
* `RaceInv`: no two threads have the same directory in their hands, and what
  a thread is about to write has every file the disk has. From it `FileSystemFilesStay`.
* `StoreInv`, for a disk without trouble: a directory in the hands of a call
  is the one on the disk but for the slot of the call's own file (`HandFits`),
  the data is the block with the buffer copied in (`DataFits`), and once the
  directory is written the file is there (`WrittenFits`). Together with the
  others this is `FsInv`.

`FileSystemImplementsStore` follows from `FsInv`. `SlotsApart` and `BlocksApart`
say that a call meets nobody's slot and nobody's block, hence what
is still to be written can count as written (`SettledTable`). Every step but two then
shows the same store (`SameStore`). `MkdirShows`: the directory is new and has
no file, for its block still holds zeros. `WriteDirShows`: all other files are
as before; the call's own file has, byte by byte (`WrittenBytes`, `Spliced`),
what it had before the offset, followed by the buffer.

### Model-checked only

Liveness: fairness and ENABLED are outside of the prover's reach. These are
`SleeperIsServed`, `EveryCallReturns`, `CrossingsMatchArrivals`,
`HornWakesFlagperson`, `NorthProducerGoesOn`, `EveryAccessServed`, and the
fairness conditions in `ImplementsSemaphore` and `SouthIsBoundedLine`, whose
safety parts are theorems. The type invariants of `Semaphore`, `CS1550Sem`,
`ProcessQueue`, `TrafficSim`, `Clock` and `VMSim` are theorems and not checked by a
run as well. The three expected violations are counterexamples and have no theorem.

## 5. Plan

1. *Done*: semaphore calls, process queue, traffic simulation, virtual memory
   simulator, file system, each against an abstract specification.
2. *Done*: the safety properties and the refinements of all of them as theorems.
3. Next: the reading calls of the file system against `FileStore` between the two
   writes of a `write` (cs1550.c 1466), with what `getattr` and `readdir` answer; the
   user-space samples `bounded_buffer.c` and `queue.c`.
4. Theorems after that: for the machines without `LockEffective` how far the list
   can drift from the value.

## 6. Not modelled

Most lines of `src/` are not the coursework's: FUSE 2.7.0 (library, kernel module,
examples), and two copies of the Linux file `sys.c`, of which lines 2383-2517
of one are the project's own. No part of these is modelled beyond what the
project's code uses of them, so the models stand for a small share of all lines
and for nearly all of the coursework's own code that keeps state.

* Graphics library (project 1): pixel arithmetic over a frame buffer and a
  terminal mode that is set and restored, in one process and in one order.
* Kernel registration of the system calls: tables of numbers.
* Samples beside project 2: exercises that no program uses. `prodcons_soln.c` is
  `BoundedLine`.
* Of the file system: the text of paths (`get_filepath`), the answers of
  `getattr` (it looks for the directory's name among the files, line 685, and
  for a file that is not there returns what `malloc` left), writes that do not
  fit into a block (they run over the stack), and what a `read` sees between the
  two writes of a `write`.
* Of the virtual memory simulator: the parsing of trace and arguments, and
  all output.

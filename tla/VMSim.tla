-------------------------------- MODULE VMSim --------------------------------
(***************************************************************************)
(* The virtual memory simulator with the algorithms whose every access is  *)
(* one step: vmsim.py takes one of them, and the trace it is to run.  (The *)
(* fourth, the Clock, has a module of its own.)                            *)
(***************************************************************************)
EXTENDS PageTable, Sequences

CONSTANT Traces   \* sequences of page numbers

ASSUME TracesAssumption ==
    \A trace \in Traces : trace \in Seq(Vpn) /\ Len(trace) <= MaxAccesses
ASSUME NoPageZero == 0 \notin Vpn   \* an unused frame has this number

VARIABLES algorithm, trace,
          table,       \* the frames
          rank,        \* what the algorithm orders them by: last_reference, aging_value
                       \* or instructions_until_next_reference
          fast_index,  \* used by Opt only
          page_faults, writes_to_disk, total_memory_accesses,
          last_read,   \* history: the access at which each page was last read
          written_in,  \* history: a page has come into memory by a write
          reused       \* history: the pages that were used again since they came in

simulator == <<table, rank, fast_index, page_faults, writes_to_disk, total_memory_accesses>>
vars == <<algorithm, trace, simulator, last_read, written_in, reused>>

UseLRU == INSTANCE LRU WITH last_reference <- rank
UseAging == INSTANCE Aging WITH aging_value <- rank
UseOpt == INSTANCE Opt WITH counters <- rank

Init == /\ algorithm \in {"opt", "aging", "lru"}
        /\ trace \in Traces
        /\ table = [i \in Ppn |-> NewFrame]
        /\ rank = [i \in Ppn |-> 0]
        /\ fast_index = [p \in {} |-> 0]
        /\ page_faults = 0 /\ writes_to_disk = 0 /\ total_memory_accesses = 0
        /\ last_read = [p \in Vpn |-> 0]
        /\ written_in = FALSE
        /\ reused = {}

Access(vpn, mode) ==
    \/ algorithm = "lru" /\ UseLRU!Access(vpn, mode) /\ UNCHANGED <<trace, fast_index>>
    \/ /\ algorithm = "aging"
       /\ \E tick \in BOOLEAN : UseAging!Access(vpn, mode, tick)
       /\ UNCHANGED <<trace, fast_index>>
    \/ algorithm = "opt" /\ UseOpt!Access(mode)

Next == \E mode \in Modes :
    /\ total_memory_accesses < Len(trace)
    /\ LET vpn == trace[total_memory_accesses + 1]
       IN  /\ Access(vpn, mode)
           /\ last_read' = IF mode = "R" THEN [last_read EXCEPT ![vpn] = total_memory_accesses + 1]
                                         ELSE last_read
           /\ written_in' = (written_in \/ (mode = "W" /\ page_faults' # page_faults))
           /\ reused' = IF page_faults' = page_faults THEN reused \union {vpn} ELSE reused \ {vpn}
    /\ UNCHANGED algorithm

Spec == Init /\ [][Next]_vars

-----------------------------------------------------------------------------
(* A page that was written stops being unsaved only when a frame of it is  *)
(* written to disk, and that is counted; under LRU too, which may have the *)
(* page in two frames.                                                     *)
WritesNotLost ==
    [][Cardinality(Unsaved(table) \ Unsaved(table')) <= writes_to_disk' - writes_to_disk]_vars

Leaving == Resident(table) \ Resident(table')

(* "Do exact LRU": the page that leaves is the one whose last read is the  *)
(* longest ago, as long as pages come into memory by reads.  (A write does *)
(* not count as a use, and a page that comes in by one has the stamp of    *)
(* the page before it.)                                                    *)
LeastRecentlyRead ==
    [][algorithm = "lru" /\ ~written_in =>
          \A p \in Leaving, q \in Resident(table) : last_read[p] <= last_read[q]]_vars

(* How long a page will not be used, from the next access on. *)
NextUse(p) ==
    LET later == {j \in total_memory_accesses + 1..Len(trace) : trace[j] = p}
    IN  IF later = {} THEN Len(trace) + 1 ELSE First(later)

(* Among the pages that have not been used since they came in, the one     *)
(* that leaves is not needed for the longest time, whatever hits of other  *)
(* pages lie between.  (The counter of a page that was used again may have *)
(* been set for another page.)                                             *)
FarthestInFuture ==
    [][algorithm = "opt" =>
          \A p \in Leaving \ reused, q \in Resident(table) \ reused : NextUse(q) <= NextUse(p)]_vars

(* The dictionary of Opt has the pages in memory and where they are, each  *)
(* in one frame.                                                           *)
FastIndexAgrees ==
    algorithm = "opt" =>
        /\ DOMAIN fast_index = Resident(table)
        /\ \A i \in InUse(table) : fast_index[table[i].VPN] = i

(* Aging and Opt keep the promise of a page replacement algorithm.  (LRU   *)
(* does not: it may write a page to disk once for each of its frames.)     *)
Promising(value, otherwise) == IF algorithm = "lru" THEN otherwise ELSE value

Memory == INSTANCE PagedMemory
    WITH resident <- Promising(Resident(table), {}), unsaved <- Promising(Unsaved(table), {}),
         page_faults <- Promising(page_faults, 0), writes_to_disk <- Promising(writes_to_disk, 0)

ImplementsPagedMemory == Memory!Spec
=============================================================================

-------------------------------- MODULE Clock --------------------------------
(***************************************************************************)
(* The Clock algorithm of the virtual memory simulator (clock.py and       *)
(* circularQueue.py), one action per step of its hand, so that the search  *)
(* for a victim and its "while victim_frame is None" can be seen to end.   *)
(***************************************************************************)
EXTENDS PageTable

VARIABLES list,     \* the frames of the circular queue
          pointer,  \* its hand
          index,    \* how many frames find_victim has looked at
          pc,       \* the next step
          request,  \* the access that is being served
          flushes,  \* how often the swap daemon has run for it, counted up to 2
          referenced, \* history: the frames whose page was referenced when the
                      \* last search began; no step of the program depends on it
          page_faults, writes_to_disk, total_memory_accesses

counters == <<page_faults, writes_to_disk, total_memory_accesses>>
vars == <<list, pointer, index, pc, request, flushes, referenced, counters>>

-----------------------------------------------------------------------------
(* Mutants: a swap daemon that writes and does not count, or that cleans   *)
(* nothing; an update that does not look for the page among the frames in  *)
(* use; a hand that takes the second chance of a page and stays on it.     *)
Flush_count_lost ==
    /\ pc = "flush"
    /\ list' = [i \in Ppn |-> IF list[i].dirty /\ ~list[i].reference
                                THEN [list[i] EXCEPT !.dirty = FALSE] ELSE list[i]]
    /\ pc' = "find_victim" /\ index' = 0
    /\ flushes' = 1
    /\ UNCHANGED <<pointer, request, referenced, counters>>

Flush_cleans_nothing ==
    /\ pc = "flush"
    /\ pc' = "find_victim" /\ index' = 0
    /\ flushes' = IF flushes = 0 THEN 1 ELSE 2
    /\ UNCHANGED <<list, pointer, request, referenced, counters>>

SecondChance_hand_stays ==
    /\ pc = "find_victim" /\ index < NumFrames /\ list[pointer].reference
    /\ list' = [list EXCEPT ![pointer].reference = FALSE]
    /\ index' = index + 1
    /\ UNCHANGED <<pointer, pc, request, referenced, flushes, counters>>

Usable_in_use_only(table, vpn) == {i \in Ppn : ~table[i].in_use}

-----------------------------------------------------------------------------
(* The frames that add_or_update_successful can use for a page; it takes   *)
(* the first.                                                              *)
Usable(table, vpn) == {i \in Ppn : ~table[i].in_use \/ table[i].VPN = vpn}

AddedOrUpdated(table, vpn, mode) ==
    [table EXCEPT ![First(Usable(table, vpn))] = Marked(Used(@, vpn), mode)]

Init == /\ list = [i \in Ppn |-> NewFrame]
        /\ pointer = 0 /\ index = 0
        /\ pc = "next"
        /\ request = [vpn |-> 0, mode |-> "R"]
        /\ flushes = 0 /\ referenced = {}
        /\ page_faults = 0 /\ writes_to_disk = 0 /\ total_memory_accesses = 0

(* The next access finds its page or a free frame: add_or_update_page      *)
(* calls both of them a hit.                                               *)
AddOrUpdate(vpn, mode) ==
    /\ pc = "next" /\ total_memory_accesses < MaxAccesses
    /\ Usable(list, vpn) # {}
    /\ list' = AddedOrUpdated(list, vpn, mode)
    /\ total_memory_accesses' = total_memory_accesses + 1
    /\ UNCHANGED <<pointer, index, pc, request, referenced, flushes, page_faults, writes_to_disk>>

(* It finds neither: a page fault, and the search for a victim begins. *)
PageFault(vpn, mode) ==
    /\ pc = "next" /\ total_memory_accesses < MaxAccesses
    /\ Usable(list, vpn) = {}
    /\ page_faults' = page_faults + 1
    /\ request' = [vpn |-> vpn, mode |-> mode]
    /\ pc' = "find_victim" /\ index' = 0 /\ flushes' = 0
    /\ referenced' = {i \in Ppn : list[i].reference}
    /\ UNCHANGED <<list, pointer, writes_to_disk, total_memory_accesses>>

(* The hand moves on, round the circle. *)
Advance == (pointer + 1) % NumFrames

(* One round of the loop of find_victim: the page under the hand has been  *)
(* referenced and gets a second chance; or it is dirty and only skipped,   *)
(* with the hand staying where it is.                                      *)
SecondChance ==
    /\ pc = "find_victim" /\ index < NumFrames /\ list[pointer].reference
    /\ list' = [list EXCEPT ![pointer].reference = FALSE]
    /\ pointer' = Advance
    /\ index' = index + 1
    /\ UNCHANGED <<pc, request, referenced, flushes, counters>>

SkipDirty ==
    /\ pc = "find_victim" /\ index < NumFrames
    /\ ~list[pointer].reference /\ list[pointer].dirty
    /\ index' = index + 1
    /\ UNCHANGED <<list, pointer, pc, request, referenced, flushes, counters>>

(* Or it is the victim: it is removed, and the access tried again. *)
Evict ==
    /\ pc = "find_victim" /\ index < NumFrames
    /\ ~list[pointer].reference /\ ~list[pointer].dirty
    /\ list' = AddedOrUpdated([list EXCEPT ![pointer] = Removed(@)], request.vpn, request.mode)
    /\ pc' = "next"
    /\ total_memory_accesses' = total_memory_accesses + 1
    /\ UNCHANGED <<pointer, index, request, referenced, flushes, page_faults, writes_to_disk>>

(* find_victim returns None. *)
NoVictim ==
    /\ pc = "find_victim" /\ index = NumFrames
    /\ pc' = "flush"
    /\ UNCHANGED <<list, pointer, index, request, referenced, flushes, counters>>

(* flush_dirty_and_unreferenced_pages, and find_victim is called again. *)
Flush ==
    LET toFlush == {i \in Ppn : list[i].dirty /\ ~list[i].reference}
    IN  /\ pc = "flush"
        /\ list' = [i \in Ppn |-> IF i \in toFlush THEN [list[i] EXCEPT !.dirty = FALSE]
                                                   ELSE list[i]]
        /\ writes_to_disk' = writes_to_disk + Cardinality(toFlush)
        /\ pc' = "find_victim" /\ index' = 0
        /\ flushes' = IF flushes = 0 THEN 1 ELSE 2
        /\ UNCHANGED <<pointer, request, referenced, page_faults, total_memory_accesses>>

FindVictim == SecondChance \/ SkipDirty \/ Evict \/ NoVictim \/ Flush

NextAddress == \E vpn \in Vpn, mode \in Modes : AddOrUpdate(vpn, mode) \/ PageFault(vpn, mode)

Next == NextAddress \/ FindVictim

Spec == Init /\ [][Next]_vars

(* The program runs on while it searches. *)
FairSpec == Spec /\ WF_vars(FindVictim)

-----------------------------------------------------------------------------
(* Type invariant.  The hand stays on the circle, which is more than what  *)
(* find_victim asserts (line 73).                                          *)
TypeOK ==
    /\ list \in [Ppn -> Frame]
    /\ pointer \in Ppn
    /\ index \in 0..NumFrames
    /\ pc \in {"next", "find_victim", "flush"}
    /\ request \in [vpn : Vpn \union {0}, mode : Modes]
    /\ flushes \in 0..2
    /\ referenced \subseteq Ppn
    /\ page_faults \in Nat /\ writes_to_disk \in Nat /\ total_memory_accesses \in Nat

(* No page is in two frames, where one of them could miss a write. *)
PagesDistinct ==
    \A i, j \in InUse(list) : list[i].VPN = list[j].VPN => i = j

(* The second chance: a page that was referenced when the search began     *)
(* leaves its frame only if every page was.  The hand clears the bits as   *)
(* it goes, stays at a dirty page, and find_victim is called again after   *)
(* the swap daemon (circularQueue.py:57-80): by then the bits do not tell  *)
(* any more which pages had been referenced.                               *)
SecondChanceKept ==
    [][pc # "next" => \A i \in referenced : list'[i].VPN # list[i].VPN => referenced = Ppn]_vars

(* "then get a victim page, since there must be one now that we've         *)
(* flushed": the swap daemon runs once for a page fault and not again.     *)
OneFlushSuffices == flushes <= 1 /\ (pc = "flush" => flushes = 0)

(* The search for a victim ends, and the access is served. *)
EveryAccessServed == pc # "next" ~> pc = "next"

(* The Clock keeps the promise of a page replacement algorithm.  The fault *)
(* is counted when the search begins; the abstract one when it ends.       *)
Memory == INSTANCE PagedMemory
    WITH resident <- Resident(list), unsaved <- Unsaved(list),
         page_faults <- page_faults - (IF pc = "next" THEN 0 ELSE 1)

ImplementsPagedMemory == Memory!Spec
=============================================================================

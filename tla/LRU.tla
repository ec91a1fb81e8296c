--------------------------------- MODULE LRU ---------------------------------
(***************************************************************************)
(* The algorithm LRU of the virtual memory simulator (lru.py), one action  *)
(* for an access of each kind.                                             *)
(***************************************************************************)
EXTENDS PageTable

VARIABLES table,           \* frame_list
          last_reference,  \* of each frame, the number of the access that last read it
          page_faults, writes_to_disk, total_memory_accesses

(* Mutant: the frame with the highest stamp is evicted. *)
Victim_highest ==
    First({i \in Ppn : \A j \in Ppn : last_reference[i] >= last_reference[j]})

-----------------------------------------------------------------------------
(* Frames and their stamps, as the steps of one access pass them on. *)
Memory == [frames |-> table, stamps |-> last_reference]

(* A page comes into a frame, or is found there: a write makes the frame   *)
(* dirty, and only a read stamps it.                                       *)
Touched(m, i, vpn, mode) ==
    IF mode = "W"
      THEN [m EXCEPT !.frames[i] = [Used(@, vpn) EXCEPT !.dirty = TRUE]]
      ELSE [m EXCEPT !.frames[i] = Used(@, vpn), !.stamps[i] = total_memory_accesses]

(* add_after_page_fault: into the first free frame, if there is one.       *)
AddedAfterPageFault(m, vpn, mode) ==
    LET free == {i \in Ppn : ~m.frames[i].in_use}
    IN  IF free = {} THEN m ELSE Touched(m, First(free), vpn, mode)

(* evict_page: the first frame with the lowest stamp.                      *)
Victim == First({i \in Ppn : \A j \in Ppn : last_reference[i] <= last_reference[j]})

Evicted(m, i) == [m EXCEPT !.frames[i] = Removed(@)]

Becomes(m) ==
    /\ table' = m.frames /\ last_reference' = m.stamps
    /\ total_memory_accesses' = total_memory_accesses + 1

(* A hit is a frame with the page's number, in use or not.                 *)
Found(vpn) == {i \in Ppn : table[i].VPN = vpn}

Hit(vpn, mode) ==
    /\ Found(vpn) # {}
    /\ Becomes(Touched(Memory, First(Found(vpn)), vpn, mode))
    /\ UNCHANGED <<page_faults, writes_to_disk>>

(* The page is added when the hit is not found, and once more when that is *)
(* reported: it comes into two frames if two are free.                     *)
Load(vpn, mode) ==
    /\ Found(vpn) = {} /\ InUse(table) # Ppn
    /\ Becomes(AddedAfterPageFault(AddedAfterPageFault(Memory, vpn, mode), vpn, mode))
    /\ page_faults' = page_faults + 1
    /\ UNCHANGED writes_to_disk

Replace(vpn, mode) ==
    /\ Found(vpn) = {} /\ InUse(table) = Ppn
    /\ Becomes(AddedAfterPageFault(Evicted(Memory, Victim), vpn, mode))
    /\ page_faults' = page_faults + 1
    /\ writes_to_disk' = writes_to_disk + (IF table[Victim].dirty THEN 1 ELSE 0)

Access(vpn, mode) == Hit(vpn, mode) \/ Load(vpn, mode) \/ Replace(vpn, mode)
=============================================================================

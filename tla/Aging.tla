-------------------------------- MODULE Aging --------------------------------
(***************************************************************************)
(* The algorithm Aging of the virtual memory simulator (aging.py).  Before *)
(* an access the processor time may have passed the refresh rate since the *)
(* last refresh, or not: tick tells which.                                 *)
(***************************************************************************)
EXTENDS PageTable

VARIABLES table,        \* frame_queue
          aging_value,  \* of each frame, 8 bits
          page_faults, writes_to_disk, total_memory_accesses

-----------------------------------------------------------------------------
MSB == 128   \* 1 << 7

(* age_and_mark_if_referenced_during_last_tick *)
Aged(tick) ==
    IF tick THEN [i \in Ppn |-> aging_value[i] \div 2 + (IF table[i].reference THEN MSB ELSE 0)]
            ELSE aging_value

(* collect_data_on_references_during_this_tick resets the reference bits.  *)
Refreshed(tick) ==
    IF tick THEN [i \in Ppn |-> [table[i] EXCEPT !.reference = FALSE]] ELSE table

Becomes(frames, tick) ==
    /\ table' = frames /\ aging_value' = Aged(tick)
    /\ total_memory_accesses' = total_memory_accesses + 1

(* A hit is a frame with the page's number, in use or not. *)
Found(vpn) == {i \in Ppn : table[i].VPN = vpn}

Hit(vpn, mode, tick) ==
    /\ Found(vpn) # {}
    /\ Becomes([Refreshed(tick) EXCEPT ![First(Found(vpn))] = Marked(@, mode)], tick)
    /\ UNCHANGED <<page_faults, writes_to_disk>>

Load(vpn, mode, tick) ==
    LET i == First(Ppn \ InUse(table))
    IN  /\ Found(vpn) = {} /\ InUse(table) # Ppn
        /\ Becomes([Refreshed(tick) EXCEPT ![i] = Marked(Used(@, vpn), mode)], tick)
        /\ page_faults' = page_faults + 1
        /\ UNCHANGED writes_to_disk

(* The first frame with the lowest value is evicted, and the page takes it *)
(* over with that value and the reference bit.                             *)
Victim(tick) == First({i \in Ppn : \A j \in Ppn : Aged(tick)[i] <= Aged(tick)[j]})

(* Mutant: the disk write of a dirty victim is left out.                   *)
Replace_write_lost(vpn, mode, tick) ==
    LET i == Victim(tick)
    IN  /\ Found(vpn) = {} /\ InUse(table) = Ppn
        /\ Becomes([Refreshed(tick) EXCEPT ![i] = Marked(Used(Removed(@), vpn), mode)], tick)
        /\ page_faults' = page_faults + 1
        /\ UNCHANGED writes_to_disk

Replace(vpn, mode, tick) ==
    LET i == Victim(tick)
    IN  /\ Found(vpn) = {} /\ InUse(table) = Ppn
        /\ Becomes([Refreshed(tick) EXCEPT ![i] = Marked(Used(Removed(@), vpn), mode)], tick)
        /\ page_faults' = page_faults + 1
        /\ writes_to_disk' = writes_to_disk + (IF table[i].dirty THEN 1 ELSE 0)

Access(vpn, mode, tick) ==
    Hit(vpn, mode, tick) \/ Load(vpn, mode, tick) \/ Replace(vpn, mode, tick)
=============================================================================

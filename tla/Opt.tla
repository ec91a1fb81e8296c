--------------------------------- MODULE Opt ---------------------------------
(***************************************************************************)
(* The algorithm Opt of the virtual memory simulator (opt.py), which knows *)
(* the whole trace.  Each frame has a counter, set when its page comes in  *)
(* and counted down with every access.                                     *)
(***************************************************************************)
EXTENDS PageTable, Sequences

VARIABLES trace,       \* the page numbers of all accesses, the past ones included
          table,       \* frame_table
          counters,    \* instructions_until_next_reference of each frame
          fast_index,  \* the frames of the pages in memory: a dictionary
          page_faults, writes_to_disk, total_memory_accesses

(* Mutants: the victim is the frame that is needed first; the dictionary   *)
(* keeps the page that has left.                                           *)
Victim_least(left) == First({i \in Ppn : \A j \in Ppn : left[i] <= left[j]})

Unindexed_not(vpn) == fast_index

-----------------------------------------------------------------------------
Current == trace[total_memory_accesses + 1]
Rest == total_memory_accesses + 2..Len(trace)

(* find_time_until_next_access of the page of this access: how many others *)
(* lie between, or more than are left if it is the last one.               *)
TimeUntilNextAccess ==
    LET later == {j \in Rest : trace[j] = Current}
    IN  IF later = {} THEN Cardinality(Rest) + 1
                      ELSE First(later) - (total_memory_accesses + 2)

(* update_counters.  A counter that has run out is set to what is right    *)
(* for the page of this access, whatever page the frame holds.             *)
CountedDown ==
    [i \in Ppn |-> IF ~table[i].in_use THEN counters[i]
                   ELSE IF counters[i] - 1 < -1 THEN TimeUntilNextAccess
                   ELSE counters[i] - 1]

Becomes(frames, left) ==
    /\ table' = frames /\ counters' = left
    /\ total_memory_accesses' = total_memory_accesses + 1
    /\ UNCHANGED trace

(* The page is in memory; the last frame with its number gets the write.   *)
Hit(mode) ==
    LET i == CHOOSE i \in Ppn : /\ table[i].VPN = Current
                                /\ \A j \in Ppn : table[j].VPN = Current => j <= i
    IN  /\ Current \in DOMAIN fast_index
        /\ Becomes(IF mode = "W" THEN [table EXCEPT ![i].dirty = TRUE] ELSE table, CountedDown)
        /\ UNCHANGED <<fast_index, page_faults, writes_to_disk>>

(* The page comes into frame i.                                            *)
Added(i, mode) ==
    /\ Becomes([table EXCEPT ![i] = [Used(@, Current) EXCEPT !.dirty = mode = "W"]],
               [CountedDown EXCEPT ![i] = TimeUntilNextAccess])
    /\ page_faults' = page_faults + 1

Indexed(index, vpn, i) == [p \in DOMAIN index \union {vpn} |-> IF p = vpn THEN i ELSE index[p]]
Unindexed(vpn) == [p \in DOMAIN fast_index \ {vpn} |-> fast_index[p]]

Load(mode) ==
    LET i == First(Ppn \ InUse(table))
    IN  /\ Current \notin DOMAIN fast_index /\ InUse(table) # Ppn
        /\ Added(i, mode)
        /\ fast_index' = Indexed(fast_index, Current, i)
        /\ UNCHANGED writes_to_disk

(* The first frame with the highest counter above 0, or frame 0.           *)
Victim(left) ==
    LET most == {i \in Ppn : left[i] > 0 /\ \A j \in Ppn : left[j] <= left[i]}
    IN  IF most = {} THEN 0 ELSE First(most)

Replace(mode) ==
    LET i == Victim(CountedDown)
    IN  /\ Current \notin DOMAIN fast_index /\ InUse(table) = Ppn
        /\ Added(i, mode)
        /\ fast_index' = Indexed(Unindexed(table[i].VPN), Current, i)
        /\ writes_to_disk' = writes_to_disk + (IF table[i].dirty THEN 1 ELSE 0)

Access(mode) == Hit(mode) \/ Load(mode) \/ Replace(mode)
=============================================================================

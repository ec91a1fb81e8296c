----------------------------- MODULE PagedMemory -----------------------------
(***************************************************************************)
(* The abstract specification of the virtual memory simulator: what any    *)
(* page replacement algorithm promises.  There are NumFrames frames; a     *)
(* page is in one of them or not in memory; a page that was written to     *)
(* leaves memory, or becomes clean, only with a write to disk that is      *)
(* counted; replacing a page is a counted page fault and a hit never is.   *)
(* (Whether bringing a page into a free frame counts is left open: the     *)
(* Clock calls it a hit, the others a fault.)                              *)
(***************************************************************************)
EXTENDS Integers, FiniteSets

CONSTANTS NumFrames, Vpn

VARIABLES resident,       \* the pages in memory
          unsaved,        \* those that differ from their copy on disk
          page_faults,    \* the counters the simulator prints
          writes_to_disk

vars == <<resident, unsaved, page_faults, writes_to_disk>>

Init == /\ resident = {} /\ unsaved = {}
        /\ page_faults = 0 /\ writes_to_disk = 0

(* The page vpn, which is in memory, is read or written. *)
Hit(vpn, written) ==
    /\ vpn \in resident
    /\ unsaved' = unsaved \union written
    /\ UNCHANGED <<resident, page_faults, writes_to_disk>>

(* It comes into a free frame. *)
Load(vpn, written) ==
    /\ vpn \notin resident /\ Cardinality(resident) < NumFrames
    /\ resident' = resident \union {vpn}
    /\ unsaved' = unsaved \union written
    /\ page_faults' \in {page_faults, page_faults + 1}
    /\ UNCHANGED writes_to_disk

(* It takes the frame of a victim, which is saved first if need be. *)
Replace(victim, vpn, written) ==
    /\ victim \in resident /\ vpn \notin resident /\ Cardinality(resident) = NumFrames
    /\ resident' = (resident \ {victim}) \union {vpn}
    /\ unsaved' = (unsaved \ {victim}) \union written
    /\ page_faults' = page_faults + 1
    /\ writes_to_disk' = writes_to_disk + (IF victim \in unsaved THEN 1 ELSE 0)

(* A set of pages is written to disk and stays in memory. *)
WriteBack(pages) ==
    /\ pages \subseteq unsaved
    /\ unsaved' = unsaved \ pages
    /\ writes_to_disk' = writes_to_disk + Cardinality(pages)
    /\ UNCHANGED <<resident, page_faults>>

Next ==
    \/ \E pages \in SUBSET Vpn : WriteBack(pages)
    \/ \E vpn \in Vpn : \E written \in {{}, {vpn}} :
          \/ Hit(vpn, written) \/ Load(vpn, written)
          \/ \E victim \in Vpn : Replace(victim, vpn, written)

Spec == Init /\ [][Next]_vars
=============================================================================

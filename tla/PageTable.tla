------------------------------ MODULE PageTable ------------------------------
(***************************************************************************)
(* The frames of the virtual memory simulator (pageTable.py) and what its  *)
(* replacement algorithms do to a single one of them.  A frame is a record *)
(* with those fields of the class Frame that an algorithm reads; a table   *)
(* is a function from the physical page numbers 0, 1, ... to frames.       *)
(*                                                                         *)
(* A memory access of the trace is a virtual page number and "R" or "W".   *)
(* parseInput.py and get_VPN make the page number from the text of the     *)
(* trace; only whether two of them are equal, and whether one is 0, is     *)
(* ever looked at.                                                         *)
(***************************************************************************)
EXTENDS Integers, FiniteSets

CONSTANTS NumFrames,   \* num_frames, the argument -n of vmsim.py
          Vpn,         \* the virtual page numbers of the trace
          MaxAccesses  \* bound on the length of the trace

ASSUME NumFramesAssumption == NumFrames \in Nat \ {0}
ASSUME VpnAssumption == Vpn \subseteq Nat
ASSUME MaxAccessesAssumption == MaxAccesses \in Nat

Ppn == 0..NumFrames - 1
Modes == {"R", "W"}

(* Frame.__init__: the page number of a frame that was never used is 0. *)
NewFrame == [VPN |-> 0, in_use |-> FALSE, dirty |-> FALSE, reference |-> FALSE]

Frame == [VPN : Vpn \union {0}, in_use : BOOLEAN, dirty : BOOLEAN, reference : BOOLEAN]

(* What the algorithms do to a frame that they put a page into. *)
Used(f, vpn) == [f EXCEPT !.in_use = TRUE, !.VPN = vpn]

(* "if we're doing a write, need to set dirty bit; if we're not writing,   *)
(* then we're reading, and so we need to set the reference bit"            *)
Marked(f, mode) ==
    IF mode = "W" THEN [f EXCEPT !.dirty = TRUE] ELSE [f EXCEPT !.reference = TRUE]

(* remove(ppn).  It assigns to `referenced' and `vpn', fields that no      *)
(* frame has: reference and VPN keep their values.                         *)
Removed(f) == [f EXCEPT !.in_use = FALSE, !.dirty = FALSE]

-----------------------------------------------------------------------------
(* The frames and pages of a table. *)

InUse(table) == {i \in Ppn : table[i].in_use}

Resident(table) == {table[i].VPN : i \in InUse(table)}

(* The pages in memory that differ from their copy on disk. *)
Unsaved(table) == {table[i].VPN : i \in {j \in InUse(table) : table[j].dirty}}

(* The first of some physical page numbers.                                *)
First(S) == CHOOSE i \in S : \A j \in S : i <= j
=============================================================================

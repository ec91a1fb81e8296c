----------------------------- MODULE BoundedLine -----------------------------
(***************************************************************************)
(* The abstract specification of one road: what the producer/consumer      *)
(* scheme the traffic simulation follows (prodcons_soln.c) promises.  The  *)
(* cars of a road queue in a line that never holds more than Capacity of   *)
(* them, and cross in the order in which they arrived, none lost and none  *)
(* twice.                                                                  *)
(***************************************************************************)
EXTENDS Naturals, Sequences

CONSTANT Capacity   \* prodcons_soln.c: the initial value of `empty'

VARIABLES line,   \* the numbers of the cars in line, the first to cross first
          total   \* how many cars have arrived; the number of the next one

vars == <<line, total>>

Init == line = <<>> /\ total = 0

(* insert_item *)
Arrive == /\ Len(line) < Capacity
          /\ line' = Append(line, total)
          /\ total' = total + 1

(* remove_item *)
Cross == /\ line # <<>>
         /\ line' = Tail(line)
         /\ UNCHANGED total

Next == Arrive \/ Cross

Spec == Init /\ [][Next]_vars

(* A car at the head of the line crosses in the end. *)
FairSpec == Spec /\ WF_vars(Cross)
=============================================================================

------------------------------- MODULE MCClock -------------------------------
(***************************************************************************)
(* The Clock on a table of three frames and a trace of six accesses to     *)
(* four pages, one of them page 0: the frames fill up, two pages at least  *)
(* have to leave, and the swap daemon runs for the one or the other.       *)
(***************************************************************************)
EXTENDS Clock

MCVpn == {0, 1, 2, 3}
=============================================================================

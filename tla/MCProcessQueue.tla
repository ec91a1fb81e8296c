--------------------------- MODULE MCProcessQueue ---------------------------
(* ProcessQueue for TLC: the freed addresses are soon handed out again, so  *)
(* that the dangling tail points at a live node of the next generation.     *)
EXTENDS ProcessQueue

CONSTANTS t1, t2, a1, a2, a3

MCTask == {t1, t2}
MCAddr == {a1, a2, a3}
=============================================================================

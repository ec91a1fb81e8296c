---------------------------- MODULE MCTrafficSim ----------------------------
(* TrafficSim for TLC.  The source has BUFFER_MAX = LINE_LIMIT = 10; small  *)
(* instances keep the two equal.                                            *)
EXTENDS TrafficSim

MCNoForkFails == {}
MCAnyForkFails == Children
=============================================================================

----------------------------- MODULE MCSemaphore -----------------------------
(* Semaphore for TLC: five processes share a pool of two resources, so that *)
(* up to three of them are on the process_list at once.                     *)
EXTENDS Semaphore, TLC

CONSTANTS p1, p2, p3, p4, p5

MCProc == {p1, p2, p3, p4, p5}
MCNumResources == 2
=============================================================================

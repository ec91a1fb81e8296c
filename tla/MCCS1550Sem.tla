----------------------------- MODULE MCCS1550Sem -----------------------------
(* CS1550Sem for TLC: three processes share one resource, so that two of   *)
(* them can be on the process_list while the third calls up.               *)
EXTENDS CS1550Sem

CONSTANTS p1, p2, p3

MCProc == {p1, p2, p3}
MCNumResources == 1

Machine(ncpu, smp, kmallocSleeps) ==
    [ncpu |-> ncpu, smp |-> smp, kmallocSleeps |-> kmallocSleeps,
     kmallocFails |-> FALSE]

(* A CPU for every process, whether or not it sleeps for memory. *)
MCThreeCPUs == {Machine(3, TRUE, TRUE)}

(* The same, and one that may also run out of memory. *)
MCThreeCPUsKmallocFails ==
    {[m EXCEPT !.kmallocFails = fails] : m \in MCThreeCPUs, fails \in BOOLEAN}

(* A kernel for one CPU, on which kmalloc sleeps. *)
MCOneCPUKmallocSleeps == {Machine(1, FALSE, TRUE)}

(* The machines on which the calls keep their promise: besides the above,  *)
(* two CPUs for three processes and a kernel for one CPU, both with enough *)
(* memory for kmalloc to return at once.                                   *)
MCMachines == MCThreeCPUs \union {Machine(2, TRUE, FALSE), Machine(1, FALSE, FALSE)}
=============================================================================

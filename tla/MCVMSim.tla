------------------------------- MODULE MCVMSim -------------------------------
(***************************************************************************)
(* The simulator with three frames over every trace of six accesses to     *)
(* four pages: three accesses are left when the table is full.             *)
(***************************************************************************)
EXTENDS VMSim

MCVpn == 1..4

(* Pages are only compared with each other, so a trace stands for all that *)
(* name them differently: the pages come in the order of their numbers.    *)
MCTraces ==
    {t \in [1..MaxAccesses -> MCVpn] :
        \A i \in 1..MaxAccesses : t[i] = 1 \/ \E j \in 1..i - 1 : t[j] >= t[i] - 1}
=============================================================================

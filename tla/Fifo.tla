-------------------------------- MODULE Fifo --------------------------------
(***************************************************************************)
(* The abstract specification of the process queue of sys.c: a sequence of *)
(* processes, first in, first out.                                         *)
(***************************************************************************)
EXTENDS Naturals, Sequences

CONSTANT Item

VARIABLE list

Init == list = <<>>

Put(x) == list' = Append(list, x)
Take   == list # <<>> /\ list' = Tail(list)

Next == Take \/ \E x \in Item : Put(x)

Spec == Init /\ [][Next]_list
=============================================================================

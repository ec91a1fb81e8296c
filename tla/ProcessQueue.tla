---------------------------- MODULE ProcessQueue ----------------------------
(***************************************************************************)
(* The linked list of sys.c in which a semaphore keeps its sleepers, node  *)
(* by node: `head' and `tail' point into a heap of nodes that kmalloc and  *)
(* kfree hand out, take back and hand out again.  dequeue frees the head   *)
(* node and leaves `tail' alone, so that after the last dequeue the tail   *)
(* points at freed memory.                                                 *)
(*                                                                         *)
(* The callers, sys_cs1550_down and sys_cs1550_up, hold sem_lock, and up   *)
(* dequeues only when the value says that a process is listed; both calls  *)
(* are therefore one action each, and Dequeue has a list to work on.       *)
(***************************************************************************)
EXTENDS Integers, Sequences

CONSTANTS Task,   \* the task_structs
          Addr,   \* the addresses kmalloc can return
          NULL    \* the null pointer

ASSUME NullAssumption == NULL \notin Addr /\ NULL \notin Task

VARIABLES head, tail, size,   \* struct Queue
          item, next,         \* the fields of the node at each address
          allocated           \* the addresses of live nodes

vars == <<head, tail, size, item, next, allocated>>

-----------------------------------------------------------------------------
(* Mutants: enqueue tells by its tail that the list is empty; the next     *)
(* pointer of a new node, which kmalloc does not clear, is left as it is.  *)

IsEmpty_by_tail == tail = NULL

NextOfNew_uncleared(n) == next[n]

-----------------------------------------------------------------------------
(* initializeQueue; kmalloc does not clear what it returns, but every node *)
(* of this model has been written before it is read.                       *)
Init == /\ head = NULL /\ tail = NULL /\ size = 0
        /\ item = [a \in Addr |-> NULL]
        /\ next = [a \in Addr |-> NULL]
        /\ allocated = {}

(* if (q->head == NULL) *)
IsEmpty == head = NULL

(* n->next = NULL *)
NextOfNew(n) == NULL

(* q->tail->next = n, when the list is not empty *)
LinkAt(t, n) == [next EXCEPT ![t] = n]

(* enqueue(q), called by the process p *)
Enqueue(p) ==
    \E n \in Addr \ allocated :
        /\ allocated' = allocated \union {n}
        /\ item' = [item EXCEPT ![n] = p]
        /\ IF IsEmpty
             THEN /\ head' = n
                  /\ next' = [next EXCEPT ![n] = NextOfNew(n)]
             ELSE /\ next' = [LinkAt(tail, n) EXCEPT ![n] = NextOfNew(n)]
                  /\ UNCHANGED head
        /\ tail' = n
        /\ size' = size + 1

(* dequeue(q), with head # NULL *)
Dequeue ==
    /\ head # NULL
    /\ head' = next[head]
    /\ size' = size - 1
    /\ allocated' = allocated \ {head}
    /\ UNCHANGED <<tail, item, next>>

Next == Dequeue \/ \E p \in Task : Enqueue(p)

Spec == Init /\ [][Next]_vars

-----------------------------------------------------------------------------
(* Type invariant *)
TypeOK == /\ head \in Addr \union {NULL} /\ tail \in Addr \union {NULL}
          /\ size \in Nat
          /\ item \in [Addr -> Task \union {NULL}]
          /\ next \in [Addr -> Addr \union {NULL}]
          /\ allocated \subseteq Addr

(* The node reached from `head' after i - 1 next pointers. *)
Node == LET node[i \in Nat] == IF i = 0 THEN NULL
                               ELSE IF i = 1 THEN head
                               ELSE IF node[i - 1] = NULL THEN NULL ELSE next[node[i - 1]]
        IN  node

Contents == [i \in 1..size |-> IF Node[i] = NULL THEN NULL ELSE item[Node[i]]]

(* The list that starts at `head' has `size' nodes, all of them alive and  *)
(* different, nothing else is alive (no node leaks), and `tail' is the     *)
(* last of them: the write through q->tail->next never hits freed memory.  *)
WellFormed ==
    /\ {Node[i] : i \in 1..size} = allocated
    /\ Node[size + 1] = NULL
    /\ \A i, j \in 1..size : Node[i] = Node[j] => i = j
    /\ size > 0 => tail = Node[size]

(* The list hands out the processes in the order in which they came. *)
Queue == INSTANCE Fifo WITH Item <- Task, list <- Contents
ImplementsFifo == Queue!Spec
=============================================================================

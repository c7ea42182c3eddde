------------------------------- MODULE Queues -------------------------------
(***************************************************************************)
(* The kernel's intrusive lists (lib/list.c) used as FIFO queues: a node   *)
(* is on a list at most once, list_push_back appends (Append),             *)
(* list_pop_front takes the head (Head and Tail) and list_delete unlinks a *)
(* node wherever it is.  The requests waiting for a ticket lock are queues *)
(* of the same kind.                                                       *)
(***************************************************************************)
EXTENDS Naturals, Sequences

InQueue(q, x) == \E i \in 1 .. Len(q) : q[i] = x

IsHead(q, x) == q # <<>> /\ q[1] = x

\* lib/list.c: "WARNING: Avoid insert one node twice, it's very dangerous."
NoDuplicates(q) == \A i, j \in 1 .. Len(q) : q[i] = q[j] => i = j

\* list_delete of the node x.
list_delete(q, x) ==
    LET at == CHOOSE i \in 1 .. Len(q) : q[i] = x
    IN  [j \in 1 .. Len(q) - 1 |-> IF j < at THEN q[j] ELSE q[j + 1]]
=============================================================================

------------------------------ MODULE IdxAlct ------------------------------
(***************************************************************************)
(* Identifiers of processes, threads, messages and boxes: lib/idx_alct.c,  *)
(* a red-black tree of the identifiers in use in which every node counts   *)
(* the nodes below it.  idx_alct_new looks for a free identifier with the  *)
(* counts.  The mutex of the allocator makes each operation one step.      *)
(* update() adds the count of the left son for the right one; without a    *)
(* left son it reads whatever is just below address 0, the last word of    *)
(* the device memory that mmu.c maps: rom.                                 *)
(***************************************************************************)
EXTENDS Rbt, SequencesExt

CONSTANTS MaxId,        \* bound on the identifiers
          Rom           \* what rom may be

VARIABLES idx_rbt,      \* alct->rbt
          sum,          \* idx_node_t.rbt_node_sum
          rom,
          deleted,      \* history: whether an identifier was ever deleted
          idx_failed    \* the assertion or panic that stopped the machine

idxVars == <<idx_rbt, sum, rom, deleted, idx_failed>>

Ids == 0 .. MaxId

InUse == Below(idx_rbt, idx_rbt.root)

IdxInit ==
    /\ idx_rbt = rbt_init(Ids)
    /\ sum = [i \in Ids |-> 0]
    /\ rom \in Rom
    /\ deleted = FALSE
    /\ idx_failed = "no"

-----------------------------------------------------------------------------
\* Mutant: the tree is not updated above the node.
idx_update_None(t, s, n) == [s EXCEPT ![n] = 1]

\* update
idx_update(t, s, n) ==
    LET left == IF t.l[n] = NULL THEN 0 ELSE s[t.l[n]]
        right == IF t.r[n] = NULL THEN 0 ELSE IF t.l[n] = NULL THEN rom ELSE s[t.l[n]]
    IN  [s EXCEPT ![n] = 1 + left + right]

Updated(t, s, nodes) == FoldLeft(LAMBDA v, n : idx_update(t, v, n), s, nodes)

\* rbt_find_free_id; NULL: the assertion on the count of the left son fails.
RECURSIVE rbt_find_free_id(_, _)
rbt_find_free_id(n, base) ==
    LET l == idx_rbt.l[n]
        r == idx_rbt.r[n]
    IN  IF l # NULL /\ sum[l] + base > n THEN NULL
        ELSE IF l # NULL /\ sum[l] + base < n THEN rbt_find_free_id(l, base)
        ELSE IF l = NULL /\ base < n THEN base
        ELSE IF r = NULL THEN n + 1 ELSE rbt_find_free_id(r, n + 1)

FreeId == IF idx_rbt.root = NULL THEN 0 ELSE rbt_find_free_id(idx_rbt.root, 0)

\* rbt_insert of idx_alct.c
InsertId(i) ==
    LET t == rbt_insert_color(rb_link_node(idx_rbt, i), i)
    IN  /\ idx_rbt' = t
        /\ sum' = Updated(t, sum, rbt_insert_update(t, i))
        /\ UNCHANGED <<rom, deleted, idx_failed>>

IdxFail(what) == idx_failed' = what /\ UNCHANGED <<idx_rbt, sum, rom, deleted>>

\* kmalloc may fail, which changes nothing.  An identifier that is in use is a
\* panic of _rbt_insert.
idx_alct_new ==
    \/ FreeId = NULL /\ IdxFail("assert")
    \/ FreeId \in InUse /\ IdxFail("idx tree bug")
    \/ FreeId \in Ids \ InUse /\ InsertId(FreeId)

\* idx_alct_delete; an identifier that is not found is an error.
idx_alct_delete == \E i \in InUse :
    LET t == rbt_delete(idx_rbt, i)
        n == rbt_delete_update_begin(idx_rbt, i)
        s == Updated(t, sum, rbt_delete_update_end(t, n))
    IN  /\ idx_rbt' = t
        /\ sum' = [s EXCEPT ![i] = 0]
        /\ deleted' = TRUE
        /\ UNCHANGED <<rom, idx_failed>>

IdxNext == idx_failed = "no" /\ (idx_alct_new \/ idx_alct_delete)

-----------------------------------------------------------------------------
(***************************************************************************)
(* Properties                                                              *)
(***************************************************************************)

\* Every insertion and removal leaves a red-black search tree.
IdsRedBlack == IsRedBlack(idx_rbt)

\* Where nothing is ever deleted, as for processes and threads, identifiers
\* are handed out one after the other: the counts that update() gets wrong are
\* never those the search goes by.
GrowsInOrder == ~ deleted => idx_failed = "no" /\ \E n \in 0 .. MaxId + 1 : InUse = 0 .. n - 1
=============================================================================

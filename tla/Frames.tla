------------------------------- MODULE Frames -------------------------------
(***************************************************************************)
(* What the allocator of physical memory promises: it hands out extents of *)
(* page frames that nobody else holds and that are as large as the request *)
(* asks, and refuses a request only if every extent that is large enough   *)
(* is in use, at least in part.  Module Buddy implements this.             *)
(***************************************************************************)
EXTENDS Naturals, FiniteSets

CONSTANTS Extents,      \* the sets of page frames that can be handed out
          Requests      \* numbers of page frames

VARIABLES used,         \* the extents that are handed out
          last          \* the size and the result of the last request

vars == <<used, last>>

Available(n) == {e \in Extents : Cardinality(e) >= n /\ \A u \in used : u \cap e = {}}

Init == used = {} /\ last = [size |-> 0, err |-> "E_INVAL"]

Alloc(n) ==
    /\ n # 0
    /\ last' = [size |-> n, err |-> "E_OK"]
    /\ \E e \in Available(n) : used' = used \cup {e}

Refuse(n) ==
    /\ last' = [size |-> n, err |-> IF n = 0 THEN "E_INVAL" ELSE "E_NOMEM"]
    /\ n # 0 => Available(n) = {}
    /\ UNCHANGED used

Free == UNCHANGED last /\ \E u \in used : used' = used \ {u}

Next == Free \/ \E n \in Requests : Alloc(n) \/ Refuse(n)

Spec == Init /\ [][Next]_vars
=============================================================================

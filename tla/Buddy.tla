------------------------------- MODULE Buddy -------------------------------
(***************************************************************************)
(* The allocator of physical memory: the buddy system of kernel/memory/    *)
(* pm.c on the slots of lib/slot.c, and the reference counts of pages in   *)
(* kernel/memory/memory.c.  A page_t is a node <<i, path>> of the tree     *)
(* below the block of order i that pm_insert made: path says, from the     *)
(* root down, which half it is (0: BUD_LEFT, 1: BUD_RIGHT), so that        *)
(* buddy.f, buddy.b, order and addr follow from it.  alct->lock makes each *)
(* operation one step; the loops of buddy_put and the recursion of         *)
(* buddy_alloc are written as what they compute.                           *)
(***************************************************************************)
EXTENDS Queues, FiniteSets

CONSTANTS NR_BUDDY_ORDER,
          NrPages,      \* the size, in pages, of the memory of pm_insert
          Slots,        \* how many page_t the slot allocator has
          MaxRefs       \* bound on the references to a page

ASSUME BuddyAssumption ==
    /\ NR_BUDDY_ORDER \in Nat \ {0}
    /\ NrPages \in 1 .. 2 ^ NR_BUDDY_ORDER - 1
    /\ Slots \in Nat /\ Slots >= NR_BUDDY_ORDER
    /\ MaxRefs \in Nat

Orders == 0 .. NR_BUDDY_ORDER - 1

\* pm_insert makes a block for every bit of the size.
RootOrders == {i \in Orders : (NrPages \div 2 ^ i) % 2 = 1}

Nodes == UNION {{i} \X UNION {[1 .. k -> {0, 1}] : k \in 0 .. i} : i \in RootOrders}

VARIABLES bstate,       \* buddy.state of each node, NONE: no such page_t
          head,         \* alct->head
          alloced_rbt,  \* alct->alloced_rbt
          slots,        \* the number of free slots
          cnt,          \* page_t.cnt
          last,         \* the size and the result of the last pm_alloc
          unset        \* whether a page_t was used that new_page did not set

buddyVars == <<bstate, head, alloced_rbt, slots, cnt, last, unset>>

-----------------------------------------------------------------------------
(***************************************************************************)
(* The tree                                                                *)
(***************************************************************************)

Order(n) == n[1] - Len(n[2])

\* The node i levels above n
Above(n, i) == <<n[1], SubSeq(n[2], 1, Len(n[2]) - i)>>

\* buddy.b
BuddyOf(n) == <<n[1], [n[2] EXCEPT ![Len(n[2])] = 1 - @]>>

\* The node d levels below n on the left
Leftmost(n, d) == <<n[1], n[2] \o [j \in 1 .. d |-> 0]>>

\* page_t.addr in pages: the blocks of pm_insert follow each other, the smaller
\* ones first.
Addr(n) ==
    LET half[j \in 0 .. Len(n[2])] == IF j = 0 THEN 0 ELSE 2 * half[j - 1] + n[2][j]
    IN  (NrPages % 2 ^ n[1]) + half[Len(n[2])] * 2 ^ Order(n)

\* The page frames of each block
FramesOf == [n \in Nodes |-> Addr(n) .. Addr(n) + 2 ^ Order(n) - 1]

MinOf(S) == CHOOSE x \in S : \A y \in S : x <= y

-----------------------------------------------------------------------------
(***************************************************************************)
(* pm_init and pm_insert                                                   *)
(***************************************************************************)

BuddyInit ==
    /\ bstate = [n \in Nodes |-> IF n[2] = <<>> THEN "FREE" ELSE "NONE"]
    /\ head = [k \in Orders |-> IF k \in RootOrders THEN << <<k, <<>>>> >> ELSE <<>>]
    /\ alloced_rbt = {}
    /\ slots = Slots - Cardinality(RootOrders)
    /\ cnt = [n \in Nodes |-> 0]
    /\ last = [size |-> 0, err |-> "E_INVAL"]
    /\ unset = FALSE

-----------------------------------------------------------------------------
(***************************************************************************)
(* buddy_alloc: takes the first block of the smallest order that has one,  *)
(* and divides it down to the order of the request; the right halves go to *)
(* the lists.  divide_page and the buddy_put of a half, which finds its    *)
(* buddy allocated and merges nothing, are part of it.                     *)
(***************************************************************************)

\* Mutant: blocks are not divided.
Candidates_Exact(order) == {k \in {order} : head[k] # <<>>}

\* The orders from which a request can be served
Candidates(order) == {k \in order .. NR_BUDDY_ORDER - 1 : head[k] # <<>>}

\* The right half of the dth division of f
Right(f, d) == BuddyOf(Leftmost(f, d))

\* The states after f is divided depth times and what is left of it allocated
divide_page(f, depth) ==
    [n \in Nodes |-> CASE n = Leftmost(f, depth) -> "ALLOCED"
                       [] n \in {Leftmost(f, d) : d \in 0 .. depth - 1} -> "VIRT"
                       [] n \in {Right(f, d) : d \in 1 .. depth} -> "FREE"
                       [] OTHER -> bstate[n]]

\* refs: the references that the caller takes
buddy_alloc(order, size, refs) ==
    LET k == MinOf(Candidates(order))
        f == Head(head[k])
        page == Leftmost(f, k - order)
    IN
    IF Candidates(order) = {}
    THEN last' = [size |-> size, err |-> "E_NOMEM"] /\ UNCHANGED <<bstate, head, alloced_rbt, slots, cnt, unset>>
    ELSE IF slots < 2 * (k - order)     \* the error of new_page is ignored
    THEN unset' = TRUE /\ UNCHANGED <<bstate, head, alloced_rbt, slots, cnt, last>>
    ELSE /\ bstate' = divide_page(f, k - order)
         /\ head' = [j \in Orders |-> CASE j = k -> Tail(head[k])
                                        [] j \in order .. k - 1 -> Append(head[j], Right(f, k - j))
                                        [] OTHER -> head[j]]
         /\ slots' = slots - 2 * (k - order)
         /\ alloced_rbt' = alloced_rbt \cup {page}
         /\ cnt' = [cnt EXCEPT ![page] = (IF k = order THEN @ ELSE 0) + refs]
         /\ last' = [size |-> size, err |-> "E_OK"]
         /\ UNCHANGED unset

\* size: in pages.  The callers round up to pages, so ROUND_UP changes nothing.
pm_alloc(size, refs) ==
    IF size = 0
    THEN last' = [size |-> 0, err |-> "E_INVAL"] /\ UNCHANGED <<bstate, head, alloced_rbt, slots, cnt, unset>>
    ELSE buddy_alloc(MinOf({i \in Orders : size <= 2 ^ i}), size, refs)

-----------------------------------------------------------------------------
(***************************************************************************)
(* buddy_put and pm_free: the block is merged with its buddy as long as    *)
(* the buddy is free; merge_page, buddy_get_ptc and free_page are part of  *)
(* it.                                                                     *)
(***************************************************************************)

\* Mutant: the buddy may be in use.
Merges_Unchecked(n) ==
    MinOf({i \in 0 .. Len(n[2]) :
              i = Len(n[2]) \/ bstate[BuddyOf(Above(n, i))] \notin {"FREE", "ALLOCED"}})

\* How often block n is merged
Merges(n) ==
    MinOf({i \in 0 .. Len(n[2]) : i = Len(n[2]) \/ bstate[BuddyOf(Above(n, i))] # "FREE"})

\* The blocks that depth merges of n remove
Merged(n, depth) ==
    LET path == {Above(n, i) : i \in 0 .. depth - 1} IN path \cup {BuddyOf(x) : x \in path}

\* The lists without the buddies that were merged
Unlink(gone) == [k \in Orders |-> SelectSeq(head[k], LAMBDA x : x \notin gone)]

\* The lists after n was freed and merged to top
PushFreed(n, top, gone) == [Unlink(gone) EXCEPT ![Order(top)] = Append(@, top)]

\* free_page of two nodes for every merge
SlotsBack(depth) == 2 * depth

pm_free(n) ==
    LET depth == Merges(n)
        top == Above(n, depth)
        gone == Merged(n, depth)
    IN
    /\ bstate[n] = "ALLOCED"
    /\ bstate' = [x \in Nodes |-> CASE x = top -> "FREE"
                                    [] x \in gone -> "NONE"
                                    [] OTHER -> bstate[x]]
    /\ head' = PushFreed(n, top, gone)
    /\ slots' = slots + SlotsBack(depth)
    /\ alloced_rbt' = alloced_rbt \ {n}
    /\ UNCHANGED <<cnt, last, unset>>

-----------------------------------------------------------------------------
(***************************************************************************)
(* The callers in kernel/memory/memory.c                                   *)
(***************************************************************************)

\* The sizes, in pages, that fit into size_t after rounding up
PageCounts == 0 .. 2 ^ (NR_BUDDY_ORDER - 1) - 1

kmalloc_page == \E size \in PageCounts : pm_alloc(size, 0)

page_alloc == pm_alloc(1, 1)

page_get(n) ==
    /\ cnt[n] \in 1 .. MaxRefs - 1
    /\ cnt' = [cnt EXCEPT ![n] = @ + 1]
    /\ UNCHANGED <<bstate, head, alloced_rbt, slots, last, unset>>

\* The last reference is dropped before the page is freed.
page_put(n) ==
    /\ cnt[n] > 0
    /\ cnt' = [cnt EXCEPT ![n] = @ - 1]
    /\ UNCHANGED <<bstate, head, alloced_rbt, slots, last, unset>>

\* pm_free in page_put after the last reference, and in kmalloc_page when there
\* is no virtual memory
page_free(n) == cnt[n] = 0 /\ pm_free(n)

BuddyNext ==
    /\ ~ unset
    /\ \/ kmalloc_page \/ page_alloc
       \/ \E n \in alloced_rbt : page_get(n) \/ page_put(n) \/ page_free(n)

-----------------------------------------------------------------------------
(***************************************************************************)
(* Properties                                                              *)
(***************************************************************************)

BuddyTypeOK ==
    /\ bstate \in [Nodes -> {"NONE", "FREE", "ALLOCED", "VIRT"}]
    /\ \A k \in Orders : \A i \in 1 .. Len(head[k]) : head[k][i] \in Nodes /\ Order(head[k][i]) = k
    /\ alloced_rbt \subseteq Nodes
    /\ slots \in 0 .. Slots
    /\ cnt \in [Nodes -> 0 .. MaxRefs]

\* Every page frame belongs to one block that is free or handed out, and only
\* to one: no frame is handed out twice, and none is lost.
FramesPartitioned ==
    \A a \in 0 .. NrPages - 1 :
        Cardinality({n \in Nodes : (bstate[n] = "FREE" \/ n \in alloced_rbt) /\ a \in FramesOf[n]}) = 1

\* The records of a block agree.  The list of an order holds the free blocks of
\* that order, once each, and they have no reference, as page_alloc asserts;
\* alloced_rbt, in which pm_get_page looks a page up, holds the allocated ones; a
\* block is BUD_VIRT as long as both its halves exist, as merge_page asserts.
RecordsAgree ==
    /\ \A k \in Orders : NoDuplicates(head[k])
    /\ \A n \in Nodes :
        /\ bstate[n] = "FREE" <=> InQueue(head[Order(n)], n)
        /\ bstate[n] = "FREE" => cnt[n] = 0
        /\ bstate[n] = "ALLOCED" <=> n \in alloced_rbt
        /\ \A b \in {0, 1} :
            Order(n) > 0 => (bstate[n] = "VIRT" <=> bstate[<<n[1], Append(n[2], b)>>] # "NONE")

\* Two buddies are never both free: buddy_put merges as far as it can.
Coalesced ==
    \A n \in Nodes : n[2] # <<>> => ~ (bstate[n] = "FREE" /\ bstate[BuddyOf(n)] = "FREE")

\* Every slot is free or holds a page_t: divide and merge leak no slot.
SlotsAccounted == slots + Cardinality({n \in Nodes : bstate[n] # "NONE"}) = Slots

\* The allocator as its callers see it: extents that nobody else holds, and a
\* refusal only if there is no free extent of the size.
Extents == {FramesOf[n] : n \in Nodes}

F == INSTANCE Frames WITH
        Requests <- PageCounts,
        used <- {FramesOf[n] : n \in alloced_rbt}

IsFrames == F!Spec
=============================================================================

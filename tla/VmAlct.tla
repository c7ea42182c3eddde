------------------------------- MODULE VmAlct -------------------------------
(***************************************************************************)
(* One vpage_alct_t of kernel/memory/vm.c, for every order of its          *)
(* operations.  It has MaxAreas vpage_t.                                   *)
(***************************************************************************)
EXTENDS Vm

CONSTANTS Sizes,        \* the sizes that are asked for
          MaxAreas      \* how many vpage_t mm_ops.alloc has

VARIABLES alct,         \* free_rbt with size and mx_size of its nodes, alloced_rbt
          inserted,     \* history: the pages of vm_insert
          lost          \* history: the pages of an area that is in neither tree

vmVars == <<alct, inserted, lost>>

\* vpage_new succeeds.
Room(a, n) == Cardinality(FreeAreas(a)) + Cardinality(DOMAIN a.alloced) + n <= MaxAreas

VmInit ==
    /\ alct = vm_init
    /\ inserted = {}
    /\ lost = {}

\* Pages that are new to the allocator: at boot, or when the heap grows.
vm_insert == \E addr \in Pages, size \in Sizes :
    /\ Span(addr, size) \subseteq Pages \ inserted
    /\ Room(alct, 1)
    /\ alct' = vm_insert_free(alct, addr, size)
    /\ inserted' = inserted \cup Span(addr, size)
    /\ UNCHANGED lost

vm_alloc == \E size \in Sizes :
    LET n == rbt_search_size(alct, size, alct.free.root)
    IN  /\ alct' = IF n = NULL \/ ~ Room(alct, 1) THEN alct
                   ELSE Alloced(alct, n, size)
        /\ UNCHANGED <<inserted, lost>>

vm_free == \E n \in DOMAIN alct.alloced :
    /\ alct' = Freed(alct, n)
    /\ UNCHANGED <<inserted, lost>>

vm_slice == \E n \in DOMAIN alct.alloced : \E p \in Span(n, alct.alloced[n]) :
    LET new == Sliced(alct, n, p, IF Room(alct, 2) THEN 2 ELSE IF Room(alct, 1) THEN 1 ELSE 0)
    IN  /\ alct' = new
        /\ lost' = lost \cup (AllocedPages(alct) \ AllocedPages(new))
        /\ UNCHANGED inserted

VmNext == vm_insert \/ vm_alloc \/ vm_free \/ vm_slice

-----------------------------------------------------------------------------
(***************************************************************************)
(* Properties                                                              *)
(***************************************************************************)

\* The free tree is a red-black tree of disjoint areas, in the order of their
\* addresses although merging changes an address in place, and every node knows
\* the largest area below it, whatever was inserted, removed or rotated.
FreeTreeExact ==
    /\ IsRedBlack(alct.free)
    /\ \A n \in FreeAreas(alct) : alct.mx[n] = Max({alct.size[m] : m \in Below(alct.free, n)})
    /\ \A n, m \in FreeAreas(alct) : n < m => n + alct.size[n] <= m

\* A page is in a free or in an allocated area and never in two areas.  The one
\* way to lose pages is _vm_slice when there is no memory for a vpage_t.
PagesAccounted ==
    /\ FreePages(alct) \cap AllocedPages(alct) = {}
    /\ \A n, m \in DOMAIN alct.alloced : n < m => n + alct.alloced[n] <= m
    /\ FreePages(alct) \cup AllocedPages(alct) = inserted \ lost

\* The search that goes by mx_size answers E_NOMEM only if no free area is large
\* enough, and otherwise with an area that is.
SearchFinds ==
    \A size \in Sizes :
        LET n == rbt_search_size(alct, size, alct.free.root)
        IN  IF n = NULL THEN \A m \in FreeAreas(alct) : alct.size[m] < size
            ELSE n \in FreeAreas(alct) /\ alct.size[n] >= size

\* A fork has the same allocated and the same free pages, in a sound tree.
ForkSame ==
    LET c == vm_fork(alct)
    IN  /\ c.alloced = alct.alloced
        /\ FreePages(c) = FreePages(alct)
        /\ IsRedBlack(c.free)
=============================================================================

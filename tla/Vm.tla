--------------------------------- MODULE Vm ---------------------------------
(***************************************************************************)
(* The allocator of virtual memory, kernel/memory/vm.c: areas of pages     *)
(* that are free, in a red-black tree in which every node knows the        *)
(* largest area below it, or allocated.  Addresses and sizes are in pages. *)
(* A vpage_t is named by the address it holds, so a free one whose address *)
(* changes is renamed.  The tree of the allocated areas is the function    *)
(* from their addresses to their sizes.  An allocator is a value here; its *)
(* lock makes each operation one step of the modules that use it.          *)
(***************************************************************************)
EXTENDS Rbt, SequencesExt

CONSTANT MaxPages       \* the pages are 0 .. MaxPages - 1

Pages == 0 .. MaxPages - 1

FreeAreas(a) == Below(a.free, a.free.root)

Span(addr, size) == addr .. addr + size - 1

FreePages(a) == UNION {Span(n, a.size[n]) : n \in FreeAreas(a)}

AllocedPages(a) == UNION {Span(n, a.alloced[n]) : n \in DOMAIN a.alloced}

vm_init ==
    [free |-> rbt_init(Pages), size |-> [n \in Pages |-> 0], mx |-> [n \in Pages |-> 0],
     alloced |-> << >>]

-----------------------------------------------------------------------------
(***************************************************************************)
(* The free tree                                                           *)
(***************************************************************************)

\* update
vm_update(a, n) ==
    LET sons == {a.free.l[n], a.free.r[n]} \ {NULL}
    IN  [a EXCEPT !.mx[n] = Max({a.size[n]} \cup {a.mx[m] : m \in sons})]

\* Mutant: the change does not reach the nodes above.
UpdateAll_One(a, nodes) == IF nodes = << >> THEN a ELSE vm_update(a, nodes[1])

UpdateAll(a, nodes) == FoldLeft(vm_update, a, nodes)

\* rbt_update from node n
UpdateFrom(a, n) == UpdateAll(a, rbt_update(a.free, n))

\* rbt_delete_update_begin, before the removal, found the deepest node to update.
Removed(a, n, deepest) ==
    IF deepest = NULL THEN [a EXCEPT !.free = rbt_delete(@, n)]
    ELSE UpdateFrom([a EXCEPT !.free = rbt_delete(@, n)], deepest)

vm_delete_free(a, n) ==
    [Removed(a, n, rbt_delete_update_begin(a.free, n)) EXCEPT !.size[n] = 0, !.mx[n] = 0]

\* Node n is called m, which is not in use and has the same neighbours.
Rename(a, n, m) ==
    LET new(x) == IF x = n THEN m ELSE x
        name(g) == [x \in Pages |-> IF x = n THEN NULL ELSE new(g[IF x = m THEN n ELSE x])]
        t == a.free
    IN  [a EXCEPT !.size = [@ EXCEPT ![m] = a.size[n], ![n] = 0],
                  !.mx = [@ EXCEPT ![m] = a.mx[n], ![n] = 0],
                  !.free = [root |-> new(t.root), color |-> [t.color EXCEPT ![m] = t.color[n], ![n] = "RED"],
                            f |-> name(t.f), l |-> name(t.l), r |-> name(t.r)]]

\* The second loop of vm_merge
RECURSIVE MergePrev(_, _)
MergePrev(a, n) ==
    LET m == rbt_prev(a.free, n)
    IN  IF m = NULL \/ m + a.size[m] # n THEN a
        ELSE MergePrev(UpdateFrom(Rename(vm_delete_free([a EXCEPT !.size[n] = @ + a.size[m]], m), n, m), m), m)

\* The first loop.  It returns at once, and nothing is merged with the area
\* before n, when the next free area is not adjacent.
RECURSIVE vm_merge(_, _)
vm_merge(a, n) ==
    LET m == rbt_next(a.free, n)
    IN  IF m = NULL THEN MergePrev(a, n)
        ELSE IF n + a.size[n] # m THEN a
        ELSE vm_merge(UpdateFrom(vm_delete_free([a EXCEPT !.size[n] = @ + a.size[m]], m), n), n)

\* The caller sees that no node n is there.
vm_insert_free(a, n, size) ==
    LET b == [a EXCEPT !.free = rbt_insert_color(rb_link_node(@, n), n), !.size[n] = size]
    IN  vm_merge(UpdateAll(b, rbt_insert_update(b.free, n)), n)

\* The node to cut from, found from n down: the tightest of n and of what its
\* sons promise.  NULL: E_NOMEM
RECURSIVE rbt_search_size(_, _, _)
rbt_search_size(a, size, n) ==
    LET sons == {m \in {a.free.l[n], a.free.r[n]} \ {NULL} : a.mx[m] >= size}
        mx == Min({a.mx[m] : m \in sons})
        next == IF a.free.l[n] \in sons /\ a.mx[a.free.l[n]] = mx THEN a.free.l[n] ELSE a.free.r[n]
    IN  IF n = NULL THEN NULL
        ELSE IF a.size[n] >= size /\ (sons = {} \/ a.size[n] < mx) THEN n
        ELSE IF sons = {} THEN NULL ELSE rbt_search_size(a, size, next)

-----------------------------------------------------------------------------
(***************************************************************************)
(* Allocated areas                                                         *)
(***************************************************************************)

\* The area [n, n + size) is taken from the front of free area n.
Cut(a, n, size) ==
    IF a.size[n] = size THEN vm_delete_free(a, n)
    ELSE UpdateFrom(Rename([a EXCEPT !.size[n] = @ - size], n, n + size), n + size)

\* vm_alloc when the search found area n and there is memory for a vpage_t
Alloced(a, n, size) == [Cut(a, n, size) EXCEPT !.alloced = (n :> size) @@ @]

Without(f, x) == [y \in DOMAIN f \ {x} |-> f[y]]

\* vm_free
Freed(a, n) == vm_insert_free([a EXCEPT !.alloced = Without(@, n)], n, a.alloced[n])

\* _vm_slice: allocated area n is divided at bound, if there is memory for a
\* vpage_t.  It is taken out of the tree before that is known.
Slice(alloced, n, bound, ok) ==
    LET rest == Without(alloced, n)
    IN  IF ok THEN (n :> bound - n) @@ (bound :> n + alloced[n] - bound) @@ rest ELSE rest

\* vm_slice makes page p of area n an area of its own.  There is memory for room
\* new vpage_t.
Sliced(a, n, p, room) ==
    LET cuts == SelectSeq(<<p, p + 1>>, LAMBDA b : n < b /\ b < n + a.alloced[n])
        one == Slice(a.alloced, n, cuts[1], room >= 1)
        two == Slice(one, p, p + 1, room >= 2)
    IN  [a EXCEPT !.alloced = IF Len(cuts) = 0 THEN @
                              ELSE IF Len(cuts) = 1 \/ room = 0 THEN one ELSE two]

\* vm_fork: what the new process gets while its memory suffices.  The free areas
\* are inserted one by one, so they are merged where vm_free left them apart.
vm_fork(a) ==
    FoldLeft(LAMBDA b, n : vm_insert_free(b, n, a.size[n]), [vm_init EXCEPT !.alloced = a.alloced],
             rbt_rep(a.free))
=============================================================================

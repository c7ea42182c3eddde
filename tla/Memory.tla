------------------------------- MODULE Memory -------------------------------
(***************************************************************************)
(* Memory on demand: the threads of a process call umalloc and touch what  *)
(* they got, or threads of the kernel call kmalloc.  Small requests go to  *)
(* the slab of kernel/memory/slab.c, larger ones and the pages of the slab *)
(* to the allocator of virtual memory, which um.c extends by growing the   *)
(* heap; page frames come with a page fault (um.c) or at once (memory.c),  *)
(* and enter the page table of ptb.c and mmu.c.  A step ends where another *)
(* processor may interfere: at a lock, or at a field no lock protects.     *)
(* Addresses are pages; inside a page the slab counts units.  page_alloc   *)
(* takes the first free page frame: which one it is makes no difference.   *)
(***************************************************************************)
EXTENDS Vm

CONSTANTS Threads,
          HeapPages,    \* the pages are 0 .. HeapPages - 1
          FrameNos,     \* the page frames, consecutive numbers
          Units,        \* how many units a page has; its count takes one
          SlabMax,      \* CONFIG_SZ_SLAB_ALLOC_MAX, in units
          Requests,     \* the sizes that are asked for, in units
          PteSpan,      \* how many pages one page table has
          MaxCalls      \* bound on the allocations

VARIABLES side,         \* whose memory: "user" or "kernel"
          vp_alct,         \* um->vp_alct or kvm_alct
          heap_e,       \* um->layout: heap_e and free_s
          freep,        \* slab_alct.freep, in units, or NULL
          norm,         \* the areas that are UM_NORMAL or KM_NORMAL: their map_page
          ptb, ptes,    \* what is mapped; the page tables there are
          ptb_leaked,   \* ptb->lock is held for good
          moved,        \* history: a page table was read through a window that was moved
          vm_leaked,    \* alct->lock is held for good
          frames,       \* the free page frames
          th,           \* per thread: pc and local variables
          given,        \* history: the ranges the allocations returned, in units
          child,        \* what um_fork made, or NULL
          failed        \* what went wrong for good

memVars == <<side, vp_alct, heap_e, freep, norm, ptb, ptes, ptb_leaked, moved, vm_leaked, frames, th,
             given, child, failed>>

vmState == <<vp_alct, vm_leaked>>
ptState == <<norm, ptb, ptes, ptb_leaked, moved>>

RoundUp(u) == ((u + Units - 1) \div Units) * Units

Idle == [pc |-> "idle", req |-> 0, at |-> 0, slot |-> 0, q |-> 0, back |-> "idle", frame |-> 0,
         n |-> 0, alone |-> TRUE]

PagesOf(l) == IF l.req <= SlabMax THEN 1 ELSE RoundUp(l.req) \div Units

MemInit ==
    /\ side \in {"user", "kernel"}
    /\ vp_alct = IF side = "user" THEN vm_init ELSE vm_insert_free(vm_init, 0, HeapPages)
    /\ heap_e = 0
    /\ freep = NULL
    /\ norm = << >> /\ ptb = << >> /\ ptes = {}
    /\ ptb_leaked = FALSE /\ moved = FALSE /\ vm_leaked = FALSE
    /\ frames = FrameNos
    /\ th = [t \in Threads |-> Idle]
    /\ given = << >>
    /\ child = NULL
    /\ failed = "no"

At(t, pc) == failed = "no" /\ th[t].pc = pc

Goto(t, pc) == th' = [th EXCEPT ![t].pc = pc]

Fail(what) == failed' = what /\ UNCHANGED <<vp_alct, heap_e, freep, ptState, vm_leaked, frames, th, given, child>>

\* The call returns, with the range [lo, hi) or with an error.
Return(t, range) ==
    /\ th' = [th EXCEPT ![t] = Idle]
    /\ given' = IF range = << >> THEN given ELSE Append(given, range)

-----------------------------------------------------------------------------
(***************************************************************************)
(* umalloc and kmalloc, slab_alloc                                         *)
(***************************************************************************)

\* Where the pages for t come from
PageSource == IF side = "user" THEN "page" ELSE "pm"

Active == {t \in Threads : th[t].pc # "idle"}

malloc(t) == \E req \in Requests :
    /\ At(t, "idle")
    /\ Len(given) + Cardinality(Active) < MaxCalls
    /\ th' = [u \in Threads |->
                IF u = t THEN [Idle EXCEPT !.pc = IF req <= SlabMax THEN "slab" ELSE PageSource,
                                           !.req = req, !.alone = Active = {}]
                ELSE [th[u] EXCEPT !.alone = th[u].pc = "idle"]]
    /\ UNCHANGED <<vmState, heap_e, freep, ptState, frames, given, child, failed>>

Fits(u, req) == u + req < RoundUp(u)

\* Mutant: an object may reach over the end of the page.
slab_test_Loose(t) ==
    /\ At(t, "slab")
    /\ Goto(t, IF freep = NULL \/ freep % Units = 0 THEN PageSource ELSE "take")
    /\ UNCHANGED <<vmState, heap_e, freep, ptState, frames, given, child, failed>>

\* if (alct->freep == NULL || ...)
slab_test(t) ==
    /\ At(t, "slab")
    /\ Goto(t, IF freep = NULL \/ ~ Fits(freep, th[t].req) THEN PageSource ELSE "take")
    /\ UNCHANGED <<vmState, heap_e, freep, ptState, frames, given, child, failed>>

\* alct->freep = _addr + sizeof(uint)
slab_page(t) ==
    /\ At(t, "set")
    /\ freep' = th[t].at * Units + 1
    /\ Goto(t, "zero")
    /\ UNCHANGED <<vmState, heap_e, ptState, frames, given, child, failed>>

\* *cnt = 0, once the page is there
slab_zero(t) ==
    /\ At(t, "zero")
    /\ th[t].at \in DOMAIN ptb
    /\ Goto(t, "take")
    /\ UNCHANGED <<vmState, heap_e, freep, ptState, frames, given, child, failed>>

\* *addr = alct->freep.  The test may no longer hold.
slab_take(t) ==
    /\ At(t, "take")
    /\ IF ~ Fits(freep, th[t].req) THEN Fail("slab race")
       ELSE /\ th' = [th EXCEPT ![t].slot = freep, ![t].pc = "count"]
            /\ UNCHANGED <<vmState, heap_e, freep, ptState, frames, given, child, failed>>

\* (*cnt)++ and alct->freep += size, once the page is there.  If freep is not
\* what was read, two callers have the same object.
slab_count(t) == LET l == th[t] IN
    /\ At(t, "count")
    /\ l.slot \div Units \in DOMAIN ptb
    /\ IF freep # l.slot THEN Fail("slab race")
       ELSE /\ freep' = l.slot + l.req
            /\ Return(t, <<l.slot, l.slot + l.req>>)
            /\ UNCHANGED <<vmState, heap_e, ptState, frames, child, failed>>

\* Pages l.at .. are t's: the slab goes on with them, or the call returns.
GotPages(t, at) ==
    LET l == th[t]
    IN  IF l.req <= SlabMax
        THEN th' = [th EXCEPT ![t].at = at, ![t].n = 0, ![t].frame = 0, ![t].pc = "set"] /\ UNCHANGED given
        ELSE Return(t, <<at * Units, (at + PagesOf(l)) * Units>>)

-----------------------------------------------------------------------------
(***************************************************************************)
(* umalloc_page                                                            *)
(***************************************************************************)

\* vm_alloc, at first and again after the heap has grown.  Without memory for a
\* vpage_t the error may be another than E_NOMEM.
um_alloc(t) == LET area == rbt_search_size(vp_alct, PagesOf(th[t]), vp_alct.free.root) IN
    /\ \/ At(t, "page")
       \/ At(t, "again")
    /\ ~ vm_leaked
    /\ \/ /\ area # NULL
          /\ vp_alct' = Alloced(vp_alct, area, PagesOf(th[t]))
          /\ GotPages(t, area)
       \/ /\ th[t].pc = "page"
          /\ Goto(t, "heap")
          /\ UNCHANGED <<vp_alct, given>>
       \/ /\ th[t].pc = "again" \/ area # NULL
          /\ Return(t, << >>)
          /\ UNCHANGED vp_alct
    /\ UNCHANGED <<vm_leaked, heap_e, freep, ptState, frames, child, failed>>

\* um_heap_alloc: the test, and *addr = heap_e
um_heap_alloc(t) ==
    /\ At(t, "heap")
    /\ IF heap_e + PagesOf(th[t]) > HeapPages THEN Return(t, << >>)
       ELSE th' = [th EXCEPT ![t].at = heap_e, ![t].pc = "grow"] /\ UNCHANGED given
    /\ UNCHANGED <<vmState, heap_e, freep, ptState, frames, child, failed>>

\* heap_e += size, free_s += size
um_heap_grow(t) ==
    /\ At(t, "grow")
    /\ IF heap_e # th[t].at THEN Fail("heap race")
       ELSE /\ heap_e' = heap_e + PagesOf(th[t])
            /\ Goto(t, "insert")
            /\ UNCHANGED <<vmState, freep, ptState, frames, given, child, failed>>

\* vm_insert; what it adds another thread may take.
um_insert(t) ==
    /\ At(t, "insert")
    /\ ~ vm_leaked
    /\ \/ /\ vp_alct' = vm_insert_free(vp_alct, th[t].at, PagesOf(th[t]))
          /\ Goto(t, "again")
          /\ UNCHANGED given
       \/ Return(t, << >>) /\ UNCHANGED vp_alct
    /\ UNCHANGED <<vm_leaked, heap_e, freep, ptState, frames, child, failed>>

-----------------------------------------------------------------------------
(***************************************************************************)
(* kmalloc_page                                                            *)
(***************************************************************************)

\* kmalloc reads vp->addr even if vp was never set, whatever that leads to.
WildReturn(t) == Return(t, << >>) /\ failed' \in {"no", "wild read"}

FreeRuns(n) == {lo \in frames : lo .. lo + n - 1 \subseteq frames}

km_pm_alloc(t) == LET n == PagesOf(th[t]) IN
    /\ At(t, "pm")
    /\ \/ \E lo \in FreeRuns(n) :
            /\ frames' = frames \ (lo .. lo + n - 1)
            /\ th' = [th EXCEPT ![t].frame = lo, ![t].pc = "kvm"]
            /\ UNCHANGED <<given, failed>>
       \/ FreeRuns(n) = {} /\ WildReturn(t) /\ UNCHANGED frames
    /\ UNCHANGED <<vmState, heap_e, freep, ptState, child>>

km_vm_alloc(t) ==
    LET n == PagesOf(th[t])
        area == rbt_search_size(vp_alct, n, vp_alct.free.root)
    IN  /\ At(t, "kvm")
        /\ \/ /\ area # NULL
              /\ vp_alct' = Alloced(vp_alct, area, n)
              /\ th' = [th EXCEPT ![t].at = area, ![t].n = 0, ![t].pc = "kmap"]
              /\ UNCHANGED <<frames, given, failed>>
           \/ /\ frames' = frames \cup (th[t].frame .. th[t].frame + n - 1)
              /\ WildReturn(t)
              /\ UNCHANGED vp_alct
        /\ UNCHANGED <<vm_leaked, heap_e, freep, ptState, child>>

(***************************************************************************)
(* ptb_map.  Every entry of a page table is read by mmu_pm_get, through    *)
(* the one window TMP1 of the kernel, after tmp1_lock has been released:   *)
(* another process may have moved the window, and what is read is another  *)
(* word, whose bit PT_P is anything.                                       *)
(***************************************************************************)

\* Page va is mapped to frame f if ok.  The lookups: whether there is a page table,
\* without which one is made (mmu_pte_set asserts that there is none); again, in
\* mmu_map, which is E_NOTFOUND without; whether there is an entry, which is
\* E_EXIST.  The frames back are given back.
ptb_map(va, f, ok, back) == \E table, again, entry \in BOOLEAN :
    LET pte == va \div PteSpan
        tables == IF table THEN ptes ELSE ptes \cup {pte}
        entries == IF table THEN ptb ELSE [v \in {u \in DOMAIN ptb : u \div PteSpan # pte} |-> ptb[v]]
    IN  /\ ~ ptb_leaked
        /\ table \/ frames # {}
        /\ again => pte \in tables
        /\ ok = (again /\ ~ entry)
        /\ ptes' = tables
        /\ ptb' = IF ok THEN (va :> f) @@ entries ELSE entries
        /\ frames' = back \cup IF table THEN frames ELSE frames \ {Min(frames)}
        /\ moved' = \/ moved
                    \/ table # (pte \in ptes) \/ again # (pte \in tables)
                    \/ (again /\ entry # (va \in DOMAIN entries))
        /\ UNCHANGED ptb_leaked

\* There is no page frame for the page table: the function returns with the lock held.
ptb_map_leaks(va) ==
    /\ ~ ptb_leaked
    /\ frames = {}
    /\ ptb_leaked' = TRUE
    /\ moved' = (moved \/ va \div PteSpan \in ptes)
    /\ UNCHANGED <<ptb, ptes>>

\* What else a word of another page leads to: the assertion of mmu_pte_set, a fault
\* in the window, or a page table that is none, and is written to.
WindowFails(t) ==
    /\ At(t, "map") \/ At(t, "kmap")
    /\ ~ ptb_leaked
    /\ Fail("window")

\* One round of the loop of kmalloc_page
km_map(t) ==
    LET l == th[t]
        n == PagesOf(l)
        run == l.frame .. l.frame + n - 1
    IN  /\ At(t, "kmap")
        /\ \/ /\ ptb_map(l.at + l.n, l.frame + l.n, TRUE, {})
              /\ IF l.n + 1 < n THEN th' = [th EXCEPT ![t].n = @ + 1] /\ UNCHANGED <<norm, given>>
                 ELSE /\ norm' = [v \in Span(l.at, n) |-> l.frame + v - l.at] @@ norm
                      /\ GotPages(t, l.at)
              /\ UNCHANGED vp_alct
           \/ /\ \/ ptb_map(l.at + l.n, l.frame + l.n, FALSE, run)
                 \/ ptb_map_leaks(l.at + l.n) /\ frames' = run
              /\ vp_alct' = Freed(vp_alct, l.at)
              /\ Return(t, << >>)
              /\ UNCHANGED norm
        /\ UNCHANGED <<vm_leaked, heap_e, freep, child, failed>>

-----------------------------------------------------------------------------
(***************************************************************************)
(* um_page_fault_hdl                                                       *)
(***************************************************************************)

GivenPages == UNION {r[1] \div Units .. (r[2] - 1) \div Units : r \in Range(given)}

\* layout.args_s
ArgsPage == HeapPages

\* A thread uses memory it has, or its arguments.
touch(t) == \E q \in GivenPages \cup {ArgsPage} :
    /\ side = "user"
    /\ At(t, "idle")
    /\ q \notin DOMAIN ptb
    /\ th' = [u \in Threads |->
                IF u = t THEN [Idle EXCEPT !.pc = "use", !.q = q, !.alone = Active = {}]
                ELSE [th[u] EXCEPT !.alone = th[u].pc = "idle"]]
    /\ UNCHANGED <<vmState, heap_e, freep, ptState, frames, given, child, failed>>

used(t) ==
    /\ At(t, "use")
    /\ th[t].q \in DOMAIN ptb
    /\ Return(t, << >>)
    /\ UNCHANGED <<vmState, heap_e, freep, ptState, frames, child, failed>>

Touched(l) == CASE l.pc = "zero" -> l.at [] l.pc = "count" -> l.slot \div Units [] l.pc = "use" -> l.q

page_fault(t) ==
    /\ failed = "no"
    /\ th[t].pc \in {"zero", "count", "use"}
    /\ Touched(th[t]) \notin DOMAIN ptb
    /\ th' = [th EXCEPT ![t].q = Touched(th[t]), ![t].back = th[t].pc, ![t].pc = "search"]
    /\ UNCHANGED <<vmState, heap_e, freep, ptState, frames, given, child, failed>>

\* The handler gives up; the access faults again.
GiveUp(t) ==
    th' = [th EXCEPT ![t].pc = th[t].back, ![t].back = "idle", ![t].n = 0, ![t].frame = 0,
                     ![t].q = IF th[t].back = "use" THEN @ ELSE 0]

AreaOf(q) == {n \in DOMAIN vp_alct.alloced : q \in Span(n, vp_alct.alloced[n])}

\* The page of the arguments has no area.
fault_args(t) ==
    /\ At(t, "search")
    /\ th[t].q = ArgsPage
    /\ Goto(t, "frame")
    /\ UNCHANGED <<vmState, heap_e, freep, ptState, frames, given, child, failed>>

\* vm_search_addr, and the tests of vp->type: an area that is UM_NORMAL already
\* is an endless loop.  No area is ever UM_RCU.
fault_search(t) ==
    /\ At(t, "search")
    /\ th[t].q < heap_e
    /\ ~ vm_leaked
    /\ \/ AreaOf(th[t].q) = {} /\ GiveUp(t)
       \/ \E vp \in AreaOf(th[t].q) :
            th' = [th EXCEPT ![t].n = vp, ![t].pc = IF vp \in DOMAIN norm THEN "spin" ELSE "slice"]
    /\ UNCHANGED <<vmState, heap_e, freep, ptState, frames, given, child, failed>>

\* vm_slice asserts that the area is as it was when the search found it.
fault_slice(t) == LET l == th[t] IN
    /\ At(t, "slice")
    /\ ~ vm_leaked
    /\ IF l.n \in DOMAIN norm \/ l.n \notin AreaOf(l.q) THEN Fail("slice assertion")
       ELSE /\ \E room \in 0 .. 2 : vp_alct' = Sliced(vp_alct, l.n, l.q, room)
            /\ IF l.q \in DOMAIN vp_alct'.alloced /\ vp_alct'.alloced[l.q] = 1 THEN Goto(t, "frame") ELSE GiveUp(t)
            /\ UNCHANGED <<vm_leaked, heap_e, freep, ptState, frames, given, child, failed>>

fault_frame(t) ==
    /\ At(t, "frame")
    /\ \/ frames = {} /\ GiveUp(t) /\ UNCHANGED frames
       \/ /\ frames # {}
          /\ frames' = frames \ {Min(frames)}
          /\ th' = [th EXCEPT ![t].frame = Min(frames), ![t].pc = "map"]
    /\ UNCHANGED <<vmState, heap_e, freep, ptState, given, child, failed>>

\* Mutant: the result of ptb_map is not looked at.
fault_map_Ignores(t) == LET l == th[t] IN
    /\ At(t, "map")
    /\ \/ (\E ok \in BOOLEAN : ptb_map(l.q, l.frame, ok, {})) /\ Goto(t, "mark")
       \/ ptb_map_leaks(l.q) /\ GiveUp(t) /\ UNCHANGED frames
    /\ UNCHANGED <<norm, vmState, heap_e, freep, given, child, failed>>

\* ptb_map; E_EXIST, when another thread was faster, is an error.
fault_map(t) == LET l == th[t] IN
    /\ At(t, "map")
    /\ \/ ptb_map(l.q, l.frame, TRUE, {}) /\ IF l.q = ArgsPage THEN GiveUp(t) ELSE Goto(t, "mark")
       \/ ptb_map(l.q, l.frame, FALSE, {}) /\ GiveUp(t)
       \/ ptb_map_leaks(l.q) /\ GiveUp(t) /\ UNCHANGED frames
    /\ UNCHANGED <<norm, vmState, heap_e, freep, given, child, failed>>

\* vp->map_page = page, vp->type = UM_NORMAL
fault_mark(t) ==
    /\ At(t, "mark")
    /\ norm' = (th[t].q :> th[t].frame) @@ norm
    /\ GiveUp(t)
    /\ UNCHANGED <<vmState, heap_e, freep, ptb, ptes, ptb_leaked, moved, frames, given, child, failed>>
-----------------------------------------------------------------------------
(***************************************************************************)
(* um_fork                                                                 *)
(***************************************************************************)

\* The loop of vm_fork for page q that is UM_NORMAL.  The result of ptb_map is not
\* looked at; if it left the lock held, the next call waits for good.
ForkPage(c, q) ==
    LET f == Min(c.frames)
        rest == c.frames \ {f}
        pte == q \div PteSpan
        d == [c EXCEPT !.norm = (q :> f) @@ @, !.frames = rest]
    IN  IF c.stopped THEN c
        ELSE IF c.frames = {} \/ c.leaked THEN [c EXCEPT !.stopped = TRUE]
        ELSE IF pte \in c.ptes THEN [d EXCEPT !.ptb = (q :> f) @@ @]
        ELSE IF rest = {} THEN [d EXCEPT !.leaked = TRUE]
        ELSE [d EXCEPT !.ptb = (q :> f) @@ @, !.ptes = @ \cup {pte}, !.frames = rest \ {Min(rest)}]

\* The memory of do_fork, which asserts that there is a page frame for the new
\* page directory (and for one that proc_new made in vain).  ptb_fork does not
\* clear it and ptb_map may misread it, so it may be dirty.
um_fork ==
    LET none == [norm |-> << >>, ptb |-> << >>, ptes |-> {}, frames |-> frames \ {Min(frames), Max(frames)},
                 leaked |-> FALSE, stopped |-> FALSE, of |-> DOMAIN norm, dirty |-> FALSE]
        c == FoldLeft(ForkPage, none, SetToSortSeq(DOMAIN norm, <))
    IN  /\ failed = "no" /\ side = "user" /\ child = NULL /\ ~ vm_leaked /\ norm # << >>
        /\ IF Cardinality(frames) < 2 THEN Fail("fork assertion")
           ELSE /\ \E dirty \in BOOLEAN : child' = [c EXCEPT !.dirty = dirty, !.frames = {}]
                /\ frames' = c.frames
                /\ vm_leaked' = c.stopped
                /\ UNCHANGED <<vp_alct, heap_e, freep, ptState, th, given, failed>>

Step(t) ==
    \/ malloc(t) \/ slab_test(t) \/ slab_page(t) \/ slab_zero(t) \/ slab_take(t) \/ slab_count(t)
    \/ um_alloc(t) \/ um_heap_alloc(t) \/ um_heap_grow(t) \/ um_insert(t)
    \/ km_pm_alloc(t) \/ km_vm_alloc(t) \/ km_map(t)
    \/ touch(t) \/ used(t) \/ page_fault(t)
    \/ fault_args(t) \/ fault_search(t) \/ fault_slice(t) \/ fault_frame(t) \/ fault_map(t) \/ fault_mark(t)
    \/ WindowFails(t)

MemNext == UNCHANGED side /\ (um_fork \/ \E t \in Threads : Step(t))

Symmetry == Permutations(Threads)

-----------------------------------------------------------------------------
(***************************************************************************)
(* Properties                                                              *)
(***************************************************************************)

Injective(f) == \A x, y \in DOMAIN f : f[x] = f[y] => x = y

\* However the faults of two threads on one page interleave, and whatever ptb_map
\* reads through a window that was moved, a page frame that is mapped is mapped once
\* and is not free; and as long as nothing was misread an area that says it is backed
\* is mapped to the page frame it names.  In the kernel this ends when ptb_map fails:
\* kmalloc_page then frees page frames that are mapped.
MappedOnce ==
    ~ (side = "kernel" /\ (ptb_leaked \/ moved)) =>
    /\ Injective(ptb)
    /\ \A v \in DOMAIN ptb : ptb[v] \notin frames
    /\ ~ moved => \A v \in DOMAIN norm : v \in DOMAIN ptb /\ ptb[v] = norm[v]

\* No two allocations return memory in common, although a free area may be taken
\* by another thread than the one that added it, and whatever ptb_map misreads: as
\* long as no two threads met in slab_alloc or in um_heap_alloc, which take no lock.
GivenDisjoint == \A i, j \in DOMAIN given : i < j => given[i][2] <= given[j][1] \/ given[j][2] <= given[i][1]

\* What goes wrong for good, the assertion of vm_slice, the endless loop on an area
\* that is UM_NORMAL, an object or a piece of heap handed out twice, takes two
\* threads at a time: a call that meets no other one, and whose page table was never
\* misread, is safe.
RacesOnly ==
    [][\A t \in Threads :
        /\ failed' \in {"slab race", "heap race", "slice assertion"} => \E u \in Active : ~ th[u].alone
        /\ th'[t].pc = "spin" => ~ th[t].alone \/ moved]_memVars

\* A fork that ran to its end has a page frame of its own for every page that was
\* backed, unless its page table could not be extended or was dirty.
ForkCopies ==
    ~ (child = NULL \/ child.stopped \/ child.leaked \/ child.dirty) =>
    /\ DOMAIN child.norm = child.of
    /\ child.ptb = child.norm
    /\ Injective(child.ptb)
    /\ \A q \in child.of : child.ptb[q] \notin frames /\ \A v \in DOMAIN ptb : child.ptb[q] # ptb[v]
=============================================================================

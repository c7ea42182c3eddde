------------------------------ MODULE MCAlloc ------------------------------
(***************************************************************************)
(* The allocators of the kernel for TLC: in a behaviour page frames are    *)
(* allocated, or identifiers, or areas of virtual memory, or threads get   *)
(* memory from all of them together, so that the state spaces add up.      *)
(***************************************************************************)
EXTENDS Buddy, IdxAlct, VmAlct, Memory

VARIABLE part

Roms == {-3, 0, 99}

Init ==
    /\ BuddyInit /\ IdxInit /\ VmInit /\ MemInit
    /\ part \in {"frames", "ids", "areas", "memory"}
    /\ part # "ids" => rom = 0
    /\ part # "memory" => side = "user"

Next ==
    /\ UNCHANGED part
    /\ \/ part = "frames" /\ BuddyNext /\ UNCHANGED <<idxVars, vmVars, memVars>>
       \/ part = "ids" /\ IdxNext /\ UNCHANGED <<buddyVars, vmVars, memVars>>
       \/ part = "areas" /\ VmNext /\ UNCHANGED <<buddyVars, idxVars, memVars>>
       \/ part = "memory" /\ MemNext /\ UNCHANGED <<buddyVars, idxVars, vmVars>>

Spec == Init /\ [][Next]_<<part, buddyVars, idxVars, vmVars, memVars>>

-----------------------------------------------------------------------------
(***************************************************************************)
(* The properties of the part that runs; the other parts stand still.      *)
(***************************************************************************)

\* Whatever is allocated, divided, merged and freed in whatever order by pm.c, no
\* page frame is lost or handed out twice, the records agree, what can be merged
\* is merged, and no slot leaks.
BlocksSound ==
    part = "frames" =>
        BuddyTypeOK /\ FramesPartitioned /\ RecordsAgree /\ Coalesced /\ SlotsAccounted

\* idx_alct.c keeps its tree red-black and, while nothing is deleted, its promise
\* to hand out the smallest identifier.
IdsSound == part = "ids" => IdsRedBlack /\ GrowsInOrder

\* The areas of vm.c are kept apart, found again and copied exactly, through
\* every insertion, merge, division and removal in the augmented tree.
AreasSound == part = "areas" => FreeTreeExact /\ PagesAccounted /\ SearchFinds /\ ForkSame

\* However the threads interleave in memory.c, um.c and ptb.c, and whatever mmu.c
\* reads through its window, no page frame is mapped twice, no memory is returned
\* twice, and a process and its fork share no page frame: up to the first time that
\* two threads meet where slab.c and um.c take no lock, which RacesOnly is about.
NothingShared == part = "memory" => MappedOnce /\ GivenDisjoint /\ ForkCopies
=============================================================================

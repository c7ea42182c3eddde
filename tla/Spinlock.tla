------------------------------ MODULE Spinlock ------------------------------
(***************************************************************************)
(* The ticket spinlock of include/spinlock.h (struct spinlock_t).          *)
(*                                                                         *)
(* A context draws a ticket with one atomic add and spins until the        *)
(* counter now serving shows it.  Both counters are machine integers that  *)
(* wrap around; Tickets is the number of their values (2^32 in the code).  *)
(* The lock is released before its owner field is cleared, in two steps,   *)
(* so the clearing may land after the next holder wrote its own name.      *)
(***************************************************************************)
EXTENDS Naturals, Sequences, FiniteSets

CONSTANTS Procs,        \* the contexts (threads, scheduler loops) that contend
          Tickets,      \* number of values of a ticket counter
          NULL          \* the owner field of a free lock

ASSUME SpinlockAssumption ==
    /\ IsFiniteSet(Procs)
    /\ Tickets \in Nat \ {0}
    /\ Cardinality(Procs) <= Tickets
    /\ NULL \notin Procs

VARIABLES ticket_get,   \* next ticket to hand out
          ticket_now,   \* ticket being served
          owner,        \* the owner field, written after acquiring and releasing
          pc,           \* where each context is in the lock's code
          ticket,       \* the ticket each context drew
          queue         \* history: the contexts that drew a ticket, in that order

vars == <<ticket_get, ticket_now, owner, pc, ticket, queue>>

Labels == {"out", "spin", "mark", "held", "clear"}

Inc(n) == IF n = Tickets - 1 THEN 0 ELSE n + 1

\* spin_init
Init ==
    /\ ticket_get = 0
    /\ ticket_now = 0
    /\ owner = NULL
    /\ pc = [p \in Procs |-> "out"]
    /\ ticket = [p \in Procs |-> 0]
    /\ queue = <<>>

\* Mutant: the owner field is written when the ticket is drawn.
spin_lock_OwnerEarly(p) ==
    /\ pc[p] = "out"
    /\ ticket' = [ticket EXCEPT ![p] = ticket_get]
    /\ ticket_get' = Inc(ticket_get)
    /\ owner' = p
    /\ queue' = Append(queue, p)
    /\ pc' = [pc EXCEPT ![p] = "spin"]
    /\ UNCHANGED ticket_now

\* spin_lock: draw a ticket with atomic_add_return.
spin_lock(p) ==
    /\ pc[p] = "out"
    /\ ticket' = [ticket EXCEPT ![p] = ticket_get]
    /\ ticket_get' = Inc(ticket_get)
    /\ queue' = Append(queue, p)
    /\ pc' = [pc EXCEPT ![p] = "spin"]
    /\ UNCHANGED <<ticket_now, owner>>

\* Mutant: the spin loop ends when the lock is free, whoever is next.
spin_lock_acquire_Barges(p) ==
    /\ pc[p] = "spin"
    /\ \A q \in Procs : pc[q] \notin {"mark", "held"}
    /\ pc' = [pc EXCEPT ![p] = "mark"]
    /\ UNCHANGED <<ticket_get, ticket_now, owner, ticket, queue>>

\* spin_lock: the spin loop reads its own ticket in ticket_now and ends.
spin_lock_acquire(p) ==
    /\ pc[p] = "spin"
    /\ ticket_now = ticket[p]
    /\ pc' = [pc EXCEPT ![p] = "mark"]
    /\ UNCHANGED <<ticket_get, ticket_now, owner, ticket, queue>>

\* spin_lock: write the owner field.
spin_lock_owner(p) ==
    /\ pc[p] = "mark"
    /\ owner' = p
    /\ pc' = [pc EXCEPT ![p] = "held"]
    /\ UNCHANGED <<ticket_get, ticket_now, ticket, queue>>

\* spin_unlock: serve the next ticket.
spin_unlock(p) ==
    /\ pc[p] = "held"
    /\ ticket_now' = Inc(ticket_now)
    /\ queue' = Tail(queue)
    /\ pc' = [pc EXCEPT ![p] = "clear"]
    /\ UNCHANGED <<ticket_get, owner, ticket>>

\* spin_unlock: clear the owner field, after the lock is already free.
spin_unlock_owner(p) ==
    /\ pc[p] = "clear"
    /\ owner' = NULL
    /\ pc' = [pc EXCEPT ![p] = "out"]
    /\ UNCHANGED <<ticket_get, ticket_now, ticket, queue>>

Next == \E p \in Procs :
    \/ spin_lock(p)
    \/ spin_lock_acquire(p)
    \/ spin_lock_owner(p)
    \/ spin_unlock(p)
    \/ spin_unlock_owner(p)

\* A context in the lock's code keeps executing; it need not ask for the lock.
Fairness == \A p \in Procs :
    WF_vars(spin_lock_acquire(p) \/ spin_lock_owner(p) \/ spin_unlock(p) \/ spin_unlock_owner(p))

Spec == Init /\ [][Next]_vars

FairSpec == Spec /\ Fairness

-----------------------------------------------------------------------------
(***************************************************************************)
(* Properties                                                              *)
(***************************************************************************)

TypeOK ==
    /\ ticket_get \in 0 .. Tickets - 1
    /\ ticket_now \in 0 .. Tickets - 1
    /\ owner \in Procs \cup {NULL}
    /\ pc \in [Procs -> Labels]
    /\ ticket \in [Procs -> 0 .. Tickets - 1]
    /\ queue \in Seq(Procs)

Holding(p) == pc[p] \in {"mark", "held"}

\* Two contexts never both pass the spin loop of spin_lock without an
\* intervening spin_unlock, although the ticket counters wrap around.
MutualExclusion == \A p, q \in Procs : Holding(p) /\ Holding(q) => p = q

\* The late clearing of the owner field in spin_unlock can erase the next
\* holder's name but never leaves the name of a context that is not the holder
\* in the field of a lock whose holder has written it.
OwnerNeverWrong == \A p \in Procs : pc[p] = "held" => owner \in {p, NULL}

\* spin_lock/spin_unlock serve contexts in the order of their tickets, one at
\* a time: the lock is a FIFO lock.
status == [p \in Procs |-> CASE pc[p] = "spin" -> "waiting"
                             [] pc[p] \in {"mark", "held"} -> "holding"
                             [] OTHER -> "out"]

Fifo == INSTANCE FifoLock WITH queue <- queue, status <- status

IsFifoLock == Fifo!Spec

\* No context spins for ever in spin_lock while holders keep releasing.
NoStarvation == \A p \in Procs : pc[p] = "spin" ~> pc[p] = "held"
=============================================================================

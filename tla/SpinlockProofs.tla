--------------------------- MODULE SpinlockProofs ---------------------------
(***************************************************************************)
(* Proofs about the ticket spinlock of include/spinlock.h, for any number  *)
(* of contexts and any width of the ticket counters that gives each of     *)
(* them a ticket of its own.                                               *)
(*                                                                         *)
(* The invariant ties the counters to the history queue: the context at    *)
(* place i of the queue drew the ticket ticket_now + i - 1, modulo the     *)
(* counters' width, and the next ticket is the one after the last.  The    *)
(* queue is never longer than the number of contexts, so its tickets are   *)
(* pairwise different and only the head can see its own in ticket_now.     *)
(***************************************************************************)
EXTENDS Spinlock, QueueTheorems, SequenceTheorems, FiniteSetTheorems

\* A queue without duplicates is no longer than the set its nodes come from,
\* and strictly shorter when some member of that set is not on it.
LEMMA QueueLength ==
    ASSUME NEW S, IsFiniteSet(S), NEW q \in Seq(S), NoDuplicates(q)
    PROVE  /\ Len(q) <= Cardinality(S)
           /\ \A x \in S : ~ InQueue(q, x) => Len(q) < Cardinality(S)
<1>1. Len(q) \in Nat /\ q \in [1 .. Len(q) -> S]
    BY LenProperties
<1>2. q \in Injection(1 .. Len(q), S)
    BY <1>1 DEF Injection, IsInjective, NoDuplicates
<1>3. /\ Cardinality(1 .. Len(q)) <= Cardinality(S)
      /\ Cardinality(1 .. Len(q)) = Cardinality(S) <=> q \in Surjection(1 .. Len(q), S)
    BY <1>2, FS_Injection
<1>4. Cardinality(1 .. Len(q)) = Len(q)
    <2> DEFINE n == Len(q)
    <2>1. n \in Nat /\ 1 \in Int
        BY <1>1
    <2> HIDE DEF n
    <2>2. n \in Int
        BY <2>1
    <2>3. Cardinality(1 .. n) = IF 1 > n THEN 0 ELSE n - 1 + 1
        BY <2>1, <2>2, FS_Interval, Zenon
    <2>4. Cardinality(1 .. n) = n
        BY <2>1, <2>3
    <2> QED BY <2>4 DEF n
<1>5. Cardinality(S) \in Nat
    BY FS_CardinalityType
<1>6. ASSUME NEW x \in S, ~ InQueue(q, x) PROVE q \notin Surjection(1 .. Len(q), S)
    BY <1>6 DEF Surjection, InQueue
<1> QED BY <1>1, <1>3, <1>4, <1>5, <1>6

Plus(a, k) == IF a + k < Tickets THEN a + k ELSE a + k - Tickets

QueueInv ==
    /\ NoDuplicates(queue)
    /\ \A p \in Procs : InQueue(queue, p) <=> pc[p] \in {"spin", "mark", "held"}

TicketInv ==
    /\ ticket_get = Plus(ticket_now, Len(queue))
    /\ \A i \in 1 .. Len(queue) : ticket[queue[i]] = Plus(ticket_now, i - 1)

HolderInv == \A p \in Procs : Holding(p) => IsHead(queue, p)

Inv == TypeOK /\ QueueInv /\ TicketInv /\ HolderInv /\ OwnerNeverWrong

USE SpinlockAssumption, ZenonT(3), SMTT(30)

\* Adding around the counters' wrap-around point.
LEMMA PlusOfInc ==
    ASSUME NEW a \in 0 .. Tickets - 1, NEW k \in Nat
    PROVE  /\ k < Tickets => Inc(Plus(a, k)) = Plus(a, k + 1)
           /\ k > 0 /\ k <= Tickets => Plus(Inc(a), k - 1) = Plus(a, k)
BY DEF Plus, Inc

\* Every context has room in the counters.
LEMMA QueueFits ==
    ASSUME TypeOK, QueueInv
    PROVE  /\ Len(queue) \in Nat
           /\ Len(queue) <= Tickets
           /\ \A p \in Procs : pc[p] \in {"out", "clear"} => Len(queue) < Tickets
<1>1. Len(queue) \in Nat
    BY LenProperties DEF TypeOK
<1>2. Cardinality(Procs) \in Nat
    BY FS_CardinalityType
<1>3. /\ Len(queue) <= Cardinality(Procs)
      /\ \A x \in Procs : ~ InQueue(queue, x) => Len(queue) < Cardinality(Procs)
    BY QueueLength DEF TypeOK, QueueInv
<1>4. \A p \in Procs : pc[p] \in {"out", "clear"} => ~ InQueue(queue, p)
    BY DEF QueueInv
<1> QED BY <1>1, <1>2, <1>3, <1>4

\* A context that reads its ticket in ticket_now is at the head of the queue.
LEMMA ServedIsHead ==
    ASSUME TypeOK, QueueInv, TicketInv, NEW p \in Procs,
           InQueue(queue, p), ticket[p] = ticket_now
    PROVE  IsHead(queue, p)
<1>1. PICK i \in 1 .. Len(queue) : queue[i] = p
    BY DEF InQueue
<1>2. Len(queue) \in Nat /\ Len(queue) <= Tickets
    BY QueueFits
<1>3. Plus(ticket_now, i - 1) = ticket_now
    BY <1>1 DEF TicketInv
<1>4. i = 1
    BY <1>1, <1>2, <1>3 DEF Plus, TypeOK
<1> QED BY <1>1, <1>2, <1>4, EmptySeq DEF IsHead, TypeOK

LEMMA InitInv == Init => Inv
<1> SUFFICES ASSUME Init PROVE Inv
    OBVIOUS
<1>1. Len(queue) = 0 /\ queue \in Seq(Procs)
    BY EmptySeq DEF Init
<1> QED BY <1>1 DEF Init, Inv, TypeOK, QueueInv, TicketInv, HolderInv, OwnerNeverWrong, Labels,
            NoDuplicates, InQueue, Holding, Plus

LEMMA StepInv == Inv /\ [Next]_vars => Inv'
<1> SUFFICES ASSUME Inv, [Next]_vars PROVE Inv'
    OBVIOUS
<1> USE DEF Inv
<1>0. /\ Len(queue) \in Nat
      /\ Len(queue) <= Tickets
      /\ \A p \in Procs : pc[p] \in {"out", "clear"} => Len(queue) < Tickets
    BY QueueFits
<1>1. ASSUME NEW p \in Procs, spin_lock(p) PROVE Inv'
    <2> USE <1>1 DEF spin_lock
    <2>1. ~ InQueue(queue, p)
        BY DEF QueueInv
    <2>2. /\ queue' \in Seq(Procs)
          /\ NoDuplicates(queue')
          /\ \A y : InQueue(queue', y) <=> InQueue(queue, y) \/ y = p
          /\ \A y : IsHead(queue, y) => IsHead(queue', y)
        BY <2>1, QueueAppend DEF QueueInv, TypeOK
    <2>3. /\ Len(queue') = Len(queue) + 1
          /\ \A i \in 1 .. Len(queue) : queue'[i] = queue[i]
          /\ queue'[Len(queue) + 1] = p
        BY AppendProperties DEF TypeOK
    <2>4. Len(queue) < Tickets
        BY <1>0
    <2>5. TypeOK'
        BY <2>2 DEF TypeOK, Labels, Inc
    <2>6. QueueInv'
        BY <2>2 DEF QueueInv, TypeOK
    <2>7. TicketInv'
        <3>1. ticket_get' = Plus(ticket_now', Len(queue'))
            <4>1. Inc(Plus(ticket_now, Len(queue))) = Plus(ticket_now, Len(queue) + 1)
                BY <2>4, <1>0, PlusOfInc DEF TypeOK
            <4> QED BY <4>1, <2>3 DEF TicketInv
        <3>2. ASSUME NEW i \in 1 .. Len(queue') PROVE ticket'[queue'[i]] = Plus(ticket_now', i - 1)
            <4>1. CASE i = Len(queue) + 1
                BY <4>1, <2>3, <1>0 DEF TicketInv, TypeOK, Plus
            <4>2. CASE i \in 1 .. Len(queue)
                <5>1. queue[i] \in Procs /\ queue[i] # p
                    BY <4>2, <2>1, ElementOfSeq DEF InQueue, TypeOK
                <5> QED BY <5>1, <4>2, <2>3 DEF TicketInv, TypeOK, Plus
            <4> QED BY <4>1, <4>2, <2>3, <1>0
        <3> QED BY <3>1, <3>2 DEF TicketInv
    <2>8. HolderInv'
        BY <2>2 DEF HolderInv, Holding, TypeOK
    <2>9. OwnerNeverWrong'
        BY DEF OwnerNeverWrong, TypeOK
    <2> QED BY <2>5, <2>6, <2>7, <2>8, <2>9
<1>2. ASSUME NEW p \in Procs, spin_lock_acquire(p) PROVE Inv'
    <2> USE <1>2 DEF spin_lock_acquire
    <2>1. IsHead(queue, p)
        BY ServedIsHead DEF QueueInv
    <2>2. TypeOK' /\ QueueInv' /\ TicketInv' /\ OwnerNeverWrong'
        BY Zenon DEF TypeOK, Labels, QueueInv, TicketInv, OwnerNeverWrong, Plus
    <2>3. HolderInv'
        BY <2>1 DEF HolderInv, Holding, TypeOK
    <2> QED BY <2>2, <2>3
<1>3. ASSUME NEW p \in Procs, spin_lock_owner(p) PROVE Inv'
    <2> USE <1>3 DEF spin_lock_owner
    <2>1. TypeOK' /\ QueueInv' /\ TicketInv' /\ HolderInv'
        BY DEF TypeOK, Labels, QueueInv, TicketInv, HolderInv, Holding, Plus
    <2>2. \A q \in Procs : pc'[q] = "held" => q = p
        BY DEF HolderInv, Holding, IsHead, TypeOK
    <2>3. OwnerNeverWrong'
        BY <2>2 DEF OwnerNeverWrong
    <2> QED BY <2>1, <2>3
<1>4. ASSUME NEW p \in Procs, spin_unlock(p) PROVE Inv'
    <2> USE <1>4 DEF spin_unlock
    <2>1. queue # <<>> /\ queue[1] = p
        BY DEF HolderInv, Holding, IsHead
    <2>2. /\ queue' \in Seq(Procs)
          /\ NoDuplicates(queue')
          /\ \A y : InQueue(queue', y) <=> InQueue(queue, y) /\ y # p
          /\ Len(queue') = Len(queue) - 1
          /\ \A i \in 1 .. Len(queue) - 1 : queue'[i] = queue[i + 1]
        BY <2>1, QueueTail DEF QueueInv, TypeOK
    <2>3. TypeOK'
        BY <2>2 DEF TypeOK, Labels, Inc
    <2>4. QueueInv'
        BY <2>2 DEF QueueInv, TypeOK
    <2>5. TicketInv'
        <3>1. Len(queue) > 0
            BY <2>1, <1>0, EmptySeq DEF TypeOK
        <3>2. \A i \in 1 .. Len(queue') : i + 1 \in 1 .. Len(queue)
            BY <2>2, <1>0
        <3>3. \A i \in 1 .. Len(queue') : Plus(ticket_now, i) = Plus(ticket_now', i - 1)
            BY <2>2, <1>0, PlusOfInc DEF TypeOK
        <3>4. ticket_get' = Plus(ticket_now', Len(queue'))
            <4>1. Plus(Inc(ticket_now), Len(queue) - 1) = Plus(ticket_now, Len(queue))
                BY <3>1, <1>0, PlusOfInc DEF TypeOK
            <4> QED BY <4>1, <2>2 DEF TicketInv
        <3>5. ASSUME NEW i \in 1 .. Len(queue') PROVE ticket'[queue'[i]] = Plus(ticket_now', i - 1)
            <4>1. ticket[queue[i + 1]] = Plus(ticket_now, (i + 1) - 1)
                BY <3>2 DEF TicketInv
            <4>2. (i + 1) - 1 = i /\ queue'[i] = queue[i + 1]
                BY <2>2, <1>0
            <4> QED BY <4>1, <4>2, <3>3
        <3> QED BY <3>4, <3>5 DEF TicketInv
    <2>6. HolderInv'
        BY <2>1 DEF HolderInv, Holding, IsHead, TypeOK
    <2>7. OwnerNeverWrong'
        BY DEF OwnerNeverWrong, TypeOK
    <2> QED BY <2>3, <2>4, <2>5, <2>6, <2>7
<1>5. ASSUME NEW p \in Procs, spin_unlock_owner(p) PROVE Inv'
    BY <1>5 DEF spin_unlock_owner, TypeOK, Labels, QueueInv, TicketInv, HolderInv, Holding,
            OwnerNeverWrong, Plus
<1>6. CASE UNCHANGED vars
    BY <1>6 DEF vars, TypeOK, QueueInv, TicketInv, HolderInv, Holding, OwnerNeverWrong, Plus
<1> QED BY <1>1, <1>2, <1>3, <1>4, <1>5, <1>6 DEF Next

\* The counters, the queue and the owner field keep the invariant on every
\* execution of spin_lock and spin_unlock.
THEOREM Invariance == Spec => []Inv
BY InitInv, StepInv, PTL DEF Spec

\* No two contexts hold the spinlock at once, whatever the number of contexts,
\* although ticket_get and ticket_now wrap around.
THEOREM SpinlockMutualExclusion == Spec => []MutualExclusion
<1>1. Inv => MutualExclusion
    BY DEF Inv, HolderInv, MutualExclusion, IsHead
<1> QED BY <1>1, Invariance, PTL

\* The owner field of a held lock is never the name of another context.
THEOREM SpinlockOwner == Spec => []OwnerNeverWrong
BY Invariance, PTL DEF Inv

-----------------------------------------------------------------------------
(***************************************************************************)
(* The ticket lock implements the FIFO lock.                               *)
(***************************************************************************)

LEMMA FifoInit == Init => Fifo!Init
BY DEF Init, Fifo!Init, status

LEMMA FifoStep == Inv /\ [Next]_vars => [Fifo!Next]_(Fifo!vars)
<1> SUFFICES ASSUME Inv, [Next]_vars PROVE [Fifo!Next]_(Fifo!vars)
    OBVIOUS
<1> USE DEF Inv, TypeOK
<1>1. ASSUME NEW p \in Procs, spin_lock(p) PROVE Fifo!Request(p)
    BY Zenon, <1>1 DEF spin_lock, Fifo!Request, status
<1>2. ASSUME NEW p \in Procs, spin_lock_acquire(p) PROVE Fifo!Grant(p)
    <2>1. queue # <<>> /\ queue[1] = p
        BY <1>2, ServedIsHead DEF spin_lock_acquire, QueueInv, IsHead
    <2>2. Head(queue) = p
        BY <2>1, QueueTail DEF QueueInv
    <2> QED BY Zenon, <1>2, <2>1, <2>2 DEF spin_lock_acquire, Fifo!Grant, status
<1>3. ASSUME NEW p \in Procs, spin_lock_owner(p) PROVE UNCHANGED Fifo!vars
    BY <1>3 DEF spin_lock_owner, Fifo!vars, status
<1>4. ASSUME NEW p \in Procs, spin_unlock(p) PROVE Fifo!Release(p)
    BY Zenon, <1>4 DEF spin_unlock, Fifo!Release, status
<1>5. ASSUME NEW p \in Procs, spin_unlock_owner(p) PROVE UNCHANGED Fifo!vars
    BY <1>5 DEF spin_unlock_owner, Fifo!vars, status
<1>6. CASE UNCHANGED vars
    BY <1>6 DEF vars, Fifo!vars, status
<1> QED BY <1>1, <1>2, <1>3, <1>4, <1>5, <1>6 DEF Next, Fifo!Next

\* spin_lock and spin_unlock serve the contexts in the order in which they
\* drew their tickets: every execution is an execution of the FIFO lock.
THEOREM SpinlockIsFifo == Spec => IsFifoLock
BY FifoInit, FifoStep, Invariance, PTL DEF Spec, IsFifoLock, Fifo!Spec
=============================================================================

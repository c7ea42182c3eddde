---------------------------- MODULE MutexProofs ----------------------------
(***************************************************************************)
(* The mutex of kernel/proc/thread/mutex.c hands over safely and is a FIFO *)
(* lock, for any number of CPUs and threads.                               *)
(*                                                                         *)
(* The argument: the threads that count has counted in stand in one line,  *)
(* claims.  wait_ls is that line without the thread in front, if that one  *)
(* has the mutex, and without the thread that was counted in and has not   *)
(* pushed itself yet.  That one holds the spinlock, so mutex_unlock, which *)
(* pops under the spinlock, finds the whole line on wait_ls, and everyone  *)
(* on it asleep.                                                           *)
(***************************************************************************)
EXTENDS Mutex, SchedTheorems

\* Labels with a ticket of mutex.lock, and those that only its holder reaches.
LockLabels == {"lock_spin", "lock_own", "lock_leave", "lock_push", "lock_block",
               "unlock_spin", "unlock_leave"}
HoldLabels == {"lock_own", "lock_leave", "lock_push", "lock_block", "unlock_leave"}

LockInv ==
    /\ NoDuplicates(lock)
    /\ \A t \in Threads : InQueue(lock, t) <=> pc[t] \in LockLabels
    /\ \A t \in Threads : pc[t] \in HoldLabels => IsHead(lock, t)

\* The labels at which a thread is counted in.
ClaimLabels == {"lock_own", "lock_leave", "lock_push", "lock_block", "lock_check", "held", "unlock_add"}

\* The thread has the mutex, or found it free.
Front(t) == Holding(t) \/ pc[t] = "lock_own"

\* The thread has counted itself out and is to hand the mutex over.
HandingLabels == {"unlock_lock", "unlock_spin", "unlock_leave", "unlock_run"}
ToPop(t) == pc[t] \in {"unlock_lock", "unlock_spin"}

ClaimsInv ==
    /\ NoDuplicates(claims)
    /\ \A t \in Threads : InQueue(claims, t) <=> pc[t] \in ClaimLabels
    /\ count = 1 - Len(claims)
    /\ \A t \in Threads : Front(t) => IsHead(claims, t)
    /\ claims # <<>> => \E t \in Threads : Front(t) \/ ToPop(t)
    /\ \A t \in Threads : ToPop(t) => claims # <<>> /\ \A u \in Threads : ~ Front(u)
    /\ \A t, u \in Threads : pc[t] \in HandingLabels /\ pc[u] \in HandingLabels => t = u

\* wait_ls is claims without its first d threads and without those that are to
\* push themselves.
Line(d) ==
    /\ Len(wait_ls) + d <= Len(claims)
    /\ \A i \in 1 .. Len(wait_ls) : wait_ls[i] = claims[i + d]
    /\ \A i \in Len(wait_ls) + d + 1 .. Len(claims) : pc[claims[i]] = "lock_push"

WaitInv ==
    /\ NoDuplicates(wait_ls)
    /\ \A t \in Threads : InQueue(wait_ls, t) <=>
          pc[t] = "lock_block" \/ (pc[t] = "lock_check" /\ owner # t)
    /\ \A t \in Threads : pc[t] = "lock_check" /\ owner # t => state[t] = "BLOCKED"
    /\ (\E t \in Threads : Front(t)) => Line(1)
    /\ (\A t \in Threads : ~ Front(t)) => Line(0)

\* The thread that was made the owner sleeps until it is woken up.
OwnerInv ==
    /\ owner # NULL => pc[owner] \in {"lock_leave", "held", "lock_check"}
    /\ \A t \in Threads : pc[t] \in {"lock_leave", "held"} => owner = t
    /\ \A t \in Threads : pc[t] \in {"unlock_leave", "unlock_run"} =>
          /\ next[t] \in Threads /\ owner = next[t]
          /\ pc[next[t]] = "lock_check" /\ state[next[t]] = "BLOCKED"

Inv == TypeOK /\ SchedInv /\ NoFailure /\ LockInv /\ ClaimsInv /\ WaitInv /\ OwnerInv

USE SchedAssumption, ZenonT(3), SMTT(30)

LEMMA InitInv == Init => Inv
<1> SUFFICES ASSUME Init PROVE Inv
    OBVIOUS
<1> USE DEF Init
<1>1. TypeOK
    <2>1. <<>> \in Seq(Threads)
        BY QueueEmpty
    <2>2. /\ count \in Int /\ count <= 1
          /\ pc \in [Threads -> Labels] /\ next \in [Threads -> Threads \cup {NULL}]
        BY DEF Labels
    <2> QED BY <2>1, <2>2, Zenon DEF TypeOK
<1>2. SchedInv
    BY SchedInitInv
<1>3. NoFailure /\ LockInv /\ OwnerInv
    BY DEF NoFailure, LockInv, OwnerInv, LockLabels, HoldLabels, InQueue, NoDuplicates
<1>4. \A t \in Threads : ~ Front(t) /\ ~ ToPop(t)
    BY DEF Front, Holding, ToPop
<1>5. ClaimsInv
    BY <1>4 DEF ClaimsInv, ClaimLabels, HandingLabels, InQueue, NoDuplicates
<1>6. WaitInv
    BY <1>4 DEF WaitInv, Line, InQueue, NoDuplicates
<1> QED BY <1>1, <1>2, <1>3, <1>5, <1>6 DEF Inv

-----------------------------------------------------------------------------
(***************************************************************************)
(* The scheduler and the spinlock                                          *)
(***************************************************************************)

\* The CPUs change hands between threads that are awake.
LEMMA SwitchInv ==
    ASSUME Inv, NEW c \in CPUs, Switch(c) PROVE Inv'
<1> USE DEF Inv
<1>1. SchedInv' /\ \E t \in Threads, s \in {"RUNNABEL", "RUNNING"} : Moves(t, {"RUNNABEL", "RUNNING"}, s)
    BY DispatchInv, PreemptInv DEF Switch, Moves
<1>2. PICK t \in Threads, s \in {"RUNNABEL", "RUNNING"} : Moves(t, {"RUNNABEL", "RUNNING"}, s)
    BY <1>1
<1>3. \A u \in Threads : state[u] = "BLOCKED" => state'[u] = "BLOCKED"
    BY <1>2 DEF Moves, SchedInv, SchedTypeOK
<1> USE DEF Switch, mutexVars
<1>4. TypeOK' /\ NoFailure' /\ LockInv' /\ ClaimsInv'
    BY DEF TypeOK, NoFailure, LockInv, ClaimsInv, Front, Holding, ToPop
<1>5. WaitInv' /\ OwnerInv'
    BY <1>3 DEF TypeOK, WaitInv, OwnerInv, Line, Front, Holding
<1> QED BY <1>1, <1>4, <1>5

\* A thread that draws a ticket of mutex.lock stands behind the others.
LEMMA DrawLockInv ==
    ASSUME Inv, NEW t \in Threads, NEW l \in LockLabels \ HoldLabels, pc[t] \notin LockLabels,
           lock' = Append(lock, t), Goto(t, l)
    PROVE  LockInv' /\ lock' \in Seq(Threads) /\ pc' \in [Threads -> Labels]
<1> USE DEF Inv
<1>1. ~ InQueue(lock, t)
    BY DEF LockInv
<1>2. /\ lock' \in Seq(Threads) /\ NoDuplicates(lock')
      /\ \A y : InQueue(lock', y) <=> InQueue(lock, y) \/ y = t
      /\ \A y : IsHead(lock, y) => IsHead(lock', y)
    BY <1>1, QueueAppend DEF TypeOK, LockInv
<1> QED BY <1>1, <1>2 DEF LockInv, TypeOK, Goto, LockLabels, HoldLabels, Labels

\* The holder of mutex.lock gives it to the next ticket.
LEMMA LeaveLockInv ==
    ASSUME Inv, NEW t \in Threads, NEW l \in Labels \ LockLabels, pc[t] \in HoldLabels,
           lock' = Tail(lock), Goto(t, l)
    PROVE  LockInv' /\ lock' \in Seq(Threads) /\ pc' \in [Threads -> Labels]
<1> USE DEF Inv
<1>1. IsHead(lock, t)
    BY DEF LockInv
<1>2. /\ lock' \in Seq(Threads) /\ NoDuplicates(lock')
      /\ \A y : InQueue(lock', y) <=> InQueue(lock, y) /\ y # t
    BY <1>1, QueueTail DEF TypeOK, LockInv, IsHead
<1>3. \A u \in Threads : pc'[u] \notin HoldLabels
    BY <1>1 DEF LockInv, TypeOK, Goto, IsHead, LockLabels, HoldLabels
<1> QED BY <1>2, <1>3 DEF LockInv, TypeOK, Goto

\* The holder of mutex.lock goes on with it.
LEMMA KeepLockInv ==
    ASSUME Inv, NEW t \in Threads, NEW l \in LockLabels, IsHead(lock, t), pc[t] \in LockLabels,
           UNCHANGED lock, Goto(t, l)
    PROVE  LockInv' /\ pc' \in [Threads -> Labels]
BY DEF Inv, LockInv, TypeOK, Goto, LockLabels, Labels

\* A step outside mutex.lock.
LEMMA NoLockInv ==
    ASSUME Inv, NEW t \in Threads, NEW l \in Labels \ LockLabels, pc[t] \notin LockLabels,
           UNCHANGED lock, Goto(t, l)
    PROVE  LockInv' /\ pc' \in [Threads -> Labels]
BY DEF Inv, LockInv, TypeOK, Goto, LockLabels, HoldLabels

\* A step that moves one thread between labels that are alike for the line of
\* threads leaves the line alone.
LEMMA SameLineInv ==
    ASSUME Inv, NEW t \in Threads, NEW l \in Labels, Goto(t, l),
           UNCHANGED <<count, owner, wait_ls, claims, next, state>>,
           \/ pc[t] = "out" /\ l = "lock_spin"
           \/ pc[t] = "lock_leave" /\ l = "held"
           \/ pc[t] = "lock_check" /\ owner = t /\ l = "held"
              /\ \A u \in Threads : pc[u] \in {"unlock_leave", "unlock_run"} => next[u] # t
           \/ pc[t] = "unlock_lock" /\ l = "unlock_spin"
           \/ pc[t] = "unlock_leave" /\ l = "unlock_run"
    PROVE  ClaimsInv' /\ WaitInv' /\ OwnerInv'
<1> USE DEF Inv, Goto
<1>0. /\ \A u \in Threads : pc'[u] = IF u = t THEN l ELSE pc[u]
      /\ \A u \in Threads : Front(u)' <=> Front(u)
      /\ \A u \in Threads : ToPop(u)' <=> ToPop(u)
      /\ \A u \in Threads : pc'[u] \in ClaimLabels <=> pc[u] \in ClaimLabels
      /\ \A u \in Threads : pc'[u] \in HandingLabels <=> pc[u] \in HandingLabels
    BY DEF TypeOK, Front, Holding, ToPop, ClaimLabels, HandingLabels
<1>1. ClaimsInv'
    BY <1>0 DEF ClaimsInv
<1>2. WaitInv'
    <2>1. \A i \in 1 .. Len(claims) : claims[i] \in Threads
        BY DEF TypeOK
    <2>2. \A i \in 1 .. Len(claims) : pc'[claims[i]] = "lock_push" <=> pc[claims[i]] = "lock_push"
        BY <1>0, <2>1
    <2>3. \A d \in {0, 1} : Line(d) => Line(d)'
        BY <2>2 DEF TypeOK, Line
    <2> QED BY <1>0, <2>3 DEF WaitInv, TypeOK
<1>3. OwnerInv'
    BY <1>0 DEF OwnerInv, TypeOK
<1> QED BY <1>1, <1>2, <1>3

LEMMA lock_drawInv ==
    ASSUME Inv, NEW t \in Threads, lock_draw(t) PROVE Inv'
<1> USE DEF Inv, lock_draw, At
<1>1. LockInv' /\ lock' \in Seq(Threads) /\ pc' \in [Threads -> Labels]
    BY DrawLockInv DEF LockLabels, HoldLabels
<1>2. ClaimsInv' /\ WaitInv' /\ OwnerInv'
    BY SameLineInv DEF Labels, schedVars
<1>3. TypeOK' /\ NoFailure'
    BY <1>1 DEF TypeOK, NoFailure
<1> QED BY <1>1, <1>2, <1>3, SchedStutterInv

LEMMA lock_leaveInv ==
    ASSUME Inv, NEW t \in Threads, lock_leave(t) PROVE Inv'
<1> USE DEF Inv, lock_leave, At
<1>1. LockInv' /\ lock' \in Seq(Threads) /\ pc' \in [Threads -> Labels]
    BY LeaveLockInv DEF LockLabels, HoldLabels, Labels
<1>2. ClaimsInv' /\ WaitInv' /\ OwnerInv'
    BY SameLineInv DEF Labels, schedVars
<1>3. TypeOK' /\ NoFailure'
    BY <1>1 DEF TypeOK, NoFailure
<1> QED BY <1>1, <1>2, <1>3, SchedStutterInv

\* The thread was woken up, so it is the owner.
LEMMA lock_checkInv ==
    ASSUME Inv, NEW t \in Threads, lock_check(t) PROVE Inv'
<1> USE DEF Inv, At
<1>1. owner = t
    BY DEF lock_check, WaitInv
<1>2. /\ Goto(t, "held") /\ pc[t] = "lock_check" /\ state[t] = "RUNNING"
      /\ UNCHANGED <<schedVars, count, owner, wait_ls, lock, next, claims, failed>>
    BY <1>1 DEF lock_check
<1>3. LockInv' /\ pc' \in [Threads -> Labels]
    BY <1>2, NoLockInv DEF LockLabels, Labels
<1>4. \A u \in Threads : pc[u] \in {"unlock_leave", "unlock_run"} => next[u] # t
    BY <1>2 DEF OwnerInv
<1>5. ClaimsInv' /\ WaitInv' /\ OwnerInv'
    BY <1>1, <1>2, <1>4, SameLineInv DEF Labels, schedVars
<1>6. TypeOK' /\ NoFailure'
    BY <1>2, <1>3 DEF TypeOK, NoFailure
<1> QED BY <1>2, <1>3, <1>5, <1>6, SchedStutterInv

LEMMA unlock_drawInv ==
    ASSUME Inv, NEW t \in Threads, unlock_draw(t) PROVE Inv'
<1> USE DEF Inv, unlock_draw, At
<1>1. LockInv' /\ lock' \in Seq(Threads) /\ pc' \in [Threads -> Labels]
    BY DrawLockInv DEF LockLabels, HoldLabels
<1>2. ClaimsInv' /\ WaitInv' /\ OwnerInv'
    BY SameLineInv DEF Labels, schedVars
<1>3. TypeOK' /\ NoFailure'
    BY <1>1 DEF TypeOK, NoFailure
<1> QED BY <1>1, <1>2, <1>3, SchedStutterInv

LEMMA unlock_leaveInv ==
    ASSUME Inv, NEW t \in Threads, unlock_leave(t) PROVE Inv'
<1> USE DEF Inv, unlock_leave, At
<1>1. LockInv' /\ lock' \in Seq(Threads) /\ pc' \in [Threads -> Labels]
    BY LeaveLockInv DEF LockLabels, HoldLabels, Labels
<1>2. ClaimsInv' /\ WaitInv' /\ OwnerInv'
    BY SameLineInv DEF Labels, schedVars
<1>3. TypeOK' /\ NoFailure'
    BY <1>1 DEF TypeOK, NoFailure
<1> QED BY <1>1, <1>2, <1>3, SchedStutterInv

-----------------------------------------------------------------------------
(***************************************************************************)
(* The line of threads                                                     *)
(***************************************************************************)

\* A thread is counted in, at the end of the line.
LEMMA lock_subInv ==
    ASSUME Inv, NEW t \in Threads, lock_sub(t) PROVE Inv'
<1> USE DEF Inv
<1> DEFINE l == IF count = 1 THEN "lock_own" ELSE "lock_push"
<1>1. pc[t] = "lock_spin" /\ IsHead(lock, t)
    BY DEF lock_sub, At
<1>2. owner # t
    BY <1>1 DEF OwnerInv
<1>3. /\ count' = count - 1 /\ claims' = Append(claims, t) /\ Goto(t, l)
      /\ UNCHANGED <<schedVars, owner, wait_ls, lock, next, failed>>
    BY <1>2 DEF lock_sub, Fail
<1>l. l \in {"lock_own", "lock_push"} /\ (l = "lock_own" <=> count = 1)
    OBVIOUS
<1> HIDE DEF l
<1>4. LockInv' /\ pc' \in [Threads -> Labels]
    BY <1>1, <1>3, <1>l, KeepLockInv DEF LockLabels
<1>5. ~ InQueue(claims, t)
    BY <1>1 DEF ClaimsInv, ClaimLabels
<1>6. /\ claims' \in Seq(Threads) /\ claims' # <<>> /\ NoDuplicates(claims')
      /\ \A y : InQueue(claims', y) <=> InQueue(claims, y) \/ y = t
      /\ \A y : IsHead(claims, y) => IsHead(claims', y)
      /\ Len(claims') = Len(claims) + 1 /\ Len(claims) \in Nat
      /\ claims'[Len(claims) + 1] = t
      /\ \A i \in 1 .. Len(claims) : claims'[i] = claims[i]
    BY <1>3, <1>5, QueueAppend, QueueAppended, QueueIs DEF ClaimsInv, TypeOK
<1>7. \A u \in Threads : pc'[u] = IF u = t THEN l ELSE pc[u]
    BY <1>3 DEF Goto, TypeOK
<1>8. count = 1 <=> claims = <<>>
    BY <1>6, QueueEmpty DEF ClaimsInv, TypeOK
<1>9. /\ \A u \in Threads : ToPop(u)' <=> ToPop(u)
      /\ \A u \in Threads : Front(u)' <=> Front(u) \/ (u = t /\ l = "lock_own")
      /\ \A u \in Threads : pc'[u] \in HandingLabels <=> pc[u] \in HandingLabels
      /\ \A u \in Threads : pc'[u] \in ClaimLabels <=> pc[u] \in ClaimLabels \/ u = t
    BY <1>1, <1>3, <1>7, <1>l DEF ToPop, Front, Holding, HandingLabels, ClaimLabels
<1>10. ClaimsInv'
    <2>1. count' = 1 - Len(claims')
        BY <1>3, <1>6 DEF ClaimsInv, TypeOK
    <2>2. CASE l = "lock_own"
        <3>1. claims = <<>> /\ \A u \in Threads : ~ Front(u) /\ ~ ToPop(u)
            BY <2>2, <1>l, <1>8 DEF ClaimsInv, IsHead
        <3>2. IsHead(claims', t)
            BY <3>1, <1>6 DEF IsHead
        <3> QED BY <2>1, <2>2, <3>1, <3>2, <1>6, <1>9 DEF ClaimsInv
    <2>3. CASE l = "lock_push"
        BY <2>1, <2>3, <1>6, <1>8, <1>9, <1>l DEF ClaimsInv
    <2> QED BY <2>2, <2>3, <1>l
<1>11. WaitInv'
    <2>1. \A i \in 1 .. Len(claims) : claims[i] \in Threads /\ claims[i] # t
        BY <1>5 DEF TypeOK, InQueue
    <2>2. CASE l = "lock_own"
        <3>1. claims = <<>> /\ Len(claims) = 0 /\ \A u \in Threads : ~ Front(u)
            BY <2>2, <1>l, <1>8 DEF ClaimsInv, IsHead
        <3>2. Len(wait_ls) = 0
            BY <3>1 DEF WaitInv, Line, TypeOK
        <3>3. Line(1)'
            BY <3>1, <3>2, <1>3, <1>6 DEF Line
        <3>4. Front(t)'
            BY <2>2, <1>9
        <3> QED BY <3>3, <3>4, <1>1, <1>3, <1>7, <1>l DEF WaitInv, schedVars
    <2>3. CASE l = "lock_push"
        <3>1. \A d \in {0, 1} : Line(d) => Line(d)'
            BY <2>1, <2>3, <1>3, <1>6, <1>7 DEF Line, TypeOK
        <3> QED BY <2>3, <3>1, <1>1, <1>3, <1>7, <1>9 DEF WaitInv, schedVars
    <2> QED BY <2>2, <2>3, <1>l
<1>12. OwnerInv'
    BY <1>1, <1>2, <1>3, <1>7, <1>l DEF OwnerInv, TypeOK, schedVars
<1>13. TypeOK' /\ NoFailure'
    BY <1>3, <1>4, <1>6 DEF TypeOK, NoFailure
<1> QED BY <1>3, <1>4, <1>10, <1>11, <1>12, <1>13, SchedStutterInv

LEMMA lock_ownInv ==
    ASSUME Inv, NEW t \in Threads, lock_own(t) PROVE Inv'
<1> USE DEF Inv, lock_own, At
<1>0. IsHead(lock, t)
    BY DEF LockInv, HoldLabels
<1>1. LockInv' /\ pc' \in [Threads -> Labels]
    BY <1>0, KeepLockInv DEF LockLabels
<1>2. \A u \in Threads : pc'[u] = IF u = t THEN "lock_leave" ELSE pc[u]
    BY DEF Goto, TypeOK
<1>3. \A u \in Threads : Front(u) => u = t
    BY DEF Front, ClaimsInv, IsHead
<1>4. owner = NULL
    BY <1>3 DEF OwnerInv, Front, Holding, TypeOK
<1>5. /\ \A u \in Threads : Front(u)' <=> Front(u)
      /\ \A u \in Threads : ToPop(u)' <=> ToPop(u)
      /\ \A u \in Threads : pc'[u] \in ClaimLabels <=> pc[u] \in ClaimLabels
      /\ \A u \in Threads : pc'[u] \in HandingLabels <=> pc[u] \in HandingLabels
    BY <1>2, <1>4 DEF Front, Holding, ToPop, ClaimLabels, HandingLabels
<1>6. ClaimsInv'
    BY <1>5 DEF ClaimsInv
<1>7. WaitInv'
    <2>1. \A i \in 1 .. Len(claims) : claims[i] \in Threads
        BY DEF TypeOK
    <2>2. \A d \in {0, 1} : Line(d) => Line(d)'
        BY <1>2, <2>1 DEF TypeOK, Line
    <2> QED BY <1>2, <1>4, <1>5, <2>2 DEF WaitInv, schedVars
<1>8. OwnerInv'
    BY <1>2, <1>3, <1>4 DEF OwnerInv, Front, Holding, schedVars
<1>9. TypeOK' /\ NoFailure'
    BY <1>1 DEF TypeOK, NoFailure
<1> QED BY <1>1, <1>6, <1>7, <1>8, <1>9, SchedStutterInv

\* The thread that was counted in last is the only one that is not on wait_ls
\* yet, for it holds the spinlock: wait_ls stays in the order of the line.
LEMMA PushLine ==
    ASSUME Inv, NEW t \in Threads, pc[t] = "lock_push", NEW d \in {0, 1}, Line(d),
           \A i \in 1 .. d : i <= Len(claims) => Front(claims[i])
    PROVE  Len(claims) = Len(wait_ls) + d + 1 /\ claims[Len(claims)] = t
<1> USE DEF Inv
<1>1. PICK k \in 1 .. Len(claims) : claims[k] = t
    BY DEF ClaimsInv, ClaimLabels, InQueue
<1>2. Len(claims) \in Nat /\ Len(wait_ls) \in Nat /\ \A i \in 1 .. Len(claims) : claims[i] \in Threads
    BY QueueIs DEF TypeOK
<1>3. ~ InQueue(wait_ls, t) /\ ~ Front(t)
    BY DEF WaitInv, Front, Holding
<1>4. k > Len(wait_ls) + d
    <2>1. SUFFICES ASSUME k <= Len(wait_ls) + d PROVE FALSE
        BY <1>2
    <2>2. k > d
        BY <1>1, <1>2, <1>3
    <2>3. k - d \in 1 .. Len(wait_ls) /\ wait_ls[k - d] = t
        BY <1>1, <1>2, <2>1, <2>2 DEF Line
    <2> QED BY <2>3, <1>3 DEF InQueue
<1>5. \A i \in Len(wait_ls) + d + 1 .. Len(claims) : i = k
    <2>1. \A u \in Threads : pc[u] = "lock_push" => u = t
        BY DEF LockInv, HoldLabels, IsHead
    <2> QED BY <1>1, <1>2, <2>1 DEF Line, ClaimsInv, NoDuplicates
<1> QED BY <1>1, <1>2, <1>4, <1>5

LEMMA lock_pushInv ==
    ASSUME Inv, NEW t \in Threads, lock_push(t) PROVE Inv'
<1> USE DEF Inv, lock_push, At
<1>0. IsHead(lock, t)
    BY DEF LockInv, HoldLabels
<1>1. LockInv' /\ pc' \in [Threads -> Labels]
    BY <1>0, KeepLockInv DEF LockLabels
<1>2. \A u \in Threads : pc'[u] = IF u = t THEN "lock_block" ELSE pc[u]
    BY DEF Goto, TypeOK
<1>3. /\ \A u \in Threads : Front(u)' <=> Front(u)
      /\ \A u \in Threads : ToPop(u)' <=> ToPop(u)
      /\ \A u \in Threads : pc'[u] \in ClaimLabels <=> pc[u] \in ClaimLabels
      /\ \A u \in Threads : pc'[u] \in HandingLabels <=> pc[u] \in HandingLabels
    BY <1>2 DEF Front, Holding, ToPop, ClaimLabels, HandingLabels
<1>4. ClaimsInv'
    BY <1>3 DEF ClaimsInv
<1>5. ~ InQueue(wait_ls, t)
    BY DEF WaitInv
<1>6. /\ wait_ls' \in Seq(Threads) /\ NoDuplicates(wait_ls')
      /\ \A y : InQueue(wait_ls', y) <=> InQueue(wait_ls, y) \/ y = t
      /\ Len(wait_ls') = Len(wait_ls) + 1 /\ Len(wait_ls) \in Nat
      /\ wait_ls'[Len(wait_ls) + 1] = t
      /\ \A i \in 1 .. Len(wait_ls) : wait_ls'[i] = wait_ls[i]
    BY <1>5, QueueAppend, QueueAppended, QueueIs DEF WaitInv, TypeOK
<1>7. ASSUME NEW d \in {0, 1}, Line(d), \A i \in 1 .. d : i <= Len(claims) => Front(claims[i])
      PROVE  Line(d)'
    <2>1. Len(claims) = Len(wait_ls) + d + 1 /\ claims[Len(claims)] = t
        BY <1>7, PushLine
    <2> QED BY <2>1, <1>6, <1>7 DEF Line
<1>8. WaitInv'
    <2>1. CASE \E u \in Threads : Front(u)
        <3>1. Front(claims[1])
            BY <2>1 DEF ClaimsInv, IsHead
        <3>2. Line(1)'
            BY <2>1, <3>1, <1>7 DEF WaitInv
        <3> QED BY <2>1, <3>2, <1>2, <1>3, <1>6 DEF WaitInv, schedVars
    <2>2. CASE \A u \in Threads : ~ Front(u)
        <3>1. Line(0)'
            BY <2>2, <1>7 DEF WaitInv
        <3> QED BY <2>2, <3>1, <1>2, <1>3, <1>6 DEF WaitInv, schedVars
    <2> QED BY <2>1, <2>2
<1>9. OwnerInv'
    BY <1>2 DEF OwnerInv, TypeOK, schedVars
<1>10. TypeOK' /\ NoFailure'
    BY <1>1, <1>6 DEF TypeOK, NoFailure
<1> QED BY <1>1, <1>4, <1>8, <1>9, <1>10, SchedStutterInv

\* schd_block: the thread sleeps before the spinlock is free.
LEMMA lock_blockInv ==
    ASSUME Inv, NEW t \in Threads, lock_block(t) PROVE Inv'
<1> USE DEF Inv, lock_block, At
<1>1. LockInv' /\ lock' \in Seq(Threads) /\ pc' \in [Threads -> Labels]
    BY LeaveLockInv DEF LockLabels, HoldLabels, Labels
<1>2. SchedInv' /\ state' = [state EXCEPT ![t] = "BLOCKED"]
    BY BlockInv DEF Moves
<1>3. \A u \in Threads : /\ pc'[u] = IF u = t THEN "lock_check" ELSE pc[u]
                         /\ state'[u] = IF u = t THEN "BLOCKED" ELSE state[u]
    BY <1>2 DEF Goto, TypeOK, SchedInv, SchedTypeOK
<1>4. owner # t
    BY DEF OwnerInv
<1>5. /\ \A u \in Threads : Front(u)' <=> Front(u)
      /\ \A u \in Threads : ToPop(u)' <=> ToPop(u)
      /\ \A u \in Threads : pc'[u] \in ClaimLabels <=> pc[u] \in ClaimLabels
      /\ \A u \in Threads : pc'[u] \in HandingLabels <=> pc[u] \in HandingLabels
    BY <1>3, <1>4 DEF Front, Holding, ToPop, ClaimLabels, HandingLabels
<1>6. ClaimsInv'
    BY <1>5 DEF ClaimsInv
<1>7. WaitInv'
    <2>1. \A i \in 1 .. Len(claims) : claims[i] \in Threads
        BY DEF TypeOK
    <2>2. \A d \in {0, 1} : Line(d) => Line(d)'
        BY <1>3, <2>1 DEF TypeOK, Line
    <2> QED BY <1>3, <1>4, <1>5, <2>2 DEF WaitInv
<1>8. OwnerInv'
    BY <1>3, <1>4 DEF OwnerInv, TypeOK
<1>9. TypeOK' /\ NoFailure'
    BY <1>1 DEF TypeOK, NoFailure
<1> QED BY <1>1, <1>2, <1>6, <1>7, <1>8, <1>9

LEMMA unlock_clearInv ==
    ASSUME Inv, NEW t \in Threads, unlock_clear(t) PROVE Inv'
<1> USE DEF Inv
<1>1. pc[t] = "held" /\ owner = t
    BY DEF unlock_clear, At, OwnerInv
<1>2. /\ owner' = NULL /\ Goto(t, "unlock_add")
      /\ UNCHANGED <<schedVars, count, wait_ls, lock, next, claims, failed>>
    BY <1>1 DEF unlock_clear, Fail
<1>3. LockInv' /\ pc' \in [Threads -> Labels]
    BY <1>1, <1>2, NoLockInv DEF LockLabels, Labels
<1>4. \A u \in Threads : pc'[u] = IF u = t THEN "unlock_add" ELSE pc[u]
    BY <1>2 DEF Goto, TypeOK
<1>5. \A u \in Threads : pc[u] \notin {"unlock_leave", "unlock_run"}
    BY <1>1 DEF OwnerInv
<1>6. /\ \A u \in Threads : Front(u)' <=> Front(u)
      /\ \A u \in Threads : ToPop(u)' <=> ToPop(u)
      /\ \A u \in Threads : pc'[u] \in ClaimLabels <=> pc[u] \in ClaimLabels
      /\ \A u \in Threads : pc'[u] \in HandingLabels <=> pc[u] \in HandingLabels
    BY <1>1, <1>2, <1>4 DEF Front, Holding, ToPop, ClaimLabels, HandingLabels
<1>7. ClaimsInv'
    BY <1>2, <1>6 DEF ClaimsInv
<1>8. WaitInv'
    <2>1. \A i \in 1 .. Len(claims) : claims[i] \in Threads
        BY DEF TypeOK
    <2>2. \A d \in {0, 1} : Line(d) => Line(d)'
        BY <1>1, <1>2, <1>4, <2>1 DEF TypeOK, Line
    <2> QED BY <1>1, <1>2, <1>4, <1>6, <2>2 DEF WaitInv, schedVars
<1>9. OwnerInv'
    BY <1>1, <1>2, <1>4, <1>5 DEF OwnerInv
<1>10. TypeOK' /\ NoFailure'
    BY <1>2, <1>3 DEF TypeOK, NoFailure
<1> QED BY <1>2, <1>3, <1>7, <1>8, <1>9, <1>10, SchedStutterInv

\* The thread in front is counted out.  If the line is not empty then, the
\* mutex is to be handed over.
LEMMA unlock_addInv ==
    ASSUME Inv, NEW t \in Threads, unlock_add(t) PROVE Inv'
<1> USE DEF Inv
<1> DEFINE l == IF count + 1 = 1 THEN "out" ELSE "unlock_lock"
<1>1. pc[t] = "unlock_add" /\ Front(t)
    BY DEF unlock_add, At, Front, Holding
<1>2. /\ count' = count + 1 /\ claims' = Tail(claims) /\ Goto(t, l)
      /\ UNCHANGED <<schedVars, owner, wait_ls, lock, next, failed>>
    BY DEF unlock_add
<1>l. l \in {"out", "unlock_lock"} /\ (l = "out" <=> count + 1 = 1)
    OBVIOUS
<1> HIDE DEF l
<1>3. LockInv' /\ pc' \in [Threads -> Labels]
    BY <1>1, <1>2, <1>l, NoLockInv DEF LockLabels, Labels
<1>4. claims # <<>> /\ claims[1] = t /\ Line(1)
    BY <1>1 DEF ClaimsInv, WaitInv, IsHead
<1>5. /\ claims' \in Seq(Threads) /\ NoDuplicates(claims')
      /\ \A y : InQueue(claims', y) <=> InQueue(claims, y) /\ y # t
      /\ Len(claims') = Len(claims) - 1
      /\ \A i \in 1 .. Len(claims) - 1 : claims'[i] = claims[i + 1]
    BY <1>2, <1>4, QueueTail DEF ClaimsInv, TypeOK
<1>6. Len(claims) \in Nat \ {0} /\ Len(wait_ls) \in Nat
    BY <1>4, QueueEmpty, QueueIs DEF TypeOK
<1>7. \A u \in Threads : pc'[u] = IF u = t THEN l ELSE pc[u]
    BY <1>2 DEF Goto, TypeOK
<1>8. \A u \in Threads : Front(u) => u = t
    BY <1>4 DEF ClaimsInv, IsHead
<1>9. owner = NULL
    BY <1>1, <1>8 DEF OwnerInv, Front, Holding, TypeOK
<1>10. \A u \in Threads : pc[u] \notin HandingLabels
    BY <1>1, <1>9 DEF OwnerInv, ClaimsInv, ToPop, HandingLabels
<1>11. /\ \A u \in Threads : ~ Front(u)'
       /\ \A u \in Threads : ToPop(u)' <=> u = t /\ l = "unlock_lock"
       /\ \A u \in Threads : pc'[u] \in HandingLabels => u = t
       /\ \A u \in Threads : pc'[u] \in ClaimLabels <=> pc[u] \in ClaimLabels /\ u # t
    BY <1>1, <1>2, <1>7, <1>8, <1>9, <1>10, <1>l DEF Front, Holding, ToPop, ClaimLabels, HandingLabels
<1>12. l = "out" <=> claims' = <<>>
    BY <1>5, <1>6, <1>l, QueueEmpty DEF ClaimsInv
<1>13. ClaimsInv'
    <2>1. count' = 1 - Len(claims')
        BY <1>2, <1>5, <1>6 DEF ClaimsInv
    <2>2. \A u \in Threads : InQueue(claims', u) <=> pc'[u] \in ClaimLabels
        BY <1>5, <1>11 DEF ClaimsInv
    <2>3. claims' # <<>> => ToPop(t)'
        BY <1>11, <1>12, <1>l
    <2>4. \A u \in Threads : ToPop(u)' => claims' # <<>>
        BY <1>11, <1>12
    <2> QED BY <2>1, <2>2, <2>3, <2>4, <1>5, <1>11 DEF ClaimsInv
<1>14. WaitInv'
    <2>1. \A i \in 1 .. Len(claims) : claims[i] \in Threads
        BY DEF TypeOK
    <2>2. Line(0)'
        <3>1. Len(wait_ls) <= Len(claims')
            BY <1>4, <1>5, <1>6 DEF Line
        <3>2. \A i \in 1 .. Len(wait_ls) : wait_ls[i] = claims'[i]
            BY <1>4, <1>5, <1>6 DEF Line
        <3>3. ASSUME NEW i \in Len(wait_ls) + 1 .. Len(claims') PROVE pc'[claims'[i]] = "lock_push"
            <4>1. i + 1 \in Len(wait_ls) + 1 + 1 .. Len(claims) /\ claims'[i] = claims[i + 1]
                BY <1>5, <1>6
            <4>2. pc[claims[i + 1]] = "lock_push" /\ claims[i + 1] \in Threads
                BY <1>4, <1>6, <2>1, <4>1 DEF Line
            <4> QED BY <4>1, <4>2, <1>1, <1>7
        <3> QED BY <3>1, <3>2, <3>3, <1>2, <1>6 DEF Line
    <2> QED BY <2>2, <1>1, <1>2, <1>7, <1>11, <1>l DEF WaitInv, schedVars
<1>15. OwnerInv'
    BY <1>1, <1>2, <1>7, <1>9, <1>10, <1>l DEF OwnerInv, HandingLabels
<1>16. TypeOK' /\ NoFailure'
    <2>1. count' \in Int /\ count' <= 1
        BY <1>2, <1>6 DEF ClaimsInv, TypeOK
    <2> QED BY <2>1, <1>2, <1>3, <1>5 DEF TypeOK, NoFailure
<1> QED BY <1>2, <1>3, <1>13, <1>14, <1>15, <1>16, SchedStutterInv

\* The spinlock is held, so no thread is to push itself: the line is not empty
\* and all of it is on wait_ls, asleep.  The thread in front gets the mutex.
LEMMA unlock_popInv ==
    ASSUME Inv, NEW t \in Threads, unlock_pop(t)
    PROVE  /\ Inv'
           /\ wait_ls # <<>> /\ Head(wait_ls) \in Threads /\ claims # <<>>
           /\ Head(wait_ls) = claims[1] /\ owner' = Head(wait_ls)
           /\ pc[Head(wait_ls)] = "lock_check" /\ \A u \in Threads : ~ Front(u)
<1> USE DEF Inv
<1>1. pc[t] = "unlock_spin" /\ IsHead(lock, t) /\ ToPop(t)
    BY DEF unlock_pop, At, ToPop
<1>2. claims # <<>> /\ (\A u \in Threads : ~ Front(u)) /\ Line(0)
    BY <1>1 DEF ClaimsInv, WaitInv
<1>3. \A u \in Threads : pc[u] \notin HoldLabels
    BY <1>1 DEF LockInv, IsHead, HoldLabels
<1>4. Len(claims) \in Nat \ {0} /\ Len(wait_ls) \in Nat /\ \A i \in 1 .. Len(claims) : claims[i] \in Threads
    BY <1>2, QueueEmpty, QueueIs DEF TypeOK
<1>5. Len(wait_ls) = Len(claims) /\ wait_ls[1] = claims[1]
    <2>1. \A i \in Len(wait_ls) + 0 + 1 .. Len(claims) : FALSE
        BY <1>2, <1>3, <1>4 DEF Line, HoldLabels
    <2>2. Len(wait_ls) = Len(claims)
        BY <1>2, <1>4, <2>1 DEF Line
    <2> QED BY <1>2, <1>4, <2>2 DEF Line
<1> DEFINE h == Head(wait_ls)
<1>6. /\ wait_ls # <<>> /\ h = claims[1] /\ h \in Threads
      /\ Tail(wait_ls) \in Seq(Threads) /\ NoDuplicates(Tail(wait_ls))
      /\ \A y : InQueue(Tail(wait_ls), y) <=> InQueue(wait_ls, y) /\ y # h
      /\ Len(Tail(wait_ls)) = Len(wait_ls) - 1
      /\ \A i \in 1 .. Len(wait_ls) - 1 : Tail(wait_ls)[i] = wait_ls[i + 1]
    <2>1. wait_ls # <<>>
        BY <1>4, <1>5, QueueEmpty
    <2> QED BY <2>1, <1>5, QueueTail DEF WaitInv, TypeOK
<1>7. InQueue(wait_ls, h)
    BY <1>4, <1>5, <1>6 DEF InQueue
<1> HIDE DEF h
<1>8. /\ wait_ls' = Tail(wait_ls) /\ owner' = h /\ next' = [next EXCEPT ![t] = h]
      /\ Goto(t, "unlock_leave") /\ UNCHANGED <<schedVars, count, lock, claims, failed>>
    BY <1>6 DEF unlock_pop, Fail, h
<1>9. pc[h] = "lock_check" /\ state[h] = "BLOCKED" /\ h # t /\ owner # h
    BY <1>1, <1>3, <1>6, <1>7 DEF WaitInv, HoldLabels
<1>10. owner = NULL
    BY <1>2 DEF OwnerInv, Front, Holding, TypeOK
<1>11. /\ \A u \in Threads : pc'[u] = IF u = t THEN "unlock_leave" ELSE pc[u]
       /\ \A u \in Threads : next'[u] = IF u = t THEN h ELSE next[u]
    BY <1>8 DEF Goto, TypeOK
<1>12. LockInv' /\ pc' \in [Threads -> Labels]
    BY <1>1, <1>8, KeepLockInv DEF LockLabels
<1>13. \A u \in Threads : pc[u] \in HandingLabels => u = t
    BY <1>1 DEF ClaimsInv, HandingLabels
<1>14. /\ \A u \in Threads : Front(u)' <=> u = h
       /\ \A u \in Threads : ~ ToPop(u)'
       /\ \A u \in Threads : pc'[u] \in HandingLabels => u = t
       /\ \A u \in Threads : pc'[u] \in ClaimLabels <=> pc[u] \in ClaimLabels
    BY <1>1, <1>2, <1>8, <1>9, <1>11, <1>13 DEF Front, Holding, ToPop, ClaimLabels, HandingLabels
<1>15. ClaimsInv'
    <2>1. IsHead(claims', h)
        BY <1>2, <1>6, <1>8 DEF IsHead
    <2> QED BY <2>1, <1>6, <1>8, <1>14 DEF ClaimsInv
<1>16. WaitInv'
    <2>1. Line(1)'
        <3>1. Len(wait_ls') = Len(claims) - 1
            BY <1>5, <1>6, <1>8
        <3>2. \A i \in 1 .. Len(wait_ls') : wait_ls'[i] = claims[i + 1]
            BY <1>2, <1>4, <1>5, <1>6, <1>8, <3>1 DEF Line
        <3> QED BY <3>1, <3>2, <1>4, <1>8 DEF Line
    <2>2. \A u \in Threads : InQueue(wait_ls', u) <=>
              pc'[u] = "lock_block" \/ (pc'[u] = "lock_check" /\ owner' # u)
        BY <1>1, <1>6, <1>8, <1>9, <1>10, <1>11 DEF WaitInv
    <2>3. \A u \in Threads : pc'[u] = "lock_check" /\ owner' # u => state'[u] = "BLOCKED"
        BY <1>8, <1>10, <1>11 DEF WaitInv, schedVars
    <2> QED BY <2>1, <2>2, <2>3, <1>6, <1>8, <1>14 DEF WaitInv
<1>17. OwnerInv'
    BY <1>1, <1>6, <1>8, <1>9, <1>10, <1>11, <1>13 DEF OwnerInv, HandingLabels, schedVars
<1>18. TypeOK' /\ NoFailure'
    BY Zenon, <1>6, <1>8, <1>12 DEF TypeOK, NoFailure
<1> QED BY <1>2, <1>6, <1>8, <1>9, <1>12, <1>15, <1>16, <1>17, <1>18, SchedStutterInv DEF h

\* schd_run finds the thread that was popped asleep.
LEMMA unlock_runInv ==
    ASSUME Inv, NEW t \in Threads, unlock_run(t) PROVE Inv'
<1> USE DEF Inv
<1> DEFINE n == next[t]
<1>1. pc[t] = "unlock_run" /\ state[t] = "RUNNING"
    BY DEF unlock_run, At
<1>2. n \in Threads /\ owner = n /\ pc[n] = "lock_check" /\ state[n] = "BLOCKED"
    BY <1>1 DEF OwnerInv
<1> HIDE DEF n
<1>3. /\ Run(n) /\ next' = [next EXCEPT ![t] = NULL] /\ Goto(t, "out")
      /\ UNCHANGED <<count, owner, wait_ls, lock, claims, failed>>
    BY <1>2 DEF unlock_run, n, Fail
<1>4. SchedInv' /\ state' = [state EXCEPT ![n] = "RUNNABEL"]
    BY <1>2, <1>3, RunInv DEF Moves
<1>5. \A u \in Threads : /\ pc'[u] = IF u = t THEN "out" ELSE pc[u]
                         /\ next'[u] = IF u = t THEN NULL ELSE next[u]
                         /\ state'[u] = IF u = n THEN "RUNNABEL" ELSE state[u]
    BY <1>3, <1>4 DEF Goto, TypeOK, SchedInv, SchedTypeOK
<1>6. LockInv' /\ pc' \in [Threads -> Labels]
    BY <1>1, <1>3, NoLockInv DEF LockLabels, Labels
<1>7. \A u \in Threads : pc[u] \in HandingLabels => u = t
    BY <1>1 DEF ClaimsInv, HandingLabels
<1>8. /\ \A u \in Threads : Front(u)' <=> Front(u)
      /\ \A u \in Threads : ToPop(u)' <=> ToPop(u)
      /\ \A u \in Threads : pc'[u] \in ClaimLabels <=> pc[u] \in ClaimLabels
      /\ \A u \in Threads : pc'[u] \notin HandingLabels
    BY <1>1, <1>3, <1>5, <1>7 DEF Front, Holding, ToPop, ClaimLabels, HandingLabels
<1>9. ClaimsInv'
    BY <1>3, <1>8 DEF ClaimsInv
<1>10. WaitInv'
    <2>1. \A i \in 1 .. Len(claims) : claims[i] \in Threads
        BY DEF TypeOK
    <2>2. \A u \in Threads : pc[u] = "lock_push" => pc'[u] = "lock_push"
        BY <1>1, <1>5
    <2>3. \A d \in {0, 1} : Line(d) => Line(d)'
        BY <1>3, <2>1, <2>2 DEF TypeOK, Line
    <2> QED BY <1>1, <1>2, <1>3, <1>5, <1>8, <2>3 DEF WaitInv
<1>11. OwnerInv'
    BY <1>1, <1>2, <1>3, <1>5, <1>8 DEF OwnerInv, HandingLabels
<1>12. TypeOK' /\ NoFailure'
    BY Zenon, <1>3, <1>6 DEF TypeOK, NoFailure
<1> QED BY <1>4, <1>6, <1>9, <1>10, <1>11, <1>12

-----------------------------------------------------------------------------
(***************************************************************************)
(* The theorems                                                            *)
(***************************************************************************)

LEMMA StepInv == Inv /\ [Next]_vars => Inv'
<1> SUFFICES ASSUME Inv, [Next]_vars PROVE Inv'
    OBVIOUS
<1>1. CASE UNCHANGED vars
    BY <1>1, SchedStutterInv DEF vars, schedVars, mutexVars, Inv, TypeOK, NoFailure, LockInv, ClaimsInv,
       WaitInv, OwnerInv, Front, Holding, ToPop, Line
<1>2. ASSUME NEW t \in Threads, lock_draw(t) \/ mutex_lock(t) \/ mutex_unlock(t) PROVE Inv'
    BY <1>2, lock_drawInv, lock_subInv, lock_ownInv, lock_leaveInv, lock_pushInv, lock_blockInv,
       lock_checkInv, unlock_clearInv, unlock_addInv, unlock_drawInv, unlock_popInv, unlock_leaveInv,
       unlock_runInv DEF mutex_lock, mutex_unlock
<1> QED BY <1>1, <1>2, SwitchInv DEF Next

\* The inductive invariant: the count, the line of threads, wait_ls, the owner
\* and the states of the threads agree between any two steps of mutex.c.
THEOREM MutexInvariance == Spec => []Inv
BY InitInv, StepInv, PTL DEF Spec

\* The assertions of mutex.c hold, mutex_unlock never finds wait_ls empty or the
\* thread it wakes up awake, and no thread sleeps without one before it that has
\* the mutex or is on its way to hand it over, for any number of threads.
THEOREM MutexHandOverSafe == Spec => []HandOverSafe
<1>1. Inv => HandOverSafe
    <2> SUFFICES ASSUME Inv, wait_ls # <<>>
                 PROVE  \E t \in Threads : Holding(t) \/ pc[t] \in {"lock_own", "unlock_lock", "unlock_spin"}
        BY DEF Inv, HandOverSafe, WaiterHasWaker
    <2>1. Len(wait_ls) \in Nat \ {0} /\ Len(claims) \in Nat
        BY QueueEmpty, QueueIs DEF Inv, TypeOK
    <2>2. Len(claims) > 0
        BY <2>1 DEF Inv, WaitInv, Line
    <2>3. claims # <<>>
        BY <2>2
    <2> QED BY <2>3 DEF Inv, ClaimsInv, Front, ToPop
<1> QED BY <1>1, MutexInvariance, PTL

-----------------------------------------------------------------------------
(***************************************************************************)
(* The mutex implements the FIFO lock: the queue is the line.              *)
(***************************************************************************)

LEMMA FifoInit == Init => Fifo!Init
BY DEF Init, Fifo!Init, status, Holding, InQueue

\* A step that changes neither the line nor who has the mutex
LEMMA FifoStutter ==
    ASSUME UNCHANGED claims, \A u \in Threads : Holding(u)' <=> Holding(u)
    PROVE  UNCHANGED Fifo!vars
BY DEF Fifo!vars, status

\* A step after which the thread in front has the mutex
LEMMA FifoGrant ==
    ASSUME Inv, NEW p \in Threads, IsHead(claims, p), UNCHANGED claims,
           \A u \in Threads : ~ Holding(u), \A u \in Threads : Holding(u)' <=> u = p
    PROVE  Fifo!Grant(p)
<1>1. claims # <<>> /\ Head(claims) = p
    BY QueueTail DEF Inv, ClaimsInv, TypeOK, IsHead
<1>2. InQueue(claims, p)
    BY QueueEmpty DEF Inv, TypeOK, IsHead, InQueue
<1>3. status' = [status EXCEPT ![p] = "holding"]
    BY Zenon DEF status
<1> QED BY <1>1, <1>2, <1>3 DEF Fifo!Grant, status

LEMMA FifoStep == Inv /\ [Next]_vars => [Fifo!Next]_(Fifo!vars)
<1> SUFFICES ASSUME Inv, [Next]_vars PROVE [Fifo!Next]_(Fifo!vars)
    OBVIOUS
<1>0. Inv'
    BY StepInv
<1>f. \A t \in Threads : Front(t) => \A u \in Threads : Front(u) => u = t
    BY DEF Inv, ClaimsInv, IsHead
<1>g. \A t \in Threads : Front(t)' => \A u \in Threads : Front(u)' => u = t
    BY <1>0 DEF Inv, ClaimsInv, IsHead
<1>1. ASSUME NEW t \in Threads, lock_sub(t) PROVE Fifo!Request(t)
    <2>1. pc[t] = "lock_spin" /\ owner # t
        BY <1>1 DEF lock_sub, At, Inv, OwnerInv
    <2>2. /\ claims' = Append(claims, t) /\ owner' = owner
          /\ \A u \in Threads : pc'[u] = IF u = t THEN IF count = 1 THEN "lock_own" ELSE "lock_push" ELSE pc[u]
        BY <1>1, <2>1 DEF lock_sub, Fail, Goto, Inv, TypeOK
    <2>3. (\A u \in Threads : Holding(u)' <=> Holding(u)) /\ ~ Holding(t)
        BY <2>1, <2>2 DEF Holding
    <2>4. ~ InQueue(claims, t)
        BY <2>1 DEF Inv, ClaimsInv, ClaimLabels
    <2>5. \A y : InQueue(claims', y) <=> InQueue(claims, y) \/ y = t
        BY <2>2, <2>4, QueueAppend DEF Inv, ClaimsInv, TypeOK
    <2>6. status' = [status EXCEPT ![t] = "waiting"]
        BY Zenon, <2>3, <2>5 DEF status
    <2> QED BY <2>2, <2>3, <2>4, <2>6 DEF Fifo!Request, status
<1>2. ASSUME NEW t \in Threads, lock_own(t) PROVE Fifo!Grant(t)
    <2>1. pc[t] = "lock_own" /\ pc'[t] = "lock_leave" /\ UNCHANGED claims
        BY <1>2 DEF lock_own, At, Goto, Inv, TypeOK
    <2>2. IsHead(claims, t) /\ \A u \in Threads : ~ Holding(u)
        BY <2>1, <1>f DEF Inv, ClaimsInv, Front, Holding
    <2>3. \A u \in Threads : Holding(u)' <=> u = t
        BY <2>1, <1>g DEF Front, Holding
    <2> QED BY <2>1, <2>2, <2>3, FifoGrant
<1>3. ASSUME NEW t \in Threads, unlock_pop(t) PROVE \E p \in Threads : Fifo!Grant(p)
    <2> DEFINE p == Head(wait_ls)
    <2>1. /\ wait_ls # <<>> /\ p \in Threads /\ IsHead(claims, p) /\ owner' = p
          /\ pc[p] = "lock_check" /\ \A u \in Threads : ~ Front(u)
        BY <1>3, unlock_popInv DEF IsHead
    <2> HIDE DEF p
    <2>2. pc[t] = "unlock_spin" /\ Goto(t, "unlock_leave") /\ UNCHANGED claims
        BY <1>3, <2>1 DEF unlock_pop, At, Fail
    <2>3. pc'[p] = "lock_check"
        BY <2>1, <2>2 DEF Goto, Inv, TypeOK
    <2>4. \A u \in Threads : Holding(u)' <=> u = p
        BY <2>1, <2>3, <1>g DEF Front, Holding
    <2> QED BY <2>1, <2>2, <2>4, FifoGrant DEF Front
<1>4. ASSUME NEW t \in Threads, unlock_add(t) PROVE Fifo!Release(t)
    <2>1. pc[t] = "unlock_add" /\ Holding(t) /\ claims' = Tail(claims) /\ owner' = owner
        BY <1>4 DEF unlock_add, At, Holding
    <2>2. \A u \in Threads : pc'[u] = IF u = t THEN IF count + 1 = 1 THEN "out" ELSE "unlock_lock" ELSE pc[u]
        BY <1>4 DEF unlock_add, Goto, Inv, TypeOK
    <2>3. claims # <<>> /\ claims[1] = t
        BY <2>1 DEF Inv, ClaimsInv, Front, IsHead
    <2>4. \A y : InQueue(claims', y) <=> InQueue(claims, y) /\ y # t
        BY <2>1, <2>3, QueueTail DEF Inv, ClaimsInv, TypeOK
    <2>5. (\A u \in Threads : Holding(u) => u = t) /\ \A u \in Threads : ~ Holding(u)'
        BY <2>1, <2>2, <1>f DEF Front, Holding
    <2>6. status' = [status EXCEPT ![t] = "out"]
        BY Zenon, <2>4, <2>5 DEF status
    <2> QED BY <2>1, <2>6 DEF Fifo!Release, status
<1>5. ASSUME NEW t \in Threads,
             \/ lock_draw(t) \/ lock_leave(t) \/ lock_push(t) \/ lock_block(t)
             \/ unlock_draw(t) \/ unlock_leave(t) \/ unlock_run(t)
      PROVE  UNCHANGED Fifo!vars
    <2>1. UNCHANGED <<claims, owner>>
        BY <1>5 DEF lock_draw, lock_leave, lock_push, lock_block, unlock_draw, unlock_leave, unlock_run, Fail
    <2>2. /\ \A u \in Threads : u # t => pc'[u] = pc[u]
          /\ \/ pc[t] = "lock_leave" /\ pc'[t] = "held"
             \/ pc[t] = "lock_block" /\ pc'[t] = "lock_check" /\ owner # t
             \/ /\ pc[t] \in {"out", "lock_push", "unlock_lock", "unlock_leave", "unlock_run"}
                /\ pc'[t] \in {"lock_spin", "lock_block", "unlock_spin", "unlock_run", "out"}
             \/ pc' = pc
        BY <1>5 DEF lock_draw, lock_leave, lock_push, lock_block, unlock_draw, unlock_leave, unlock_run,
                    At, Goto, Fail, Inv, TypeOK, OwnerInv
    <2>3. \A u \in Threads : Holding(u)' <=> Holding(u)
        BY <2>1, <2>2 DEF Holding
    <2> QED BY <2>1, <2>3, FifoStutter
<1>6. ASSUME NEW t \in Threads, lock_check(t) \/ unlock_clear(t) PROVE UNCHANGED Fifo!vars
    <2>1. UNCHANGED claims /\ Holding(t) /\ Holding(t)'
        BY <1>6 DEF lock_check, unlock_clear, At, Goto, Fail, Inv, TypeOK, WaitInv, OwnerInv, Holding
    <2>2. \A u \in Threads : Holding(u)' <=> Holding(u)
        BY <2>1, <1>f, <1>g DEF Front
    <2> QED BY <2>1, <2>2, FifoStutter
<1>7. ASSUME NEW c \in CPUs, Switch(c) PROVE UNCHANGED Fifo!vars
    BY <1>7, FifoStutter DEF Switch, mutexVars, Holding
<1>8. CASE UNCHANGED vars
    BY <1>8, FifoStutter DEF vars, mutexVars, Holding
<1> QED BY <1>1, <1>2, <1>3, <1>4, <1>5, <1>6, <1>7, <1>8
        DEF Next, mutex_lock, mutex_unlock, Fifo!Next

\* mutex_lock returns to one thread at a time and in the order in which the
\* threads were counted in, for any number of threads: every execution of the
\* mutex is an execution of the FIFO lock.
THEOREM MutexIsFifo == Spec => IsFifoLock
BY FifoInit, FifoStep, MutexInvariance, PTL DEF Spec, IsFifoLock, Fifo!Spec
=============================================================================

------------------------------- MODULE Mutex -------------------------------
(***************************************************************************)
(* The blocking mutex of kernel/proc/thread/mutex.c, on the scheduler that *)
(* module Sched specifies.  count is 1 when the mutex is free and one less *)
(* for each thread that holds it or waits; mutex_unlock hands the mutex to *)
(* the first waiter.  The mutex's own spinlock is a ticket lock taken with *)
(* interrupts enabled, so its holder can be preempted.                     *)
(***************************************************************************)
EXTENDS Sched, Integers

VARIABLES count,        \* mutex.count
          owner,        \* mutex.owner
          wait_ls,      \* mutex.wait_ls
          lock,         \* mutex.lock: the threads that drew a ticket, holder first
          pc,           \* where each thread is in mutex.c
          next,         \* the waiter that mutex_unlock took from wait_ls
          claims,       \* history: the threads counted in count, in that order
          failed        \* an assertion of mutex.c failed or schd_run panicked

mutexVars == <<count, owner, wait_ls, lock, pc, next, claims, failed>>
vars == <<schedVars, mutexVars>>

Labels == {"out", "lock_spin", "lock_own", "lock_leave", "lock_push", "lock_block", "lock_check",
           "held", "unlock_add", "unlock_lock", "unlock_spin", "unlock_leave", "unlock_run"}

\* mutex_init
Init ==
    /\ SchedInit
    /\ count = 1
    /\ owner = NULL
    /\ wait_ls = <<>>
    /\ lock = <<>>
    /\ pc = [t \in Threads |-> "out"]
    /\ next = [t \in Threads |-> NULL]
    /\ claims = <<>>
    /\ failed = FALSE

\* Thread t executes and is at label l.
At(t, l) == state[t] = "RUNNING" /\ pc[t] = l

Goto(t, l) == pc' = [pc EXCEPT ![t] = l]

Fail == failed' = TRUE /\ UNCHANGED <<schedVars, count, owner, wait_ls, lock, pc, next, claims>>

-----------------------------------------------------------------------------
(***************************************************************************)
(* mutex_lock                                                              *)
(***************************************************************************)

\* spin_lock(&mutex->lock): draw a ticket
lock_draw(t) ==
    /\ At(t, "out")
    /\ lock' = Append(lock, t)
    /\ Goto(t, "lock_spin")
    /\ UNCHANGED <<schedVars, count, owner, wait_ls, next, claims, failed>>

\* Mutant: the mutex is taken whatever the counter says.
lock_sub_NoTest(t) ==
    /\ At(t, "lock_spin")
    /\ IsHead(lock, t)
    /\ count' = count - 1
    /\ claims' = Append(claims, t)
    /\ Goto(t, "lock_own")
    /\ UNCHANGED <<schedVars, owner, wait_ls, lock, next, failed>>

\* With the spinlock: the assertion and atomic_sub_and_test.
lock_sub(t) ==
    /\ At(t, "lock_spin")
    /\ IsHead(lock, t)
    /\ \/ owner = t /\ Fail
       \/ /\ owner # t
          /\ count' = count - 1
          /\ claims' = Append(claims, t)
          /\ Goto(t, IF count = 1 THEN "lock_own" ELSE "lock_push")
          /\ UNCHANGED <<schedVars, owner, wait_ls, lock, next, failed>>

\* Mutant: the owner is not recorded.
lock_own_Forgets(t) ==
    /\ At(t, "lock_own")
    /\ Goto(t, "lock_leave")
    /\ UNCHANGED <<schedVars, count, owner, wait_ls, lock, next, claims, failed>>

\* The mutex was free: it is the caller's.
lock_own(t) ==
    /\ At(t, "lock_own")
    /\ owner' = t
    /\ Goto(t, "lock_leave")
    /\ UNCHANGED <<schedVars, count, wait_ls, lock, next, claims, failed>>

lock_leave(t) ==
    /\ At(t, "lock_leave")
    /\ lock' = Tail(lock)
    /\ Goto(t, "held")
    /\ UNCHANGED <<schedVars, count, owner, wait_ls, next, claims, failed>>

\* Mutant: the last waiter is the first to be served.
lock_push_Front(t) ==
    /\ At(t, "lock_push")
    /\ wait_ls' = <<t>> \o wait_ls
    /\ Goto(t, "lock_block")
    /\ UNCHANGED <<schedVars, count, owner, lock, next, claims, failed>>

\* The mutex was taken: wait.
lock_push(t) ==
    /\ At(t, "lock_push")
    /\ wait_ls' = Append(wait_ls, t)
    /\ Goto(t, "lock_block")
    /\ UNCHANGED <<schedVars, count, owner, lock, next, claims, failed>>

\* schd_block(thread_now(), &mutex->lock) releases the spinlock.
lock_block(t) ==
    /\ At(t, "lock_block")
    /\ \E c \in CPUs : cur[c] = t /\ Block(c)
    /\ lock' = Tail(lock)
    /\ Goto(t, "lock_check")
    /\ UNCHANGED <<count, owner, wait_ls, next, claims, failed>>

\* Woken up: the mutex must be the caller's.
lock_check(t) ==
    /\ At(t, "lock_check")
    /\ \/ owner # t /\ Fail
       \/ /\ owner = t
          /\ Goto(t, "held")
          /\ UNCHANGED <<schedVars, count, owner, wait_ls, lock, next, claims, failed>>

-----------------------------------------------------------------------------
(***************************************************************************)
(* mutex_unlock                                                            *)
(***************************************************************************)

unlock_clear(t) ==
    /\ At(t, "held")
    /\ \/ owner # t /\ Fail
       \/ /\ owner = t
          /\ owner' = NULL
          /\ Goto(t, "unlock_add")
          /\ UNCHANGED <<schedVars, count, wait_ls, lock, next, claims, failed>>

\* atomic_add_return, without the spinlock
unlock_add(t) ==
    /\ At(t, "unlock_add")
    /\ count' = count + 1
    /\ claims' = Tail(claims)
    /\ Goto(t, IF count + 1 = 1 THEN "out" ELSE "unlock_lock")
    /\ UNCHANGED <<schedVars, owner, wait_ls, lock, next, failed>>

\* There are waiters: spin_lock(&mutex->lock)
unlock_draw(t) ==
    /\ At(t, "unlock_lock")
    /\ lock' = Append(lock, t)
    /\ Goto(t, "unlock_spin")
    /\ UNCHANGED <<schedVars, count, owner, wait_ls, next, claims, failed>>

\* Hand the mutex to the first waiter.  list_pop_front of an empty list would
\* return the list head itself.
unlock_pop(t) ==
    /\ At(t, "unlock_spin")
    /\ IsHead(lock, t)
    /\ \/ wait_ls = <<>> /\ Fail
       \/ /\ wait_ls # <<>>
          /\ wait_ls' = Tail(wait_ls)
          /\ owner' = Head(wait_ls)
          /\ next' = [next EXCEPT ![t] = Head(wait_ls)]
          /\ Goto(t, "unlock_leave")
          /\ UNCHANGED <<schedVars, count, lock, claims, failed>>

unlock_leave(t) ==
    /\ At(t, "unlock_leave")
    /\ lock' = Tail(lock)
    /\ Goto(t, "unlock_run")
    /\ UNCHANGED <<schedVars, count, owner, wait_ls, next, claims, failed>>

\* schd_run panics unless the waiter is BLOCKED.
unlock_run(t) ==
    /\ At(t, "unlock_run")
    /\ \/ state[next[t]] \notin {"UNSCHDED", "BLOCKED"} /\ Fail
       \/ /\ Run(next[t])
          /\ next' = [next EXCEPT ![t] = NULL]
          /\ Goto(t, "out")
          /\ UNCHANGED <<count, owner, wait_ls, lock, claims, failed>>

-----------------------------------------------------------------------------
mutex_lock(t) ==
    \/ lock_sub(t) \/ lock_own(t) \/ lock_leave(t) \/ lock_push(t) \/ lock_block(t) \/ lock_check(t)

mutex_unlock(t) ==
    \/ unlock_clear(t) \/ unlock_add(t) \/ unlock_draw(t) \/ unlock_pop(t) \/ unlock_leave(t)
    \/ unlock_run(t)

Switch(c) == (Dispatch(c) \/ Preempt(c)) /\ UNCHANGED mutexVars

Next ==
    /\ ~ failed
    /\ \/ \E c \in CPUs : Switch(c)
       \/ \E t \in Threads : lock_draw(t) \/ mutex_lock(t) \/ mutex_unlock(t)

Spec == Init /\ [][Next]_vars

\* The scheduler dispatches and the timer preempts (module Scheduler); a thread
\* that is dispatched again and again gets on with the mutex's code, and with
\* the critical section.  It need not lock the mutex again.
Fairness ==
    /\ \A c \in CPUs : WF_vars(Dispatch(c) /\ UNCHANGED mutexVars)
    /\ \A c \in CPUs : WF_vars(Preempt(c) /\ UNCHANGED mutexVars)
    /\ \A t \in Threads : SF_vars(mutex_lock(t) \/ mutex_unlock(t))

FairSpec == Spec /\ Fairness

-----------------------------------------------------------------------------
(***************************************************************************)
(* Properties                                                              *)
(***************************************************************************)

TypeOK ==
    /\ count \in Int /\ count <= 1
    /\ owner \in Threads \cup {NULL}
    /\ wait_ls \in Seq(Threads)
    /\ lock \in Seq(Threads)
    /\ pc \in [Threads -> Labels]
    /\ next \in [Threads -> Threads \cup {NULL}]
    /\ claims \in Seq(Threads)
    /\ failed \in BOOLEAN

\* A thread holds the mutex from the return of mutex_lock, or from the moment
\* mutex_unlock makes it the owner, until mutex_unlock counts it out.
Holding(t) == pc[t] \in {"lock_leave", "held", "unlock_add"} \/ (pc[t] = "lock_check" /\ owner = t)

\* The assertions of mutex.c hold, list_pop_front never finds wait_ls empty and
\* schd_run never finds the waiter in another state than BLOCKED.
NoFailure == ~ failed

\* No wake-up is lost: a thread that waits on wait_ls has a thread before it
\* that holds the mutex or is on its way to hand it over.
WaiterHasWaker ==
    wait_ls # <<>> => \E t \in Threads :
        Holding(t) \/ pc[t] \in {"lock_own", "unlock_lock", "unlock_spin"}

\* mutex_unlock hands the mutex over to a thread that is asleep, and no thread
\* stays asleep without one before it: the count, wait_ls and the states of the
\* threads agree although the count changes without the spinlock.
HandOverSafe == TypeOK /\ NoFailure /\ WaiterHasWaker

\* mutex_lock returns to one thread at a time, although mutex_unlock clears the
\* owner and counts up without the spinlock, and threads get the mutex in the
\* order in which they were counted in.
status == [t \in Threads |-> IF Holding(t) THEN "holding"
                             ELSE IF InQueue(claims, t) THEN "waiting" ELSE "out"]

Fifo == INSTANCE FifoLock WITH Procs <- Threads, queue <- claims

IsFifoLock == Fifo!Spec

\* Every thread that asks for the mutex gets it, if holders release it.
NoStarvation == \A t \in Threads : pc[t] = "lock_spin" ~> pc[t] = "held"
=============================================================================

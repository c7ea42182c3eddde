------------------------------ MODULE Mutexes ------------------------------
(***************************************************************************)
(* The mutexes of the kernel as its other parts use them: mutex_lock and   *)
(* mutex_unlock in one step each.  Module Mutex shows that the code        *)
(* behaves as a FIFO lock that is handed over from thread to thread.       *)
(***************************************************************************)
EXTENDS Sched

CONSTANT Locks

VARIABLES owner,        \* mutex_t.owner of each mutex
          waitq         \* mutex_t.wait_ls: the threads that are BLOCKED for it

mutexesVars == <<owner, waitq>>

MutexesInit ==
    /\ owner = [x \in Locks |-> NULL]
    /\ waitq = [x \in Locks |-> <<>>]

\* The caller gets a free mutex at once, and is BLOCKED until it is handed over
\* otherwise.
mutex_lock(t, x) ==
    \/ /\ owner[x] = NULL
       /\ owner' = [owner EXCEPT ![x] = t]
       /\ UNCHANGED <<schedVars, waitq>>
    \/ /\ owner[x] # NULL
       /\ waitq' = [waitq EXCEPT ![x] = Append(@, t)]
       /\ \E c \in CPUs : cur[c] = t /\ Block(c)
       /\ UNCHANGED owner

\* A mutex with waiters goes to the first of them.
mutex_unlock(x) ==
    \/ /\ waitq[x] = <<>>
       /\ owner' = [owner EXCEPT ![x] = NULL]
       /\ UNCHANGED <<schedVars, waitq>>
    \/ /\ waitq[x] # <<>>
       /\ owner' = [owner EXCEPT ![x] = Head(waitq[x])]
       /\ waitq' = [waitq EXCEPT ![x] = Tail(@)]
       /\ Run(Head(waitq[x]))

\* schd_run panics on a thread that does not wait.
CanRun(t) == t # NULL /\ state[t] \in {"UNSCHDED", "BLOCKED"}
=============================================================================

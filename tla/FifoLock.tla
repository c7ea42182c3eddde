------------------------------ MODULE FifoLock ------------------------------
(***************************************************************************)
(* What the kernel's locks promise to their callers: a lock that serves    *)
(* its requests in the order they were made, one at a time.  The ticket    *)
(* spinlock of include/spinlock.h implements this specification.           *)
(***************************************************************************)
EXTENDS Naturals, Sequences

CONSTANT Procs          \* the contexts that use the lock

VARIABLES status,       \* what each context is doing with the lock
          queue         \* holder first, then the requests in their order

vars == <<status, queue>>

Init ==
    /\ status = [p \in Procs |-> "out"]
    /\ queue = <<>>

Request(p) ==
    /\ status[p] = "out"
    /\ status' = [status EXCEPT ![p] = "waiting"]
    /\ queue' = Append(queue, p)

Grant(p) ==
    /\ status[p] = "waiting"
    /\ queue # <<>>
    /\ Head(queue) = p
    /\ status' = [status EXCEPT ![p] = "holding"]
    /\ UNCHANGED queue

Release(p) ==
    /\ status[p] = "holding"
    /\ status' = [status EXCEPT ![p] = "out"]
    /\ queue' = Tail(queue)

Next == \E p \in Procs : Request(p) \/ Grant(p) \/ Release(p)

Spec == Init /\ [][Next]_vars
=============================================================================

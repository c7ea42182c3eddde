--------------------------- MODULE SchedTheorems ---------------------------
(***************************************************************************)
(* What the operations of the scheduler keep true of the threads' states,  *)
(* the runnable queue and the CPUs, and the one thread each of them        *)
(* touches: the facts the proofs about the blocking services rest on.      *)
(***************************************************************************)
EXTENDS Sched, QueueTheorems

USE SchedAssumption, ZenonT(3), SMTT(30)

SchedTypeOK ==
    /\ state \in [Threads -> T_STATE]
    /\ runnable \in Seq(Threads)
    /\ cur \in [CPUs -> Threads \cup {NULL}]

\* The queue holds the RUNNABEL threads, the CPUs execute the RUNNING ones, each
\* once.
SchedInv ==
    /\ SchedTypeOK
    /\ NoDuplicates(runnable)
    /\ \A t \in Threads : InQueue(runnable, t) <=> state[t] = "RUNNABEL"
    /\ \A t \in Threads : state[t] = "RUNNING" <=> \E c \in CPUs : cur[c] = t
    /\ \A c, d \in CPUs : cur[c] # NULL /\ cur[c] = cur[d] => c = d

\* Thread t, and no other, goes from one of the states in from to the state to.
Moves(t, from, to) ==
    t \in Threads /\ state[t] \in from /\ state' = [state EXCEPT ![t] = to]

LEMMA SchedInitInv == SchedInit => SchedInv
<1> SUFFICES ASSUME SchedInit PROVE SchedInv
    OBVIOUS
<1>1. SchedTypeOK
    BY DEF SchedInit, SchedTypeOK, T_STATE
<1> QED BY <1>1 DEF SchedInit, SchedInv

LEMMA SchedStutterInv == ASSUME SchedInv, UNCHANGED schedVars PROVE SchedInv'
BY DEF schedVars, SchedInv, SchedTypeOK

\* A free CPU takes a RUNNABEL thread.
LEMMA DispatchInv ==
    ASSUME SchedInv, NEW c \in CPUs, Dispatch(c)
    PROVE  SchedInv' /\ \E t \in Threads : Moves(t, {"RUNNABEL"}, "RUNNING")
<1> DEFINE t == Head(runnable)
<1>1. /\ Tail(runnable) \in Seq(Threads) /\ NoDuplicates(Tail(runnable))
      /\ t = runnable[1] /\ t \in Threads
      /\ \A y : InQueue(Tail(runnable), y) <=> InQueue(runnable, y) /\ y # t
    BY QueueTail DEF Dispatch, SchedInv, SchedTypeOK
<1>2. InQueue(runnable, t)
    BY <1>1, QueueEmpty DEF Dispatch, SchedInv, SchedTypeOK, InQueue
<1> HIDE DEF t
<1>3. /\ cur[c] = NULL /\ cur' = [cur EXCEPT ![c] = t]
      /\ state' = [state EXCEPT ![t] = "RUNNING"] /\ runnable' = Tail(runnable)
    BY DEF Dispatch, t
<1>4. state[t] = "RUNNABEL"
    BY <1>1, <1>2 DEF SchedInv
<1>5. SchedTypeOK'
    BY <1>1, <1>3 DEF SchedInv, SchedTypeOK, T_STATE
<1>6. \A u \in Threads : state'[u] = "RUNNING" <=> \E d \in CPUs : cur'[d] = u
    BY <1>1, <1>3, <1>4 DEF SchedInv, SchedTypeOK
<1>7. \A d, e \in CPUs : cur'[d] # NULL /\ cur'[d] = cur'[e] => d = e
    BY <1>1, <1>3, <1>4 DEF SchedInv, SchedTypeOK
<1>8. \A u \in Threads : InQueue(runnable', u) <=> state'[u] = "RUNNABEL"
    BY <1>1, <1>3, <1>4 DEF SchedInv, SchedTypeOK
<1> QED BY Zenon, <1>1, <1>3, <1>4, <1>5, <1>6, <1>7, <1>8 DEF SchedInv, Moves

\* The timer puts a RUNNING thread back on the queue.
LEMMA PreemptInv ==
    ASSUME SchedInv, NEW c \in CPUs, Preempt(c)
    PROVE  SchedInv' /\ Moves(cur[c], {"RUNNING"}, "RUNNABEL")
<1> DEFINE t == cur[c]
<1>1. t \in Threads /\ state[t] = "RUNNING"
    BY DEF Preempt, SchedInv, SchedTypeOK
<1>2. /\ Append(runnable, t) \in Seq(Threads) /\ NoDuplicates(Append(runnable, t))
      /\ \A y : InQueue(Append(runnable, t), y) <=> InQueue(runnable, y) \/ y = t
    BY <1>1, QueueAppend DEF SchedInv, SchedTypeOK
<1>3. /\ cur' = [cur EXCEPT ![c] = NULL]
      /\ state' = [state EXCEPT ![t] = "RUNNABEL"] /\ runnable' = Append(runnable, t)
    BY DEF Preempt
<1>4. SchedTypeOK'
    BY <1>1, <1>2, <1>3 DEF SchedInv, SchedTypeOK, T_STATE
<1>5. SchedInv'
    BY <1>1, <1>2, <1>3, <1>4 DEF SchedInv, SchedTypeOK
<1> QED BY <1>1, <1>3, <1>5 DEF Moves

\* schd_block and schd_kill take the thread that runs on the CPU off it.
LEMMA LeaveCpuInv ==
    ASSUME SchedInv, NEW c \in CPUs, NEW s \in {"BLOCKED", "KILLED"}, cur[c] # NULL,
           state' = [state EXCEPT ![cur[c]] = s], cur' = [cur EXCEPT ![c] = NULL],
           UNCHANGED runnable
    PROVE  SchedInv' /\ Moves(cur[c], {"RUNNING"}, s)
<1> DEFINE t == cur[c]
<1>1. t \in Threads /\ state[t] = "RUNNING"
    BY DEF SchedInv, SchedTypeOK
<1>2. SchedTypeOK'
    BY <1>1 DEF SchedInv, SchedTypeOK, T_STATE
<1>3. SchedInv'
    BY <1>1, <1>2 DEF SchedInv, SchedTypeOK
<1> QED BY <1>1, <1>3 DEF Moves

LEMMA BlockInv ==
    ASSUME SchedInv, NEW c \in CPUs, Block(c)
    PROVE  SchedInv' /\ Moves(cur[c], {"RUNNING"}, "BLOCKED")
BY Zenon, LeaveCpuInv DEF Block

LEMMA ExitInv ==
    ASSUME SchedInv, NEW c \in CPUs, Exit(c)
    PROVE  SchedInv' /\ Moves(cur[c], {"RUNNING"}, "KILLED")
BY Zenon, LeaveCpuInv DEF Exit

\* schd_run queues a thread that is new or BLOCKED.
LEMMA RunInv ==
    ASSUME SchedInv, NEW t \in Threads, Run(t)
    PROVE  SchedInv' /\ Moves(t, {"UNSCHDED", "BLOCKED"}, "RUNNABEL")
<1>1. /\ Append(runnable, t) \in Seq(Threads) /\ NoDuplicates(Append(runnable, t))
      /\ \A y : InQueue(Append(runnable, t), y) <=> InQueue(runnable, y) \/ y = t
    BY QueueAppend DEF Run, SchedInv, SchedTypeOK
<1>2. SchedTypeOK'
    BY <1>1 DEF Run, SchedInv, SchedTypeOK, T_STATE
<1>3. SchedInv'
    BY <1>1, <1>2 DEF Run, SchedInv, SchedTypeOK
<1> QED BY <1>3 DEF Run, Moves

\* The states of the threads after a step that moves none of them, after
\* schd_block and after schd_run.
LEMMA SameStates ==
    ASSUME SchedInv, UNCHANGED schedVars PROVE SchedInv' /\ state' = state
BY SchedStutterInv DEF schedVars

LEMMA BlockStates ==
    ASSUME SchedInv, NEW c \in CPUs, NEW t \in Threads, cur[c] = t, Block(c)
    PROVE  SchedInv' /\ \A u \in Threads : state'[u] = IF u = t THEN "BLOCKED" ELSE state[u]
BY BlockInv DEF Moves, SchedInv, SchedTypeOK

LEMMA RunStates ==
    ASSUME SchedInv, NEW t \in Threads, Run(t)
    PROVE  /\ SchedInv' /\ state[t] \in {"UNSCHDED", "BLOCKED"}
           /\ \A u \in Threads : state'[u] = IF u = t THEN "RUNNABEL" ELSE state[u]
BY RunInv DEF Moves, SchedInv, SchedTypeOK

\* schd_kill of a thread that waits for a CPU takes it off the queue.
LEMMA KillInv ==
    ASSUME SchedInv, NEW t \in Threads, Kill(t)
    PROVE  SchedInv' /\ Moves(t, {"RUNNABEL"}, "KILLED")
<1> DEFINE q == list_delete(runnable, t)
<1>1. /\ q \in Seq(Threads) /\ NoDuplicates(q)
      /\ \A y : InQueue(q, y) <=> InQueue(runnable, y) /\ y # t
    BY QueueDelete DEF Kill, SchedInv, SchedTypeOK
<1>2. /\ state[t] = "RUNNABEL" /\ state' = [state EXCEPT ![t] = "KILLED"]
      /\ runnable' = q /\ cur' = cur
    BY DEF Kill
<1> HIDE DEF q
<1>3. SchedTypeOK'
    BY <1>1, <1>2 DEF SchedInv, SchedTypeOK, T_STATE
<1>4. SchedInv'
    BY <1>1, <1>2, <1>3 DEF SchedInv, SchedTypeOK
<1> QED BY <1>2, <1>4 DEF Moves
=============================================================================

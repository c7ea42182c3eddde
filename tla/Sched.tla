------------------------------- MODULE Sched -------------------------------
(***************************************************************************)
(* What the scheduler of kernel/proc/thread/schd.c promises to the rest of *)
(* the kernel: each of its operations changes the threads' states, the     *)
(* FIFO of runnable threads and what a CPU executes in one step.  Module   *)
(* Scheduler shows that the code, with its lock and its stack switches,    *)
(* implements this.  The kernel's blocking services are modelled on top.   *)
(***************************************************************************)
EXTENDS Queues

CONSTANTS CPUs, Threads,
          NULL,         \* no thread: the CPU executes its scheduler loop
          BootQueue     \* the threads made runnable before the CPUs schedule

ASSUME SchedAssumption ==
    /\ NULL \notin Threads
    /\ BootQueue \in Seq(Threads)
    /\ NoDuplicates(BootQueue)

VARIABLES state,        \* thread_t.state
          runnable,     \* scheduler.runnable
          cur           \* the thread each CPU executes

schedVars == <<state, runnable, cur>>

\* enum T_STATE of include/thread.h
T_STATE == {"UNSCHDED", "RUNNABEL", "RUNNING", "SLEEPING", "BLOCKED", "KILLED"}

SchedInit ==
    /\ state = [t \in Threads |-> IF InQueue(BootQueue, t) THEN "RUNNABEL" ELSE "UNSCHDED"]
    /\ runnable = BootQueue
    /\ cur = [c \in CPUs |-> NULL]

\* A free CPU takes the thread at the head of the queue.
Dispatch(c) ==
    /\ cur[c] = NULL
    /\ runnable # <<>>
    /\ cur' = [cur EXCEPT ![c] = Head(runnable)]
    /\ state' = [state EXCEPT ![Head(runnable)] = "RUNNING"]
    /\ runnable' = Tail(runnable)

\* The timer takes the CPU from a thread, which queues again.
Preempt(c) ==
    /\ cur[c] # NULL
    /\ runnable' = Append(runnable, cur[c])
    /\ state' = [state EXCEPT ![cur[c]] = "RUNNABEL"]
    /\ cur' = [cur EXCEPT ![c] = NULL]

\* schd_block of the thread on CPU c
Block(c) ==
    /\ cur[c] # NULL
    /\ state' = [state EXCEPT ![cur[c]] = "BLOCKED"]
    /\ cur' = [cur EXCEPT ![c] = NULL]
    /\ UNCHANGED runnable

\* schd_run of thread t
Run(t) ==
    /\ state[t] \in {"UNSCHDED", "BLOCKED"}
    /\ state' = [state EXCEPT ![t] = "RUNNABEL"]
    /\ runnable' = Append(runnable, t)
    /\ UNCHANGED cur

\* schd_kill of the thread on CPU c by itself
Exit(c) ==
    /\ cur[c] # NULL
    /\ state' = [state EXCEPT ![cur[c]] = "KILLED"]
    /\ cur' = [cur EXCEPT ![c] = NULL]
    /\ UNCHANGED runnable

\* schd_kill of a runnable thread t
Kill(t) ==
    /\ state[t] = "RUNNABEL"
    /\ state' = [state EXCEPT ![t] = "KILLED"]
    /\ runnable' = list_delete(runnable, t)
    /\ UNCHANGED cur

SchedNext ==
    \/ \E c \in CPUs : Dispatch(c) \/ Preempt(c) \/ Block(c) \/ Exit(c)
    \/ \E t \in Threads : Run(t) \/ Kill(t)

SchedSpec == SchedInit /\ [][SchedNext]_schedVars
=============================================================================

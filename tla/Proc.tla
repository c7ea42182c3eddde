-------------------------------- MODULE Proc --------------------------------
(***************************************************************************)
(* Processes and the life of their threads: kernel/proc/proc.c and the     *)
(* system calls of kernel/proc/thread/thread.c, on the scheduler that      *)
(* module Sched specifies.  A process is created with a kernel thread that *)
(* loads the program, creates the first user thread and ends; its creator  *)
(* can wait, BLOCKED, for its exit.  Exit and kill walk through the list   *)
(* of the threads with interrupts enabled and kill one after the other.    *)
(* Memory, names, arguments and the list of all processes are left out.    *)
(***************************************************************************)
EXTENDS Sched, Naturals

CONSTANTS Procs,
          BootThreads,  \* the threads of each process at boot, oldest first
          Machines      \* CPUs in use and system calls that the programs make

ASSUME ProcAssumption ==
    /\ NULL \notin Procs
    /\ BootThreads \in [Procs -> Seq(Threads)]
    /\ \A p \in Procs : NoDuplicates(BootThreads[p])
    /\ \A p, q \in Procs, t \in Threads :
        InQueue(BootThreads[p], t) /\ InQueue(BootThreads[q], t) => p = q
    /\ \A t \in Threads : InQueue(BootQueue, t) <=> \E p \in Procs : InQueue(BootThreads[p], t)
    /\ \A m \in Machines : m.cpus \subseteq CPUs

VARIABLES machine,      \* one of Machines, from boot on
          proc,         \* thread_t.proc
          thread_ls,    \* proc_t.thread_ls; empty: no such process yet
          wait_t,       \* proc_t.wait_t
          exited,       \* history: the processes whose exit reached the wake-up
          pc,           \* where each thread is in proc.c and thread.c
          child,        \* the thread that it creates
          walk,         \* its walk through a thread_ls: the process, p and pp
          irqoff,       \* whether it disabled interrupts
          failed        \* the assertion or panic that stopped the machine

procVars == <<machine, proc, thread_ls, wait_t, exited>>
localVars == <<pc, child, walk, irqoff>>
vars == <<schedVars, procVars, localVars, failed>>

NoWalk == [of |-> NULL, p |-> 0, pp |-> 0]

BootProc(t) ==
    IF InQueue(BootQueue, t) THEN CHOOSE p \in Procs : InQueue(BootThreads[p], t) ELSE NULL

Init ==
    /\ SchedInit
    /\ machine \in Machines
    /\ proc = [t \in Threads |-> BootProc(t)]
    /\ thread_ls = BootThreads
    /\ wait_t = [p \in Procs |-> NULL]
    /\ exited = {}
    /\ pc = [t \in Threads |-> "user"]
    /\ child = [t \in Threads |-> NULL]
    /\ walk = [t \in Threads |-> NoWalk]
    /\ irqoff = [t \in Threads |-> FALSE]
    /\ failed = "no"

-----------------------------------------------------------------------------
At(t, l) == state[t] = "RUNNING" /\ pc[t] = l

Goto(t, l) == pc' = [pc EXCEPT ![t] = l]

Fail(what) == failed' = what /\ UNCHANGED <<schedVars, procVars, localVars>>

Calling(t, call) == At(t, "user") /\ call \in machine.calls

\* The CPU of the running thread t
CPU(t) == CHOOSE c \in CPUs : cur[c] = t

CanRun(t) == state[t] \in {"UNSCHDED", "BLOCKED"}

-----------------------------------------------------------------------------
(***************************************************************************)
(* Creation of threads: thread_kern_new and thread_user_new put the thread *)
(* on the list of its process, then call schd_run.                         *)
(***************************************************************************)

\* Thread t creates a thread of process p that starts at label start, and goes
\* on at label l.
thread_new(t, p, start, l) == \E u \in Threads :
    /\ state[u] = "UNSCHDED"
    /\ proc[u] = NULL
    /\ proc' = [proc EXCEPT ![u] = p]
    /\ thread_ls' = [thread_ls EXCEPT ![p] = Append(@, u)]
    /\ child' = [child EXCEPT ![t] = u]
    /\ pc' = [pc EXCEPT ![t] = l, ![u] = start]
    /\ UNCHANGED <<schedVars, machine, exited, walk, failed>>

RunChild(t, l) ==
    /\ Run(child[t])
    /\ child' = [child EXCEPT ![t] = NULL]
    /\ Goto(t, l)
    /\ UNCHANGED <<procVars, walk, irqoff, failed>>

thread_sys_new(t) ==
    /\ Calling(t, "thread_new")
    /\ thread_new(t, proc[t], "user", "new_run")
    /\ UNCHANGED <<wait_t, irqoff>>

\* Another thread of the process may have woken the new one up already.
new_run(t) ==
    /\ At(t, "new_run")
    /\ \/ ~ CanRun(child[t]) /\ Fail("schd_run")
       \/ RunChild(t, "user")

\* inner_setup_uthread_from_mm_thread: the kernel thread of a new process.  If
\* there is no memory for the arguments it returns and leaves no thread behind;
\* for the program and for the thread it asserts that there is.
inner_setup(t) ==
    /\ At(t, "setup")
    /\ \/ /\ thread_new(t, proc[t], "user", "setup_run")
          /\ UNCHANGED <<wait_t, irqoff>>
       \/ /\ Goto(t, "exit")
          /\ UNCHANGED <<schedVars, procVars, child, walk, irqoff, failed>>
       \/ Fail("setup")

setup_run(t) == At(t, "setup_run") /\ RunChild(t, "exit")

\* schd_kill(thread_now()), at the end of a kernel thread and of proc_sys_exit
ThreadExit(t) ==
    /\ At(t, "exit")
    /\ Exit(CPU(t))
    /\ UNCHANGED <<procVars, localVars, failed>>

thread_sys_exit(t) ==
    /\ Calling(t, "thread_exit")
    /\ Exit(CPU(t))
    /\ UNCHANGED <<procVars, localVars, failed>>

thread_sys_block(t) ==
    /\ Calling(t, "thread_block")
    /\ Block(CPU(t))
    /\ UNCHANGED <<procVars, localVars, failed>>

thread_sys_wake(t) ==
    /\ Calling(t, "thread_wake")
    /\ \E u \in Threads :
        /\ proc[u] = proc[t]
        /\ \/ ~ CanRun(u) /\ Fail("thread_wake")
           \/ Run(u) /\ UNCHANGED <<procVars, localVars, failed>>

-----------------------------------------------------------------------------
(***************************************************************************)
(* proc_create_from_mm                                                     *)
(***************************************************************************)

\* Mutant: interrupts stay enabled.
proc_create_IrqOn(t) ==
    /\ Calling(t, "proc_create")
    /\ \E p \in Procs, wait \in BOOLEAN :
        /\ thread_ls[p] = <<>> /\ wait_t[p] = NULL
        /\ thread_new(t, p, "setup", IF wait THEN "create_run_wait" ELSE "create_run")
        /\ wait_t' = [wait_t EXCEPT ![p] = IF wait THEN t ELSE NULL]
        /\ UNCHANGED irqoff

proc_create(t) ==
    /\ Calling(t, "proc_create")
    /\ \E p \in Procs, wait \in BOOLEAN :
        /\ thread_ls[p] = <<>> /\ wait_t[p] = NULL
        /\ thread_new(t, p, "setup", IF wait THEN "create_run_wait" ELSE "create_run")
        /\ wait_t' = [wait_t EXCEPT ![p] = IF wait THEN t ELSE NULL]
        /\ irqoff' = [irqoff EXCEPT ![t] = wait]

\* No memory for the thread of the new process: the creator waits all the same.
create_fails(t) ==
    /\ Calling(t, "proc_create")
    /\ \E p \in Procs :
        /\ thread_ls[p] = <<>> /\ wait_t[p] = NULL
        /\ wait_t' = [wait_t EXCEPT ![p] = t]
    /\ irqoff' = [irqoff EXCEPT ![t] = TRUE]
    /\ Goto(t, "create_block")
    /\ UNCHANGED <<schedVars, machine, proc, thread_ls, exited, child, walk, failed>>

create_run(t) ==
    \/ At(t, "create_run") /\ RunChild(t, "user")
    \/ At(t, "create_run_wait") /\ RunChild(t, "create_block")

create_block(t) ==
    /\ At(t, "create_block")
    /\ Block(CPU(t))
    /\ Goto(t, "waiting")
    /\ UNCHANGED <<procVars, child, walk, irqoff, failed>>

create_return(t) ==
    /\ At(t, "waiting")
    /\ irqoff' = [irqoff EXCEPT ![t] = FALSE]
    /\ Goto(t, "user")
    /\ UNCHANGED <<schedVars, procVars, child, walk, failed>>

-----------------------------------------------------------------------------
(***************************************************************************)
(* proc_sys_exit and proc_sys_kill                                         *)
(***************************************************************************)

\* The element after i, 0 for the list head
NextOf(p, i) == IF i \in {0, Len(thread_ls[p])} THEN 0 ELSE i + 1

\* list_rep_s remembers the next element, pp, when it reaches an element p.
Begin(t, p) == walk' = [walk EXCEPT ![t] = [of |-> p, p |-> 1, pp |-> NextOf(p, 1)]]

Advance(t) ==
    LET w == walk[t] IN
    walk' = [walk EXCEPT ![t] = [of |-> w.of, p |-> w.pp, pp |-> NextOf(w.of, w.pp)]]

proc_sys_exit(t) ==
    /\ Calling(t, "proc_exit")
    /\ Begin(t, proc[t])
    /\ Goto(t, "walk")
    /\ UNCHANGED <<schedVars, procVars, child, irqoff, failed>>

\* The threads of the process stay on its list, and the process can be found,
\* after it ended.
proc_sys_kill(t) ==
    /\ Calling(t, "proc_kill")
    /\ \E p \in Procs \ {proc[t]} : thread_ls[p] # <<>> /\ Begin(t, p)
    /\ Goto(t, "walk")
    /\ UNCHANGED <<schedVars, procVars, child, irqoff, failed>>

\* One turn of the loop up to the test of the thread's state
Victim(t) == thread_ls[walk[t].of][walk[t].p]

\* Mutant: the walk ends before the last thread.
walk_test_Short(t) ==
    /\ At(t, "walk")
    /\ \/ /\ walk[t].pp = 0
          /\ Goto(t, IF walk[t].of = proc[t] THEN "exit_wake" ELSE "user")
          /\ UNCHANGED walk
       \/ /\ walk[t].pp # 0
          /\ Victim(t) = t \/ state[Victim(t)] = "KILLED"
          /\ Advance(t)
          /\ UNCHANGED pc
       \/ /\ walk[t].pp # 0
          /\ Victim(t) # t /\ state[Victim(t)] # "KILLED"
          /\ Goto(t, "kill")
          /\ UNCHANGED walk
    /\ UNCHANGED <<schedVars, procVars, child, irqoff, failed>>

walk_test(t) ==
    /\ At(t, "walk")
    /\ \/ /\ walk[t].p = 0
          /\ Goto(t, IF walk[t].of = proc[t] THEN "exit_wake" ELSE "user")
          /\ UNCHANGED walk
       \/ /\ walk[t].p # 0
          /\ Victim(t) = t \/ state[Victim(t)] = "KILLED"
          /\ Advance(t)
          /\ UNCHANGED pc
       \/ /\ walk[t].p # 0
          /\ Victim(t) # t /\ state[Victim(t)] # "KILLED"
          /\ Goto(t, "kill")
          /\ UNCHANGED walk
    /\ UNCHANGED <<schedVars, procVars, child, irqoff, failed>>

\* schd_kill of another thread
walk_kill(t) ==
    /\ At(t, "kill")
    /\ CASE state[Victim(t)] = "RUNNABEL" ->
              /\ Kill(Victim(t))
              /\ Advance(t)
              /\ Goto(t, "walk")
              /\ UNCHANGED <<procVars, child, irqoff, failed>>
         [] state[Victim(t)] = "KILLED" -> Fail("killed_twice")
         [] state[Victim(t)] = "RUNNING" -> Fail("kill_running")
         [] OTHER -> Fail("kill_blocked")

\* Mutant: the waiting thread is not woken up.
exit_wake_Forgets(t) ==
    /\ At(t, "exit_wake")
    /\ exited' = exited \cup {proc[t]}
    /\ Goto(t, "exit")
    /\ UNCHANGED <<schedVars, machine, proc, thread_ls, wait_t, child, walk, irqoff, failed>>

exit_wake(t) ==
    LET w == wait_t[proc[t]] IN
    /\ At(t, "exit_wake")
    /\ \/ w # NULL /\ ~ CanRun(w) /\ Fail("schd_run")
       \/ /\ IF w = NULL THEN UNCHANGED schedVars ELSE Run(w)
          /\ exited' = exited \cup {proc[t]}
          /\ Goto(t, "exit")
          /\ UNCHANGED <<machine, proc, thread_ls, wait_t, child, walk, irqoff, failed>>

-----------------------------------------------------------------------------
\* A thread calls, or goes on with a call.
Call(t) ==
    \/ thread_sys_new(t) \/ thread_sys_exit(t) \/ thread_sys_block(t) \/ thread_sys_wake(t)
    \/ proc_create(t) \/ create_fails(t) \/ proc_sys_exit(t) \/ proc_sys_kill(t)

Step(t) ==
    \/ new_run(t) \/ inner_setup(t) \/ setup_run(t) \/ ThreadExit(t) \/ create_run(t)
    \/ create_block(t) \/ create_return(t) \/ walk_test(t) \/ walk_kill(t) \/ exit_wake(t)

Switch(c) ==
    /\ c \in machine.cpus
    /\ Dispatch(c) \/ (Preempt(c) /\ ~ irqoff[cur[c]])
    /\ UNCHANGED <<procVars, localVars, failed>>

Next ==
    /\ failed = "no"
    /\ \/ \E t \in Threads : Call(t) \/ Step(t)
       \/ \E c \in CPUs : Switch(c)

Spec == Init /\ [][Next]_vars

\* The scheduler and the timer are fair, and a thread that is dispatched again
\* and again goes on with its system call.
Fairness ==
    /\ \A c \in CPUs : WF_vars(failed = "no" /\ Switch(c))
    /\ \A t \in Threads : SF_vars(failed = "no" /\ Step(t))

FairSpec == Spec /\ Fairness

-----------------------------------------------------------------------------
(***************************************************************************)
(* Properties                                                              *)
(***************************************************************************)

TypeOK ==
    /\ machine \in Machines
    /\ proc \in [Threads -> Procs \cup {NULL}]
    /\ wait_t \in [Procs -> Threads \cup {NULL}]
    /\ exited \subseteq Procs
    /\ \A p \in Procs : NoDuplicates(thread_ls[p])
    /\ \A t \in Threads : proc[t] # NULL <=> \E p \in Procs : InQueue(thread_ls[p], t)

\* The creator that waits for a process sleeps, or is about to with interrupts
\* disabled, until the process exits: its exit finds a thread to wake up.
\* thread_sys_wake from another thread of the creator's process would break it.
\* So does a thread that thread_sys_new makes behind the last step of the walk of
\* proc_sys_exit: it exits its process once more, and wait_t, which nobody resets,
\* wakes the creator up again, from whatever process it waits for by then.
WaiterSleeps ==
    \A p \in Procs \ exited :
        LET w == wait_t[p] IN
        "thread_wake" \notin machine.calls /\ w # NULL /\ state[w] # "KILLED" =>
            \/ state[w] = "BLOCKED"
            \/ state[w] = "RUNNING" /\ irqoff[w]
            \/ "thread_new" \in machine.calls /\ \E q \in exited : wait_t[q] = w

\* When the exit of a process wakes up the thread that waits for it, the other
\* threads of the process, all of which are on the list that the exit walks,
\* are killed and stay so.  A thread that thread_sys_new puts on the list
\* behind the last step of the walk would survive.
ExitKillsAll ==
    /\ TypeOK
    /\ \A p \in exited : \A t, u \in Threads :
        /\ "thread_new" \notin machine.calls
        /\ proc[t] = p /\ proc[u] = p
        /\ state[t] # "KILLED" /\ state[u] # "KILLED"
        => t = u

\* The thread that waits for a process returns after its exit.
WaiterReturns ==
    \A p \in Procs :
        p \in exited /\ wait_t[p] # NULL ~>
            \/ failed # "no"
            \/ \E t \in Threads : wait_t[p] = t /\ (pc[t] # "waiting" \/ state[t] = "KILLED")
=============================================================================

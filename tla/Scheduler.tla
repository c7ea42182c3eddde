----------------------------- MODULE Scheduler -----------------------------
(***************************************************************************)
(* The scheduler of kernel/proc/thread/schd.c on several CPUs, with the    *)
(* context switch of arch/x86/src/task, the interrupt nesting counters of  *)
(* arch/x86/src/intr/intr.c and the entry code of threads (thread.c).      *)
(*                                                                         *)
(* Each CPU runs a scheduler loop on a stack of its own.  A CPU enters and *)
(* leaves a thread while holding scheduler.lock: the lock is taken by the  *)
(* code that gives the CPU up and released, on the other stack, by the     *)
(* code that receives it.  scheduler.lock is a ticket lock, so it is the   *)
(* queue of the CPUs that drew a ticket, holder first (module Spinlock).   *)
(*                                                                         *)
(* The threads use the scheduler the way kernel/proc/thread/mutex.c does:  *)
(* a thread that blocks puts itself on a wait list under a spinlock and    *)
(* passes that spinlock to schd_block; a thread that wakes another takes   *)
(* it from the list under the spinlock and calls schd_run after releasing  *)
(* it.  Threads also create threads, exit, kill and disable interrupts.    *)
(***************************************************************************)
EXTENDS Queues

CONSTANTS CPUs, Threads,
          NULL,         \* no thread; as a stack or task, the CPU's scheduler loop
          BootQueue,    \* the threads made runnable before the CPUs schedule
          KillOthers    \* whether threads kill other threads than themselves

ASSUME SchedulerAssumption ==
    /\ NULL \notin Threads
    /\ NULL \notin CPUs
    /\ BootQueue \in Seq(Threads)
    /\ NoDuplicates(BootQueue)
    /\ KillOthers \in BOOLEAN

VARIABLES
    state,      \* thread_t.state
    runnable,   \* scheduler.runnable
    lock,       \* scheduler.lock: the CPUs that drew a ticket, holder first
    task,       \* cpu_t.task: the thread the CPU is accounted to, NULL for schd
    stack,      \* the stack the CPU executes on
    pc,         \* where the CPU is in the scheduler's code
    ncli,       \* task_t.ncli of each thread: nesting of disabled interrupts
    irq,        \* the CPU's interrupt flag
    inservice,  \* the timer interrupt is in service: no other until the EOI
    call,       \* the scheduler call a thread is committed to
    target,     \* the thread that call is about
    guard,      \* the thread that holds the wait list's spinlock
    waiters,    \* the wait list
    panicked    \* a panic or a failed assertion stopped the machine

schdVars == <<state, runnable>>
irqVars == <<ncli, irq, inservice>>
userVars == <<call, target, guard, waiters>>
vars == <<schdVars, lock, task, stack, pc, irqVars, userVars, panicked>>

T_STATE == {"UNSCHDED", "RUNNABEL", "RUNNING", "SLEEPING", "BLOCKED", "KILLED"}

\* Labels of a CPU on its scheduler stack, and on the stack of a thread.
SchdLabels == {"loop", "loop_spin", "to_thread", "loop_unlock"}
ThreadLabels == {"resumed", "intr_end", "run", "intr_spin", "run_spin", "block_spin",
                 "kill_spin", "to_schd"}

\* thread_new leaves UNSCHDED threads; task_kern_init and task_user_init start
\* them with interrupts disabled once.
Init ==
    /\ state = [t \in Threads |-> IF InQueue(BootQueue, t) THEN "RUNNABEL" ELSE "UNSCHDED"]
    /\ runnable = BootQueue
    /\ lock = <<>>
    /\ task = [c \in CPUs |-> NULL]
    /\ stack = [c \in CPUs |-> NULL]
    /\ pc = [c \in CPUs |-> "loop"]
    /\ ncli = [t \in Threads |-> 1]
    /\ irq = [c \in CPUs |-> FALSE]
    /\ inservice = [c \in CPUs |-> FALSE]
    /\ call = [t \in Threads |-> "none"]
    /\ target = [t \in Threads |-> NULL]
    /\ guard = NULL
    /\ waiters = <<>>
    /\ panicked = FALSE

-----------------------------------------------------------------------------
(***************************************************************************)
(* Pieces shared by the operations                                         *)
(***************************************************************************)

Goto(c, label) == pc' = [pc EXCEPT ![c] = label]

\* panic and assert: the machine is shut down.
Panic == panicked' = TRUE /\ UNCHANGED <<schdVars, lock, task, stack, pc, irqVars, userVars>>

\* spin_lock: draw a ticket; the spin ends when the CPU is at the head.
DrawTicket(c) == lock' = Append(lock, c)

Served(c) == IsHead(lock, c)

\* spin_unlock serves the next ticket, whoever calls it.
spin_unlock == lock' = Tail(lock)

intr_irq_save(c) ==
    /\ irq' = [irq EXCEPT ![c] = FALSE]
    /\ ncli' = [ncli EXCEPT ![task[c]] = @ + 1]

intr_irq_restore(c) ==
    /\ ncli' = [ncli EXCEPT ![task[c]] = @ - 1]
    /\ irq' = [irq EXCEPT ![c] = ncli[task[c]] = 1]

\* Mutant: the thread is queued in front.
set_runnable_Front(t) ==
    /\ state' = [state EXCEPT ![t] = "RUNNABEL"]
    /\ runnable' = <<t>> \o runnable

set_runnable(t) ==
    /\ state' = [state EXCEPT ![t] = "RUNNABEL"]
    /\ runnable' = Append(runnable, t)

-----------------------------------------------------------------------------
(***************************************************************************)
(* The scheduler loop                                                      *)
(***************************************************************************)

\* schd_schdule: spin_lock(&scheduler.lock)
schd_schdule_lock(c) ==
    /\ pc[c] = "loop"
    /\ DrawTicket(c)
    /\ Goto(c, "loop_spin")
    /\ UNCHANGED <<schdVars, task, stack, irqVars, userVars, panicked>>

\* schd_schdule: with the lock, pop a thread and run schd_schdule_mid_func on
\* the scheduler's stack, or find the queue empty.
schd_schdule(c) ==
    /\ pc[c] = "loop_spin"
    /\ Served(c)
    /\ \/ /\ runnable = <<>>
          /\ Goto(c, "loop_unlock")
          /\ UNCHANGED <<schdVars, task>>
       \/ /\ runnable # <<>>
          /\ runnable' = Tail(runnable)
          /\ state' = [state EXCEPT ![Head(runnable)] = "RUNNING"]
          /\ task' = [task EXCEPT ![c] = Head(runnable)]
          /\ Goto(c, "to_thread")
    /\ UNCHANGED <<lock, stack, irqVars, userVars, panicked>>

\* context_switch: load the registers saved in the thread's context.
switch_to_thread(c) ==
    /\ pc[c] = "to_thread"
    /\ stack' = [stack EXCEPT ![c] = task[c]]
    /\ Goto(c, "resumed")
    /\ UNCHANGED <<schdVars, lock, task, irqVars, userVars, panicked>>

\* schd_schdule: back on the scheduler's stack, spin_unlock(&scheduler.lock)
schd_schdule_unlock(c) ==
    /\ pc[c] = "loop_unlock"
    /\ spin_unlock
    /\ Goto(c, "loop")
    /\ UNCHANGED <<schdVars, task, stack, irqVars, userVars, panicked>>

-----------------------------------------------------------------------------
(***************************************************************************)
(* A thread receives the CPU: the first instructions of thread_enclosure   *)
(* and pre for a new thread, the tails of schd_intr and schd_block for one *)
(* that ran before.                                                        *)
(***************************************************************************)

resume_unlock(c) ==
    /\ pc[c] = "resumed"
    /\ spin_unlock
    /\ Goto(c, "intr_end")
    /\ UNCHANGED <<schdVars, task, stack, irqVars, userVars, panicked>>

\* Mutant: the end of the interrupt forgets the EOI.
intr_end_NoEoi(c) ==
    /\ pc[c] = "intr_end"
    /\ intr_irq_restore(c)
    /\ Goto(c, "run")
    /\ UNCHANGED <<schdVars, lock, task, stack, inservice, userVars, panicked>>

\* intr_end, or the end of intr_hdl: lapic_eoi and one level of ncli.
intr_end(c) ==
    /\ pc[c] = "intr_end"
    /\ inservice' = [inservice EXCEPT ![c] = FALSE]
    /\ intr_irq_restore(c)
    /\ Goto(c, "run")
    /\ UNCHANGED <<schdVars, lock, task, stack, userVars, panicked>>

-----------------------------------------------------------------------------
(***************************************************************************)
(* A thread gives the CPU up                                               *)
(***************************************************************************)

\* The timer interrupt: the gate clears the interrupt flag, intr_hdl counts in
\* ncli, schd_intr saves the context and schd_intr_mid_func draws a ticket.
schd_intr(c) ==
    /\ pc[c] = "run"
    /\ irq[c]
    /\ ~ inservice[c]
    /\ inservice' = [inservice EXCEPT ![c] = TRUE]
    /\ intr_irq_save(c)
    /\ DrawTicket(c)
    /\ Goto(c, "intr_spin")
    /\ UNCHANGED <<schdVars, task, stack, userVars, panicked>>

\* schd_intr_mid_func, with the lock and still on the thread's stack
schd_intr_mid_func(c) ==
    /\ pc[c] = "intr_spin"
    /\ Served(c)
    /\ \/ state[task[c]] # "RUNNING" /\ Panic
       \/ /\ state[task[c]] = "RUNNING"
          /\ set_runnable(task[c])
          /\ task' = [task EXCEPT ![c] = NULL]
          /\ Goto(c, "to_schd")
          /\ UNCHANGED <<lock, stack, irqVars, userVars, panicked>>

\* schd_block: its assertion, then spin_lock_irqsave(&scheduler.lock)
schd_block_lock(c) ==
    /\ pc[c] = "run"
    /\ call[task[c]] = "block"
    /\ \/ state[task[c]] # "RUNNING" /\ Panic
       \/ /\ state[task[c]] = "RUNNING"
          /\ intr_irq_save(c)
          /\ DrawTicket(c)
          /\ Goto(c, "block_spin")
          /\ UNCHANGED <<schdVars, task, stack, inservice, userVars, panicked>>

\* Mutant: scheduler.lock is released before the switch.
schd_block_Unlocks(c) ==
    /\ pc[c] = "block_spin"
    /\ Served(c)
    /\ state' = [state EXCEPT ![task[c]] = "BLOCKED"]
    /\ guard' = NULL
    /\ call' = [call EXCEPT ![task[c]] = "none"]
    /\ task' = [task EXCEPT ![c] = NULL]
    /\ spin_unlock
    /\ Goto(c, "to_schd")
    /\ UNCHANGED <<runnable, stack, irqVars, target, waiters, panicked>>

\* schd_block, with the lock: BLOCKED, the caller's spinlock is released, and
\* schd_block_mid_func accounts the CPU to its scheduler.
schd_block(c) ==
    /\ pc[c] = "block_spin"
    /\ Served(c)
    /\ state' = [state EXCEPT ![task[c]] = "BLOCKED"]
    /\ guard' = NULL
    /\ call' = [call EXCEPT ![task[c]] = "none"]
    /\ task' = [task EXCEPT ![c] = NULL]
    /\ Goto(c, "to_schd")
    /\ UNCHANGED <<runnable, lock, stack, irqVars, target, waiters, panicked>>

\* Mutant: the switch does not load the stack pointer.
switch_to_schd_SameStack(c) ==
    /\ pc[c] = "to_schd"
    /\ Goto(c, "loop_unlock")
    /\ UNCHANGED <<schdVars, lock, task, stack, irqVars, userVars, panicked>>

\* context_switch: load the registers of the scheduler's context.
switch_to_schd(c) ==
    /\ pc[c] = "to_schd"
    /\ stack' = [stack EXCEPT ![c] = NULL]
    /\ Goto(c, "loop_unlock")
    /\ UNCHANGED <<schdVars, lock, task, irqVars, userVars, panicked>>

-----------------------------------------------------------------------------
(***************************************************************************)
(* schd_run and schd_kill                                                  *)
(***************************************************************************)

\* spin_lock_irqsave(&scheduler.lock)
schd_call_lock(c) ==
    /\ pc[c] = "run"
    /\ call[task[c]] \in {"run", "kill"}
    /\ intr_irq_save(c)
    /\ DrawTicket(c)
    /\ Goto(c, IF call[task[c]] = "run" THEN "run_spin" ELSE "kill_spin")
    /\ UNCHANGED <<schdVars, task, stack, inservice, userVars, panicked>>

\* The end of both calls: spin_unlock_irqrestore, back to the caller.
Return(c) ==
    /\ spin_unlock
    /\ intr_irq_restore(c)
    /\ call' = [call EXCEPT ![task[c]] = "none"]
    /\ Goto(c, "run")
    /\ UNCHANGED <<task, stack, inservice, target, guard, waiters, panicked>>

schd_run(c) ==
    /\ pc[c] = "run_spin"
    /\ Served(c)
    /\ LET t == target[task[c]] IN
       \/ state[t] \notin {"UNSCHDED", "BLOCKED"} /\ Panic
       \/ /\ state[t] \in {"UNSCHDED", "BLOCKED"}
          /\ set_runnable(t)
          /\ Return(c)

\* Mutant: a killed thread stays on the runnable list.
schd_kill_NoDelete(c) ==
    /\ pc[c] = "kill_spin"
    /\ Served(c)
    /\ state[target[task[c]]] = "RUNNABEL"
    /\ state' = [state EXCEPT ![target[task[c]]] = "KILLED"]
    /\ UNCHANGED runnable
    /\ Return(c)

schd_kill(c) ==
    /\ pc[c] = "kill_spin"
    /\ Served(c)
    /\ LET t == target[task[c]] IN
       \/ /\ \/ state[t] \in {"KILLED", "UNSCHDED", "BLOCKED"}
             \/ state[t] = "RUNNING" /\ t # task[c]
          /\ Panic
       \/ /\ state[t] \in {"RUNNABEL", "SLEEPING"}
          /\ state' = [state EXCEPT ![t] = "KILLED"]
          /\ runnable' = list_delete(runnable, t)
          /\ Return(c)
       \/ /\ state[t] = "RUNNING" /\ t = task[c]
          /\ state' = [state EXCEPT ![t] = "KILLED"]
          /\ task' = [task EXCEPT ![c] = NULL]
          /\ Goto(c, "to_schd")
          /\ UNCHANGED <<runnable, lock, stack, irqVars, userVars, panicked>>

-----------------------------------------------------------------------------
(***************************************************************************)
(* What threads do between scheduler calls                                 *)
(***************************************************************************)

\* Thread t executes its own code on CPU c and is committed to no call.
Free(c, t) == pc[c] = "run" /\ task[c] = t /\ call[t] = "none"

Commit(t, what, about) ==
    /\ call' = [call EXCEPT ![t] = what]
    /\ target' = [target EXCEPT ![t] = about]
    /\ UNCHANGED <<schdVars, lock, task, stack, pc, irqVars, panicked>>

\* Mutant: the spinlock is released before schd_block is called.
Wait_Unlocks(c) == \E t \in Threads :
    /\ Free(c, t)
    /\ guard = NULL
    /\ waiters' = Append(waiters, t)
    /\ Commit(t, "block", t)
    /\ UNCHANGED guard

\* mutex_lock, contended: under the spinlock, push itself on the wait list.
\* The spinlock stays held until schd_block releases it.
Wait(c) == \E t \in Threads :
    /\ Free(c, t)
    /\ guard = NULL
    /\ guard' = t
    /\ waiters' = Append(waiters, t)
    /\ Commit(t, "block", t)

\* mutex_unlock with waiters: pop one under the spinlock, then schd_run it.
Wake(c) == \E t \in Threads :
    /\ Free(c, t)
    /\ guard = NULL
    /\ waiters # <<>>
    /\ waiters' = Tail(waiters)
    /\ Commit(t, "run", Head(waiters))
    /\ UNCHANGED guard

\* thread_kern_new and thread_user_new: a thread nobody else knows of yet.
Create(c) == \E t, new \in Threads :
    /\ Free(c, t)
    /\ state[new] = "UNSCHDED"
    /\ \A u \in Threads : ~ (call[u] = "run" /\ target[u] = new)
    /\ Commit(t, "run", new)
    /\ UNCHANGED <<guard, waiters>>

\* thread_sys_exit and the end of thread_enclosure; proc_sys_kill and
\* proc_sys_exit for the other threads of a process.
Kill(c) == \E t, victim \in Threads :
    /\ Free(c, t)
    /\ victim = t \/ KillOthers
    /\ state[victim] \notin {"UNSCHDED", "KILLED"}
    /\ Commit(t, "kill", victim)
    /\ UNCHANGED <<guard, waiters>>

\* intr_irq_save and intr_irq_restore around a piece of a kernel service
\* (msg_recieve, proc_create_from_mm), nested at most once.
IrqOff(c) == \E t \in Threads :
    /\ Free(c, t)
    /\ ncli[t] = 0
    /\ intr_irq_save(c)
    /\ UNCHANGED <<schdVars, lock, task, stack, pc, inservice, userVars, panicked>>

IrqOn(c) == \E t \in Threads :
    /\ Free(c, t)
    /\ ncli[t] = 1
    /\ intr_irq_restore(c)
    /\ UNCHANGED <<schdVars, lock, task, stack, pc, inservice, userVars, panicked>>

-----------------------------------------------------------------------------
Kernel(c) ==
    \/ schd_schdule_lock(c) \/ schd_schdule(c) \/ switch_to_thread(c) \/ schd_schdule_unlock(c)
    \/ resume_unlock(c) \/ intr_end(c)
    \/ schd_intr_mid_func(c) \/ schd_block_lock(c) \/ schd_block(c) \/ switch_to_schd(c)
    \/ schd_call_lock(c) \/ schd_run(c) \/ schd_kill(c)

User(c) == Wait(c) \/ Wake(c) \/ Create(c) \/ Kill(c) \/ IrqOff(c) \/ IrqOn(c)

Next == ~ panicked /\ \E c \in CPUs : Kernel(c) \/ schd_intr(c) \/ User(c)

Spec == Init /\ [][Next]_vars

\* A CPU keeps executing the kernel's code.  A timer tick that arrives while
\* interrupts are off stays pending in the local APIC, and is taken at the
\* latest when they have been on again and again.  A thread that disabled
\* interrupts enables them after finitely many steps.
Fairness == \A c \in CPUs :
    /\ WF_vars(~ panicked /\ Kernel(c))
    /\ SF_vars(~ panicked /\ schd_intr(c))
    /\ SF_vars(~ panicked /\ IrqOn(c))

FairSpec == Spec /\ Fairness

-----------------------------------------------------------------------------
(***************************************************************************)
(* Properties                                                              *)
(***************************************************************************)

TypeOK ==
    /\ state \in [Threads -> T_STATE]
    /\ runnable \in Seq(Threads)
    /\ lock \in Seq(CPUs)
    /\ task \in [CPUs -> Threads \cup {NULL}]
    /\ stack \in [CPUs -> Threads \cup {NULL}]
    /\ pc \in [CPUs -> SchdLabels \cup ThreadLabels]
    /\ ncli \in [Threads -> 0 .. 2]
    /\ irq \in [CPUs -> BOOLEAN]
    /\ inservice \in [CPUs -> BOOLEAN]
    /\ call \in [Threads -> {"none", "block", "run", "kill"}]
    /\ target \in [Threads -> Threads \cup {NULL}]
    /\ guard \in Threads \cup {NULL}
    /\ waiters \in Seq(Threads)
    /\ panicked \in BOOLEAN

\* A thread is put on the runnable list while its CPU still executes on its
\* stack (schd_intr_mid_func), yet no two CPUs ever execute on the stack of
\* one thread.
StackExclusive == \A c, d \in CPUs : stack[c] # NULL /\ stack[c] = stack[d] => c = d

\* The runnable list holds exactly the RUNNABEL threads, each once.
RunnableExact ==
    /\ NoDuplicates(runnable)
    /\ \A t \in Threads : InQueue(runnable, t) <=> state[t] = "RUNNABEL"

\* A thread is RUNNING exactly when it is the task of a CPU, and of one only.
RunningExact ==
    /\ \A t \in Threads : state[t] = "RUNNING" <=> \E c \in CPUs : task[c] = t
    /\ \A c, d \in CPUs : task[c] # NULL /\ task[c] = task[d] => c = d

\* The states of the threads, the runnable list and the tasks of the CPUs agree.
StatesExact == RunnableExact /\ RunningExact

\* Wherever a thread is in its life, it is executed by one CPU at most, and its
\* state, the runnable list and the CPUs' tasks tell the same about it.
ThreadsExact == StackExclusive /\ StatesExact

\* scheduler.lock crosses the context switch: whoever executes spin_unlock
\* on it is on the CPU that holds it, in the scheduler loop as well as in a
\* thread that has just received the CPU.
LockHandedOver == \A c \in CPUs :
    pc[c] \in {"to_thread", "to_schd", "loop_unlock", "resumed"} => IsHead(lock, c)

\* The interrupt flag of a CPU agrees with the nesting counter of the thread
\* it executes, although intr_irq_save and intr_irq_restore count in the task
\* that cpu_set_task changes in the middle; and the timer is never left
\* masked (its interrupt not acknowledged) when interrupts are on.
IrqAccounting == \A c \in CPUs :
    /\ pc[c] = "run" => (irq[c] <=> ncli[task[c]] = 0)
    /\ pc[c] # "run" => ~ irq[c]
    /\ irq[c] => ~ inservice[c]

\* What the code carries across a switch from one stack to another, the lock of
\* the scheduler and the count of disabled interrupts, ends at the right CPU.
LockAndIrq == LockHandedOver /\ IrqAccounting

\* No assertion of schd.c fails and no panic of schd_run or schd_kill is
\* reached.
NoPanic == ~ panicked

\* KILLED is final: a killed thread never runs again.
KilledForGood ==
    [][\A t \in Threads : state[t] = "KILLED" =>
          /\ state'[t] = "KILLED"
          /\ \A c \in CPUs : stack[c] # t => stack'[c] # t]_vars

\* Every RUNNABEL thread gets a CPU, unless it is killed first or a panic stops
\* the machine.
RunnableRuns ==
    \A t \in Threads : state[t] = "RUNNABEL" ~> state[t] \in {"RUNNING", "KILLED"} \/ panicked

\* The operations of schd.c take effect in one step each, as Sched says.
Abstract == INSTANCE Sched WITH cur <- task

ImplementsSched == Abstract!SchedSpec
=============================================================================

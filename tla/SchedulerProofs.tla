-------------------------- MODULE SchedulerProofs ---------------------------
(***************************************************************************)
(* The theorems about the scheduler of kernel/proc/thread/schd.c, for any  *)
(* number of CPUs and threads: its invariants, that it never panics as     *)
(* long as threads kill only themselves, and that it implements Sched.     *)
(*                                                                         *)
(* The argument: a CPU that has changed a thread's state and has not left  *)
(* the thread's stack, or has not reached it yet, is at the head of the    *)
(* ticket queue of scheduler.lock (LockHandedOver).  There is one head, so *)
(* no other CPU can take the thread from the runnable list before the      *)
(* switch is complete.                                                     *)
(***************************************************************************)
EXTENDS Scheduler, QueueTheorems

\* Labels at which the CPU has drawn a ticket of scheduler.lock and not
\* released it; labels at which it holds the lock for certain.
LockLabels == {"loop_spin", "to_thread", "loop_unlock", "resumed", "intr_spin", "run_spin",
               "block_spin", "kill_spin", "to_schd"}
HoldLabels == {"to_thread", "to_schd", "loop_unlock", "resumed"}
OnThread == {"resumed", "intr_end", "run", "intr_spin", "run_spin", "block_spin", "kill_spin"}

LockInv ==
    /\ NoDuplicates(lock)
    /\ \A c \in CPUs : InQueue(lock, c) <=> pc[c] \in LockLabels

\* What each label says about the CPU's task and stack.
StackInv == \A c \in CPUs :
    /\ pc[c] \in {"loop", "loop_spin", "loop_unlock"} => task[c] = NULL /\ stack[c] = NULL
    /\ pc[c] = "to_thread" => task[c] \in Threads /\ stack[c] = NULL
    /\ pc[c] \in OnThread => task[c] \in Threads /\ stack[c] = task[c]
    /\ pc[c] = "to_schd" => task[c] = NULL /\ stack[c] \in Threads

\* Only a thread that executes its own code has interrupts enabled.
NcliInv ==
    /\ \A t \in Threads : state[t] \in {"UNSCHDED", "RUNNABEL", "BLOCKED"} => ncli[t] # 0
    /\ \A c \in CPUs : pc[c] # "run" /\ task[c] \in Threads => ncli[task[c]] # 0
    /\ \A c \in CPUs : pc[c] = "run" => ncli[task[c]] \in {0, 1}
    /\ \A c \in CPUs : pc[c] \in {"run", "run_spin", "block_spin", "kill_spin"} => ~ inservice[c]

\* A thread on the wait list is BLOCKED or about to block with the spinlock
\* held.
WaitInv ==
    /\ NoDuplicates(waiters)
    /\ \A t \in Threads : InQueue(waiters, t) => state[t] = "BLOCKED" \/ guard = t
    /\ \A t \in Threads : call[t] = "block" <=> guard = t

\* A thread some other is about to make runnable is BLOCKED or new, and nobody
\* else is about to.
RunInv ==
    /\ \A t \in Threads : call[t] = "run" =>
          /\ target[t] \in Threads
          /\ state[target[t]] \in {"UNSCHDED", "BLOCKED"}
          /\ ~ InQueue(waiters, target[t])
    /\ \A t, u \in Threads : call[t] = "run" /\ call[u] = "run" /\ target[t] = target[u] => t = u

CallInv ==
    /\ \A t \in Threads : call[t] = "kill" => target[t] \in Threads
    /\ \A t \in Threads : state[t] # "SLEEPING"
    /\ \A t \in Threads : state[t] \in {"UNSCHDED", "BLOCKED"} => call[t] = "none"
    /\ \A c \in CPUs : pc[c] = "block_spin" => call[task[c]] = "block"
    /\ \A c \in CPUs : pc[c] = "run_spin" => call[task[c]] = "run"
    /\ \A c \in CPUs : pc[c] = "kill_spin" => call[task[c]] = "kill"

Locking == LockInv /\ LockHandedOver
Running == StackInv /\ StackExclusive /\ RunningExact
Interrupts == IrqAccounting /\ NcliInv
Calls == WaitInv /\ RunInv /\ CallInv

Inv == TypeOK /\ Locking /\ Running /\ RunnableExact /\ Interrupts /\ Calls

USE SchedulerAssumption, ZenonT(3), SMTT(30)

LEMMA InitInv == Init => Inv
<1> SUFFICES ASSUME Init PROVE Inv
    OBVIOUS
<1> USE DEF Init
<1>1. Len(lock) = 0 /\ Len(waiters) = 0 /\ lock \in Seq(CPUs) /\ waiters \in Seq(Threads)
    BY QueueEmpty
<1>2. TypeOK
    <2>1. state \in [Threads -> T_STATE] /\ runnable \in Seq(Threads)
        BY DEF T_STATE
    <2>2. ncli \in [Threads -> 0 .. 2] /\ irq \in [CPUs -> BOOLEAN] /\ inservice \in [CPUs -> BOOLEAN] /\ pc \in [CPUs -> SchdLabels \cup ThreadLabels]
        BY DEF SchdLabels
    <2>3. call \in [Threads -> {"none", "block", "run", "kill"}] /\ target \in [Threads -> Threads \cup {NULL}]
        OBVIOUS
    <2>4. task \in [CPUs -> Threads \cup {NULL}] /\ stack \in [CPUs -> Threads \cup {NULL}]
       OBVIOUS
    <2> QED BY Zenon, <1>1, <2>1, <2>2, <2>3, <2>4 DEF TypeOK
<1>3. Locking
    BY <1>1 DEF Locking, LockInv, LockHandedOver, LockLabels, NoDuplicates, InQueue
<1>4. Running
    BY DEF Running, StackInv, StackExclusive, RunningExact, OnThread
<1>5. RunnableExact
    BY DEF RunnableExact
<1>6. Interrupts
    BY DEF Interrupts, IrqAccounting, NcliInv
<1>7. Calls
    BY <1>1 DEF Calls, WaitInv, RunInv, CallInv, NoDuplicates, InQueue
<1> QED BY <1>2, <1>3, <1>4, <1>5, <1>6, <1>7 DEF Inv

-----------------------------------------------------------------------------
(***************************************************************************)
(* The ticket queue of scheduler.lock                                      *)
(***************************************************************************)

LEMMA DrawTicketLocking ==
    ASSUME TypeOK, Locking, NEW c \in CPUs, NEW l \in LockLabels \ HoldLabels,
           pc[c] \notin LockLabels, DrawTicket(c), Goto(c, l)
    PROVE  lock' \in Seq(CPUs) /\ Locking'
<1> USE DEF DrawTicket, Goto
<1>1. ~ InQueue(lock, c)
    BY DEF Locking, LockInv
<1>2. /\ lock' \in Seq(CPUs)
      /\ NoDuplicates(lock')
      /\ \A y : InQueue(lock', y) <=> InQueue(lock, y) \/ y = c
      /\ \A y : IsHead(lock, y) => IsHead(lock', y)
    BY <1>1, QueueAppend DEF TypeOK, Locking, LockInv
<1>3. LockInv'
    BY <1>2 DEF TypeOK, Locking, LockInv
<1>4. LockHandedOver'
    BY <1>2 DEF TypeOK, Locking, LockHandedOver, HoldLabels
<1> QED BY <1>2, <1>3, <1>4 DEF Locking

LEMMA UnlockLocking ==
    ASSUME TypeOK, Locking, NEW c \in CPUs, NEW l, l \notin LockLabels,
           Served(c), spin_unlock, Goto(c, l)
    PROVE  lock' \in Seq(CPUs) /\ Locking'
<1> USE DEF spin_unlock, Goto, Served
<1>1. /\ lock' \in Seq(CPUs)
      /\ NoDuplicates(lock')
      /\ \A y : InQueue(lock', y) <=> InQueue(lock, y) /\ y # c
    BY QueueTail DEF TypeOK, Locking, LockInv, IsHead
<1>2. LockInv'
    BY <1>1 DEF TypeOK, Locking, LockInv
<1>3. LockHandedOver'
    BY DEF TypeOK, Locking, LockHandedOver, LockLabels, IsHead
<1> QED BY <1>1, <1>2, <1>3 DEF Locking

LEMMA KeepLocking ==
    ASSUME TypeOK, Locking, NEW c \in CPUs, NEW l \in LockLabels,
           Served(c), pc[c] \in LockLabels, lock' = lock, Goto(c, l)
    PROVE  Locking'
BY DEF TypeOK, Locking, LockInv, LockHandedOver, Goto, Served

\* set_runnable of a thread that is not RUNNABEL
LEMMA SetRunnable ==
    ASSUME TypeOK, RunnableExact, NEW t \in Threads, state[t] # "RUNNABEL", set_runnable(t)
    PROVE  runnable' \in Seq(Threads) /\ state' \in [Threads -> T_STATE] /\ RunnableExact'
<1> USE DEF set_runnable, RunnableExact
<1>1. ~ InQueue(runnable, t)
    OBVIOUS
<1>2. /\ runnable' \in Seq(Threads)
      /\ NoDuplicates(runnable')
      /\ \A y : InQueue(runnable', y) <=> InQueue(runnable, y) \/ y = t
    BY <1>1, QueueAppend DEF TypeOK
<1> QED BY <1>2 DEF TypeOK, T_STATE

\* intr_irq_restore by the thread on CPU c, which then executes its own code
LEMMA RestoreInterrupts ==
    ASSUME Inv, NEW c \in CPUs, task[c] \in Threads, ncli[task[c]] \in {1, 2},
           intr_irq_restore(c), Goto(c, "run"), task' = task,
           inservice' \in [CPUs -> BOOLEAN], ~ inservice'[c],
           \A d \in CPUs : d # c => inservice'[d] = inservice[d],
           state'[task[c]] = "RUNNING",
           \A t \in Threads : state'[t] \in {"UNSCHDED", "RUNNABEL", "BLOCKED"} =>
                                state[t] \in {"UNSCHDED", "RUNNABEL", "BLOCKED"}
    PROVE  Interrupts' /\ ncli' \in [Threads -> 0 .. 2] /\ irq' \in [CPUs -> BOOLEAN]
<1> USE DEF Inv, TypeOK, intr_irq_restore, Goto
<1>1. ncli'[task[c]] = ncli[task[c]] - 1 /\ ncli' \in [Threads -> 0 .. 2]
    OBVIOUS
<1>2. irq'[c] <=> ncli'[task[c]] = 0
    <2>1. irq'[c] = (ncli[task[c]] = 1)
        OBVIOUS
    <2>2. ncli[task[c]] = 1 <=> ncli'[task[c]] = 0
        BY <1>1
    <2> QED BY <2>1, <2>2, Zenon
<1>3. irq' \in [CPUs -> BOOLEAN]
    OBVIOUS
<1>4. \A d \in CPUs : task[d] = task[c] => d = c
    BY DEF Running, RunningExact
<1>5. IrqAccounting'
    <2> SUFFICES ASSUME NEW d \in CPUs
                 PROVE  /\ pc'[d] = "run" => (irq'[d] <=> ncli'[task[d]] = 0)
                        /\ pc'[d] # "run" => ~ irq'[d]
                        /\ irq'[d] => ~ inservice'[d]
        BY DEF IrqAccounting
    <2>1. CASE d = c
        <3>1. pc'[c] = "run"
            OBVIOUS
        <3> QED BY <2>1, <3>1, <1>2, Zenon
    <2>2. CASE d # c
        <3>1. irq'[d] = irq[d] /\ inservice'[d] = inservice[d] /\ pc'[d] = pc[d]
            BY <2>2
        <3>2. pc[d] = "run" => ncli'[task[d]] = ncli[task[d]]
            BY <2>2, <1>4 DEF Running, StackInv, OnThread
        <3>3. /\ pc[d] = "run" => (irq[d] <=> ncli[task[d]] = 0)
              /\ pc[d] # "run" => ~ irq[d]
              /\ irq[d] => ~ inservice[d]
            BY DEF Interrupts, IrqAccounting
        <3> QED BY <3>1, <3>2, <3>3
    <2> QED BY <2>1, <2>2
<1>6. NcliInv'
    <2>1. \A t \in Threads : state'[t] \in {"UNSCHDED", "RUNNABEL", "BLOCKED"} => ncli'[t] # 0
        BY <1>1 DEF Interrupts, NcliInv
    <2>2. \A d \in CPUs : pc'[d] # "run" /\ task'[d] \in Threads => ncli'[task'[d]] # 0
        BY <1>1, <1>4 DEF Interrupts, NcliInv
    <2>3. \A d \in CPUs : pc'[d] = "run" => ncli'[task'[d]] \in {0, 1}
        BY <1>1, <1>4 DEF Interrupts, NcliInv, Running, StackInv, OnThread
    <2>4. \A d \in CPUs : pc'[d] \in {"run", "run_spin", "block_spin", "kill_spin"} => ~ inservice'[d]
        BY DEF Interrupts, NcliInv
    <2> QED BY <2>1, <2>2, <2>3, <2>4 DEF NcliInv
<1> QED BY <1>1, <1>3, <1>5, <1>6 DEF Interrupts

\* intr_irq_save by the thread on CPU c, which executed its own code
LEMMA SaveInterrupts ==
    ASSUME Inv, NEW c \in CPUs, NEW l, pc[c] = "run", intr_irq_save(c), pc' = [pc EXCEPT ![c] = l],
           task' = task, state' = state,
           inservice' \in [CPUs -> BOOLEAN],
           \A d \in CPUs : d # c => inservice'[d] = inservice[d],
           l \in {"run", "run_spin", "block_spin", "kill_spin"} => ~ inservice'[c],
           l = "run" => ncli[task[c]] = 0
    PROVE  Interrupts' /\ ncli' \in [Threads -> 0 .. 2] /\ irq' \in [CPUs -> BOOLEAN]
<1> USE DEF Inv, TypeOK, intr_irq_save
<1>1. task[c] \in Threads /\ ncli[task[c]] \in {0, 1}
    BY DEF Running, StackInv, OnThread, Interrupts, NcliInv
<1>2. ncli'[task[c]] = ncli[task[c]] + 1 /\ ncli' \in [Threads -> 0 .. 2]
    BY <1>1
<1>3. irq' \in [CPUs -> BOOLEAN] /\ irq'[c] = FALSE
    OBVIOUS
<1>4. \A d \in CPUs : task[d] = task[c] => d = c
    BY <1>1 DEF Running, RunningExact
<1>5. IrqAccounting'
    <2> SUFFICES ASSUME NEW d \in CPUs
                 PROVE  /\ pc'[d] = "run" => (irq'[d] <=> ncli'[task[d]] = 0)
                        /\ pc'[d] # "run" => ~ irq'[d]
                        /\ irq'[d] => ~ inservice'[d]
        BY DEF IrqAccounting
    <2>1. CASE d = c
        BY <2>1, <1>1, <1>2, <1>3
    <2>2. CASE d # c
        <3>1. irq'[d] = irq[d] /\ inservice'[d] = inservice[d] /\ pc'[d] = pc[d]
            BY <2>2
        <3>2. pc[d] = "run" => ncli'[task[d]] = ncli[task[d]]
            BY <2>2, <1>4 DEF Running, StackInv, OnThread
        <3>3. /\ pc[d] = "run" => (irq[d] <=> ncli[task[d]] = 0)
              /\ pc[d] # "run" => ~ irq[d]
              /\ irq[d] => ~ inservice[d]
            BY DEF Interrupts, IrqAccounting
        <3> QED BY Zenon, <3>1, <3>2, <3>3
    <2> QED BY <2>1, <2>2
<1>6. NcliInv'
    BY <1>1, <1>2, <1>4 DEF Interrupts, NcliInv, Running, StackInv, OnThread
<1> QED BY <1>2, <1>3, <1>5, <1>6 DEF Interrupts

-----------------------------------------------------------------------------
(***************************************************************************)
(* Every action keeps the invariant                                        *)
(***************************************************************************)

LEMMA schd_schdule_lockInv ==
    ASSUME Inv, NEW c \in CPUs, schd_schdule_lock(c) PROVE Inv'
<1> USE DEF Inv, schd_schdule_lock, schdVars, irqVars, userVars
<1>1. lock' \in Seq(CPUs) /\ Locking'
    BY DrawTicketLocking DEF LockLabels, HoldLabels
<1> USE DEF Goto
<1>2. TypeOK'
    BY <1>1 DEF TypeOK, SchdLabels
<1>3. Running'
    BY DEF TypeOK, Running, StackInv, StackExclusive, RunningExact, OnThread
<1>4. RunnableExact'
    BY DEF RunnableExact
<1>5. Interrupts'
    BY DEF TypeOK, Interrupts, IrqAccounting, NcliInv
<1>6. Calls'
    BY DEF TypeOK, Calls, WaitInv, RunInv, CallInv
<1> QED BY <1>1, <1>2, <1>3, <1>4, <1>5, <1>6

LEMMA schd_schduleInv ==
    ASSUME Inv, NEW c \in CPUs, schd_schdule(c) PROVE Inv'
<1> USE DEF Inv
<1>1. CASE runnable = <<>>
    <2> USE <1>1 DEF schd_schdule, schdVars, irqVars, userVars
    <2>1. Locking'
        BY KeepLocking DEF LockLabels
    <2> USE DEF Goto
    <2>2. TypeOK'
        BY DEF TypeOK, SchdLabels
    <2>3. Running'
        BY DEF TypeOK, Running, StackInv, StackExclusive, RunningExact, OnThread
    <2>4. RunnableExact'
        BY DEF RunnableExact
    <2>5. Interrupts'
        BY DEF TypeOK, Interrupts, IrqAccounting, NcliInv
    <2>6. Calls'
        BY DEF TypeOK, Calls, WaitInv, RunInv, CallInv
    <2> QED BY <2>1, <2>2, <2>3, <2>4, <2>5, <2>6
<1>2. CASE runnable # <<>>
    <2> DEFINE t == runnable[1]
    <2>1. Locking'
        BY <1>2, KeepLocking DEF schd_schdule, LockLabels
    <2>2. /\ pc[c] = "loop_spin"
          /\ runnable' = Tail(runnable)
          /\ state' = [state EXCEPT ![Head(runnable)] = "RUNNING"]
          /\ task' = [task EXCEPT ![c] = Head(runnable)]
          /\ pc' = [pc EXCEPT ![c] = "to_thread"]
          /\ UNCHANGED <<lock, stack, ncli, irq, inservice, call, target, guard, waiters, panicked>>
        BY <1>2 DEF schd_schdule, schdVars, irqVars, userVars, Goto
    <2>3. /\ runnable' \in Seq(Threads)
          /\ NoDuplicates(runnable')
          /\ t \in Threads /\ Head(runnable) = t
          /\ \A y : InQueue(runnable', y) <=> InQueue(runnable, y) /\ y # t
        BY <1>2, <2>2, QueueTail DEF TypeOK, RunnableExact
    <2>4. InQueue(runnable, t)
        BY <1>2, QueueEmpty DEF InQueue, TypeOK
    <2>5. state[t] = "RUNNABEL"
        BY <2>3, <2>4 DEF RunnableExact
    <2> HIDE DEF t
    <2>6. TypeOK'
        BY <2>2, <2>3, <2>5 DEF TypeOK, SchdLabels, T_STATE
    <2>7. Running'
        <3>1. StackInv' /\ StackExclusive'
            BY <2>2, <2>3 DEF TypeOK, Running, StackInv, StackExclusive, OnThread
        <3>2. RunningExact'
            BY <2>2, <2>3, <2>5 DEF TypeOK, Running, StackInv, RunningExact
        <3> QED BY <3>1, <3>2 DEF Running
    <2>8. RunnableExact'
        BY <2>2, <2>3, <2>5 DEF RunnableExact, TypeOK
    <2>9. Interrupts'
        BY <2>2, <2>3, <2>5 DEF TypeOK, Interrupts, IrqAccounting, NcliInv
    <2>10. Calls'
        BY <2>2, <2>3, <2>5 DEF TypeOK, Calls, WaitInv, RunInv, CallInv
    <2> QED BY <2>1, <2>6, <2>7, <2>8, <2>9, <2>10
<1> QED BY <1>1, <1>2

LEMMA switch_to_threadInv ==
    ASSUME Inv, NEW c \in CPUs, switch_to_thread(c) PROVE Inv'
<1> USE DEF Inv
<1>1. Locking'
    BY KeepLocking DEF switch_to_thread, LockLabels, Locking, LockHandedOver, Served
<1> USE DEF switch_to_thread, schdVars, irqVars, userVars, Goto
<1>2. TypeOK'
    BY DEF TypeOK, ThreadLabels
<1>3. Running'
    <2>1. task[c] \in Threads /\ Served(c)
        BY DEF Running, StackInv, Locking, LockHandedOver, Served
    <2>2. ASSUME NEW d \in CPUs, stack[d] = task[c] PROVE FALSE
        <3>1. CASE pc[d] = "to_schd"
            BY <2>1, <3>1 DEF Locking, LockHandedOver, Served, IsHead
        <3>2. CASE pc[d] # "to_schd"
            BY <2>1, <2>2, <3>2 DEF TypeOK, Running, StackInv, RunningExact, OnThread, SchdLabels, ThreadLabels
        <3> QED BY <3>1, <3>2
    <2>3. StackInv'
        BY <2>1 DEF TypeOK, Running, StackInv, OnThread
    <2>4. StackExclusive'
        BY <2>1, <2>2 DEF TypeOK, Running, StackExclusive
    <2>5. RunningExact'
        BY DEF Running, RunningExact
    <2> QED BY <2>3, <2>4, <2>5 DEF Running
<1>4. RunnableExact'
    BY DEF RunnableExact
<1>5. Interrupts'
    BY DEF TypeOK, Interrupts, IrqAccounting, NcliInv
<1>6. Calls'
    BY DEF TypeOK, Calls, WaitInv, RunInv, CallInv
<1> QED BY <1>1, <1>2, <1>3, <1>4, <1>5, <1>6

LEMMA schd_schdule_unlockInv ==
    ASSUME Inv, NEW c \in CPUs, schd_schdule_unlock(c) PROVE Inv'
<1> USE DEF Inv
<1>1. lock' \in Seq(CPUs) /\ Locking'
    BY UnlockLocking DEF schd_schdule_unlock, LockLabels, Locking, LockHandedOver, Served
<1> USE DEF schd_schdule_unlock, schdVars, irqVars, userVars, Goto
<1>2. TypeOK'
    BY <1>1 DEF TypeOK, SchdLabels
<1>3. Running'
    BY DEF TypeOK, Running, StackInv, StackExclusive, RunningExact, OnThread
<1>4. RunnableExact'
    BY DEF RunnableExact
<1>5. Interrupts'
    BY DEF TypeOK, Interrupts, IrqAccounting, NcliInv
<1>6. Calls'
    BY DEF TypeOK, Calls, WaitInv, RunInv, CallInv
<1> QED BY <1>1, <1>2, <1>3, <1>4, <1>5, <1>6

LEMMA resume_unlockInv ==
    ASSUME Inv, NEW c \in CPUs, resume_unlock(c) PROVE Inv'
<1> USE DEF Inv
<1>1. lock' \in Seq(CPUs) /\ Locking'
    BY UnlockLocking DEF resume_unlock, LockLabels, Locking, LockHandedOver, Served
<1> USE DEF resume_unlock, schdVars, irqVars, userVars, Goto
<1>2. TypeOK'
    BY <1>1 DEF TypeOK, ThreadLabels
<1>3. Running'
    BY DEF TypeOK, Running, StackInv, StackExclusive, RunningExact, OnThread
<1>4. RunnableExact'
    BY DEF RunnableExact
<1>5. Interrupts'
    BY DEF TypeOK, Interrupts, IrqAccounting, NcliInv
<1>6. Calls'
    BY DEF TypeOK, Calls, WaitInv, RunInv, CallInv
<1> QED BY <1>1, <1>2, <1>3, <1>4, <1>5, <1>6

LEMMA intr_endInv ==
    ASSUME Inv, NEW c \in CPUs, intr_end(c) PROVE Inv'
<1> USE DEF Inv
<1>1. task[c] \in Threads /\ ncli[task[c]] \in {1, 2} /\ state[task[c]] = "RUNNING"
    BY DEF intr_end, TypeOK, Running, StackInv, RunningExact, OnThread, Interrupts, NcliInv
<1>2. Interrupts' /\ ncli' \in [Threads -> 0 .. 2] /\ irq' \in [CPUs -> BOOLEAN]
    BY Zenon, <1>1, RestoreInterrupts DEF intr_end, schdVars, TypeOK
<1> USE DEF intr_end, schdVars, userVars, Goto
<1>3. Locking'
    BY DEF TypeOK, Locking, LockInv, LockHandedOver, LockLabels
<1>4. TypeOK'
    BY Zenon, <1>2 DEF TypeOK, ThreadLabels
<1>5. Running'
    BY DEF TypeOK, Running, StackInv, StackExclusive, RunningExact, OnThread
<1>6. RunnableExact'
    BY DEF RunnableExact
<1>7. Calls'
    BY DEF TypeOK, Calls, WaitInv, RunInv, CallInv
<1> QED BY <1>2, <1>3, <1>4, <1>5, <1>6, <1>7

-----------------------------------------------------------------------------
(***************************************************************************)
(* The steps in which a thread gives its CPU up, and schd_run and          *)
(* schd_kill                                                               *)
(***************************************************************************)

\* A failed assertion or a panic changes nothing else.
LEMMA PanicInv ==
    ASSUME Inv, Panic PROVE Inv'
BY DEF Inv, Panic, schdVars, irqVars, userVars, TypeOK, Locking, LockInv, LockHandedOver, Running,
       StackInv, StackExclusive, RunningExact, RunnableExact, Interrupts, IrqAccounting, NcliInv,
       Calls, WaitInv, RunInv, CallInv

LEMMA schd_intrInv ==
    ASSUME Inv, NEW c \in CPUs, schd_intr(c) PROVE Inv'
<1> USE DEF Inv
<1>1. lock' \in Seq(CPUs) /\ Locking'
    BY DrawTicketLocking DEF schd_intr, LockLabels, HoldLabels
<1>2. Interrupts' /\ ncli' \in [Threads -> 0 .. 2] /\ irq' \in [CPUs -> BOOLEAN]
    <2>1. inservice' \in [CPUs -> BOOLEAN] /\ \A d \in CPUs : d # c => inservice'[d] = inservice[d]
        BY DEF schd_intr, TypeOK
    <2> QED BY Zenon, <2>1, SaveInterrupts DEF schd_intr, schdVars, Goto
<1> USE DEF schd_intr, schdVars, userVars, Goto
<1>3. TypeOK'
    BY Zenon, <1>1, <1>2 DEF TypeOK, ThreadLabels
<1>4. Running'
    BY DEF TypeOK, Running, StackInv, StackExclusive, RunningExact, OnThread
<1>5. RunnableExact'
    BY DEF RunnableExact
<1>6. Calls'
    BY DEF TypeOK, Calls, WaitInv, RunInv, CallInv
<1> QED BY <1>1, <1>2, <1>3, <1>4, <1>5, <1>6

LEMMA schd_intr_mid_funcInv ==
    ASSUME Inv, NEW c \in CPUs, schd_intr_mid_func(c) PROVE Inv'
<1> USE DEF Inv
<1>1. CASE Panic
    BY <1>1, PanicInv
<1>2. CASE ~ Panic
    <2> DEFINE t == task[c]
    <2>1. /\ pc[c] = "intr_spin" /\ Served(c) /\ state[t] = "RUNNING" /\ set_runnable(t)
          /\ task' = [task EXCEPT ![c] = NULL] /\ Goto(c, "to_schd")
          /\ UNCHANGED <<lock, stack, ncli, irq, inservice, call, target, guard, waiters, panicked>>
        BY <1>2 DEF schd_intr_mid_func, irqVars, userVars
    <2>2. t \in Threads /\ stack[c] = t /\ ncli[t] # 0
        BY <2>1 DEF Running, StackInv, OnThread, Interrupts, NcliInv
    <2>3. \A d \in CPUs : task[d] = t => d = c
        BY <2>2 DEF Running, RunningExact
    <2>4. Locking'
        BY <2>1, KeepLocking DEF LockLabels
    <2>5. runnable' \in Seq(Threads) /\ state' \in [Threads -> T_STATE] /\ RunnableExact'
        BY <2>1, <2>2, SetRunnable
    <2>6. state' = [state EXCEPT ![t] = "RUNNABEL"] /\ pc' = [pc EXCEPT ![c] = "to_schd"]
        BY <2>1 DEF set_runnable, Goto
    <2> HIDE DEF t
    <2>7. TypeOK'
        BY <2>1, <2>5, <2>6 DEF TypeOK, ThreadLabels
    <2>8. Running'
        <3>1. StackInv' /\ StackExclusive'
            BY <2>1, <2>2, <2>6 DEF TypeOK, Running, StackInv, StackExclusive, OnThread
        <3>2. RunningExact'
            BY <2>1, <2>2, <2>3, <2>6 DEF TypeOK, Running, RunningExact, t
        <3> QED BY <3>1, <3>2 DEF Running
    <2>9. Interrupts'
        BY <2>1, <2>2, <2>6 DEF TypeOK, Interrupts, IrqAccounting, NcliInv
    <2>10. Calls'
        BY <2>1, <2>2, <2>6 DEF TypeOK, Calls, WaitInv, RunInv, CallInv
    <2> QED BY <2>4, <2>5, <2>7, <2>8, <2>9, <2>10
<1> QED BY <1>1, <1>2

LEMMA schd_block_lockInv ==
    ASSUME Inv, NEW c \in CPUs, schd_block_lock(c) PROVE Inv'
<1> USE DEF Inv
<1>1. CASE Panic
    BY <1>1, PanicInv
<1>2. CASE ~ Panic
    <2>0. /\ pc[c] = "run" /\ call[task[c]] = "block" /\ intr_irq_save(c) /\ DrawTicket(c)
          /\ Goto(c, "block_spin")
          /\ UNCHANGED <<state, runnable, task, stack, inservice, call, target, guard, waiters, panicked>>
        BY <1>2 DEF schd_block_lock, schdVars, userVars
    <2>1. lock' \in Seq(CPUs) /\ Locking'
        BY <2>0, DrawTicketLocking DEF LockLabels, HoldLabels
    <2>2. Interrupts' /\ ncli' \in [Threads -> 0 .. 2] /\ irq' \in [CPUs -> BOOLEAN]
        <3>1. ~ inservice[c]
            BY <2>0 DEF Interrupts, NcliInv
        <3> QED BY Zenon, <2>0, <3>1, SaveInterrupts DEF Goto, TypeOK
    <2> USE <2>0 DEF Goto
    <2>3. TypeOK'
        BY Zenon, <2>1, <2>2 DEF TypeOK, ThreadLabels
    <2>4. Running'
        BY DEF TypeOK, Running, StackInv, StackExclusive, RunningExact, OnThread
    <2>5. RunnableExact'
        BY DEF RunnableExact
    <2>6. Calls'
        BY DEF TypeOK, Calls, WaitInv, RunInv, CallInv
    <2> QED BY <2>1, <2>2, <2>3, <2>4, <2>5, <2>6
<1> QED BY <1>1, <1>2

LEMMA schd_blockInv ==
    ASSUME Inv, NEW c \in CPUs, schd_block(c) PROVE Inv'
<1> DEFINE t == task[c]
<1> USE DEF Inv
<1>1. /\ pc[c] = "block_spin" /\ Served(c)
      /\ state' = [state EXCEPT ![t] = "BLOCKED"]
      /\ guard' = NULL
      /\ call' = [call EXCEPT ![t] = "none"]
      /\ task' = [task EXCEPT ![c] = NULL]
      /\ pc' = [pc EXCEPT ![c] = "to_schd"]
      /\ UNCHANGED <<runnable, lock, stack, ncli, irq, inservice, target, waiters, panicked>>
    BY DEF schd_block, irqVars, Goto
<1>2. t \in Threads /\ stack[c] = t /\ ncli[t] # 0 /\ call[t] = "block" /\ guard = t
    BY <1>1 DEF Running, StackInv, OnThread, Interrupts, NcliInv, Calls, CallInv, WaitInv
<1>3. state[t] = "RUNNING" /\ \A d \in CPUs : task[d] = t => d = c
    BY <1>2 DEF Running, RunningExact
<1>4. Locking'
    BY Zenon, <1>1, KeepLocking DEF LockLabels, Goto
<1>5. TypeOK'
    BY <1>1, <1>2 DEF TypeOK, T_STATE, ThreadLabels
<1>6. Running'
    <2> HIDE DEF t
    <2>1. StackInv' /\ StackExclusive'
        BY <1>1, <1>2 DEF TypeOK, Running, StackInv, StackExclusive, OnThread
    <2>2. RunningExact'
        BY <1>1, <1>2, <1>3 DEF TypeOK, Running, RunningExact, t
    <2> QED BY <2>1, <2>2 DEF Running
<1> HIDE DEF t
<1>7. RunnableExact'
    BY <1>1, <1>2, <1>3 DEF TypeOK, RunnableExact
<1>8. Interrupts'
    BY <1>1, <1>2 DEF TypeOK, Interrupts, IrqAccounting, NcliInv
<1>9. Calls'
    <2>1. WaitInv'
        BY <1>1, <1>2, <1>3 DEF TypeOK, Calls, WaitInv
    <2>2. RunInv'
        BY <1>1, <1>2, <1>3 DEF TypeOK, Calls, RunInv
    <2>3. CallInv'
        BY <1>1, <1>2, <1>3 DEF TypeOK, Calls, CallInv, t, Running, StackInv, OnThread
    <2> QED BY <2>1, <2>2, <2>3 DEF Calls
<1> QED BY <1>4, <1>5, <1>6, <1>7, <1>8, <1>9

LEMMA switch_to_schdInv ==
    ASSUME Inv, NEW c \in CPUs, switch_to_schd(c) PROVE Inv'
<1> USE DEF Inv
<1>1. Locking'
    BY KeepLocking DEF switch_to_schd, LockLabels, Locking, LockHandedOver, Served
<1> USE DEF switch_to_schd, schdVars, irqVars, userVars, Goto
<1>2. TypeOK'
    BY DEF TypeOK, SchdLabels
<1>3. Running'
    BY DEF TypeOK, Running, StackInv, StackExclusive, RunningExact, OnThread
<1>4. RunnableExact'
    BY DEF RunnableExact
<1>5. Interrupts'
    BY DEF TypeOK, Interrupts, IrqAccounting, NcliInv
<1>6. Calls'
    BY DEF TypeOK, Calls, WaitInv, RunInv, CallInv
<1> QED BY <1>1, <1>2, <1>3, <1>4, <1>5, <1>6

LEMMA schd_call_lockInv ==
    ASSUME Inv, NEW c \in CPUs, schd_call_lock(c) PROVE Inv'
<1> DEFINE l == IF call[task[c]] = "run" THEN "run_spin" ELSE "kill_spin"
<1> USE DEF Inv
<1>1. lock' \in Seq(CPUs) /\ Locking'
    BY DrawTicketLocking DEF schd_call_lock, LockLabels, HoldLabels
<1>2. Interrupts' /\ ncli' \in [Threads -> 0 .. 2] /\ irq' \in [CPUs -> BOOLEAN]
    <2>1. pc[c] = "run" /\ intr_irq_save(c) /\ pc' = [pc EXCEPT ![c] = l]
          /\ UNCHANGED <<state, task, inservice>>
        BY DEF schd_call_lock, schdVars, Goto
    <2>2. ~ inservice[c]
        BY <2>1 DEF Interrupts, NcliInv
    <2>3. l # "run"
        OBVIOUS
    <2> HIDE DEF l
    <2> QED BY Zenon, <2>1, <2>2, <2>3, SaveInterrupts DEF TypeOK
<1> USE DEF schd_call_lock, schdVars, userVars, Goto
<1>3. TypeOK'
    BY Zenon, <1>1, <1>2 DEF TypeOK, ThreadLabels
<1>4. Running'
    BY DEF TypeOK, Running, StackInv, StackExclusive, RunningExact, OnThread
<1>5. RunnableExact'
    BY DEF RunnableExact
<1>6. Calls'
    BY DEF TypeOK, Calls, WaitInv, RunInv, CallInv
<1> QED BY <1>1, <1>2, <1>3, <1>4, <1>5, <1>6

LEMMA schd_runInv ==
    ASSUME Inv, NEW c \in CPUs, schd_run(c) PROVE Inv'
<1> DEFINE me == task[c]
           t == target[me]
<1> USE DEF Inv
<1>1. CASE Panic
    BY <1>1, PanicInv
<1>2. CASE ~ Panic
    <2>1. /\ pc[c] = "run_spin" /\ Served(c) /\ state[t] \in {"UNSCHDED", "BLOCKED"}
          /\ set_runnable(t) /\ spin_unlock /\ intr_irq_restore(c) /\ Goto(c, "run")
          /\ call' = [call EXCEPT ![me] = "none"]
          /\ UNCHANGED <<task, stack, inservice, target, guard, waiters, panicked>>
        BY <1>2 DEF schd_run, Return
    <2>2. me \in Threads /\ stack[c] = me /\ call[me] = "run" /\ t \in Threads /\ state[me] = "RUNNING"
          /\ ncli[me] \in {1, 2} /\ ~ inservice[c]
        BY <2>1 DEF TypeOK, Running, StackInv, OnThread, RunningExact, Calls, CallInv, RunInv, Interrupts, NcliInv
    <2>3. t # me
        BY <2>1, <2>2
    <2>4. lock' \in Seq(CPUs) /\ Locking'
        BY <2>1, UnlockLocking DEF LockLabels
    <2>5. runnable' \in Seq(Threads) /\ state' \in [Threads -> T_STATE] /\ RunnableExact'
        BY <2>1, <2>2, SetRunnable
    <2>6. state' = [state EXCEPT ![t] = "RUNNABEL"] /\ pc' = [pc EXCEPT ![c] = "run"]
        BY <2>1 DEF set_runnable, Goto
    <2> HIDE DEF t
    <2>7. Interrupts' /\ ncli' \in [Threads -> 0 .. 2] /\ irq' \in [CPUs -> BOOLEAN]
        <3>1. state'[me] = "RUNNING"
            BY <2>2, <2>3, <2>6 DEF TypeOK
        <3>2. \A u \in Threads : state'[u] \in {"UNSCHDED", "RUNNABEL", "BLOCKED"} =>
                                   state[u] \in {"UNSCHDED", "RUNNABEL", "BLOCKED"}
            BY <2>1, <2>6 DEF TypeOK
        <3> QED BY Zenon, <2>1, <2>2, <3>1, <3>2, RestoreInterrupts DEF TypeOK
    <2>8. TypeOK'
        BY Zenon, <2>1, <2>2, <2>4, <2>5, <2>6, <2>7 DEF TypeOK, ThreadLabels
    <2>9. Running'
        BY <2>1, <2>2, <2>6 DEF TypeOK, Running, StackInv, StackExclusive, RunningExact, OnThread
    <2>10. Calls'
        <3>1. WaitInv'
            BY <2>1, <2>2, <2>6 DEF TypeOK, Calls, WaitInv, RunInv, t
        <3>2. RunInv'
            BY <2>1, <2>2, <2>6 DEF TypeOK, Calls, RunInv, t
        <3>3. CallInv'
            BY <2>1, <2>2, <2>3, <2>6 DEF TypeOK, Calls, CallInv, Running, RunningExact
        <3> QED BY <3>1, <3>2, <3>3 DEF Calls
    <2> QED BY <2>4, <2>5, <2>7, <2>8, <2>9, <2>10
<1> QED BY <1>1, <1>2

LEMMA schd_killInv ==
    ASSUME Inv, NEW c \in CPUs, schd_kill(c) PROVE Inv'
<1> DEFINE me == task[c]
           t == target[me]
<1> USE DEF Inv
<1>1. CASE Panic
    BY <1>1, PanicInv
<1>2. CASE ~ Panic
    <2>1. pc[c] = "kill_spin" /\ Served(c) /\ me \in Threads /\ stack[c] = me /\ call[me] = "kill"
          /\ t \in Threads /\ state[me] = "RUNNING" /\ ncli[me] \in {1, 2} /\ ~ inservice[c]
        BY DEF schd_kill, TypeOK, Running, StackInv, OnThread, RunningExact, Calls, CallInv, Interrupts, NcliInv
    <2>2. CASE state[t] = "RUNNABEL"
        <3>1. /\ state' = [state EXCEPT ![t] = "KILLED"]
              /\ runnable' = list_delete(runnable, t)
              /\ spin_unlock /\ intr_irq_restore(c) /\ Goto(c, "run")
              /\ call' = [call EXCEPT ![me] = "none"]
              /\ UNCHANGED <<task, stack, inservice, target, guard, waiters, panicked>>
            BY <1>2, <2>2 DEF schd_kill, Return
        <3>2. t # me
            BY <2>1, <2>2
        <3>3. lock' \in Seq(CPUs) /\ Locking'
            BY <2>1, <3>1, UnlockLocking DEF LockLabels
        <3> HIDE DEF t
        <3>4. runnable' \in Seq(Threads) /\ NoDuplicates(runnable')
              /\ \A y : InQueue(runnable', y) <=> InQueue(runnable, y) /\ y # t
            BY <2>1, <2>2, <3>1, QueueDelete DEF TypeOK, RunnableExact
        <3>5. RunnableExact'
            BY <2>1, <3>1, <3>4 DEF TypeOK, RunnableExact
        <3>6. Interrupts' /\ ncli' \in [Threads -> 0 .. 2] /\ irq' \in [CPUs -> BOOLEAN]
            <4>1. state'[me] = "RUNNING"
                BY <2>1, <3>1, <3>2 DEF TypeOK
            <4>2. \A u \in Threads : state'[u] \in {"UNSCHDED", "RUNNABEL", "BLOCKED"} =>
                                       state[u] \in {"UNSCHDED", "RUNNABEL", "BLOCKED"}
                BY <3>1 DEF TypeOK
            <4> QED BY Zenon, <2>1, <3>1, <4>1, <4>2, RestoreInterrupts DEF TypeOK
        <3> USE DEF Goto
        <3>7. TypeOK'
            BY Zenon, <2>1, <3>1, <3>3, <3>4, <3>6 DEF TypeOK, ThreadLabels, T_STATE
        <3>8. Running'
            BY <2>1, <2>2, <3>1 DEF TypeOK, Running, StackInv, StackExclusive, RunningExact, OnThread
        <3>9. Calls'
            <4>1. WaitInv'
                BY <2>1, <2>2, <3>1 DEF TypeOK, Calls, WaitInv
            <4>2. RunInv'
                BY <2>1, <2>2, <3>1 DEF TypeOK, Calls, RunInv
            <4>3. CallInv'
                BY <2>1, <2>2, <3>1 DEF TypeOK, Calls, CallInv, Running, RunningExact
            <4> QED BY <4>1, <4>2, <4>3 DEF Calls
        <3> QED BY <3>3, <3>5, <3>6, <3>7, <3>8, <3>9
    <2>3. CASE state[t] # "RUNNABEL"
        <3>1. /\ t = me
              /\ state' = [state EXCEPT ![me] = "KILLED"]
              /\ task' = [task EXCEPT ![c] = NULL]
              /\ pc' = [pc EXCEPT ![c] = "to_schd"]
              /\ UNCHANGED <<runnable, lock, stack, ncli, irq, inservice, call, target, guard, waiters, panicked>>
            BY <1>2, <2>1, <2>3 DEF schd_kill, irqVars, userVars, Goto, Calls, CallInv
        <3>2. \A d \in CPUs : task[d] = me => d = c
            BY <2>1 DEF Running, RunningExact
        <3>3. Locking'
            BY Zenon, <2>1, <3>1, KeepLocking DEF LockLabels, Goto
        <3> HIDE DEF me
        <3>4. TypeOK'
            BY <2>1, <3>1 DEF TypeOK, T_STATE, ThreadLabels
        <3>5. StackInv' /\ StackExclusive'
            BY <2>1, <3>1 DEF TypeOK, Running, StackInv, StackExclusive, OnThread
        <3>6. RunningExact'
            BY <2>1, <3>1, <3>2 DEF TypeOK, Running, RunningExact, me
        <3>7. RunnableExact'
            BY <2>1, <3>1 DEF TypeOK, RunnableExact
        <3>8. Interrupts'
            BY <2>1, <3>1 DEF TypeOK, Interrupts, IrqAccounting, NcliInv
        <3>9. Calls'
            <4>1. WaitInv'
                BY <2>1, <3>1 DEF TypeOK, Calls, WaitInv
            <4>2. RunInv'
                BY <2>1, <3>1 DEF TypeOK, Calls, RunInv
            <4>3. CallInv'
                BY <2>1, <3>1 DEF TypeOK, Calls, CallInv
            <4> QED BY <4>1, <4>2, <4>3 DEF Calls
        <3> QED BY <3>3, <3>4, <3>5, <3>6, <3>7, <3>8, <3>9 DEF Running
    <2> QED BY <2>2, <2>3
<1> QED BY <1>1, <1>2

-----------------------------------------------------------------------------
(***************************************************************************)
(* The threads                                                             *)
(***************************************************************************)

\* Committing to a call touches neither the scheduler nor the interrupts.
LEMMA CommitInv ==
    ASSUME Inv, NEW t \in Threads, NEW what \in {"block", "run", "kill"}, NEW about \in Threads,
           Commit(t, what, about), guard' \in Threads \cup {NULL}, waiters' \in Seq(Threads),
           Calls'
    PROVE  Inv'
<1> USE DEF Inv, Commit, schdVars, irqVars
<1>1. TypeOK'
    BY DEF TypeOK
<1>2. Locking' /\ Running' /\ RunnableExact' /\ Interrupts'
    BY DEF Locking, LockInv, LockHandedOver, Running, StackInv, StackExclusive, RunningExact,
           RunnableExact, Interrupts, IrqAccounting, NcliInv
<1> QED BY <1>1, <1>2

LEMMA WaitStepInv ==
    ASSUME Inv, NEW c \in CPUs, Wait(c) PROVE Inv'
<1> USE DEF Inv
<1>1. PICK t \in Threads : /\ Free(c, t) /\ guard = NULL /\ guard' = t
                           /\ waiters' = Append(waiters, t) /\ Commit(t, "block", t)
    BY DEF Wait
<1>2. state[t] = "RUNNING" /\ call[t] = "none"
    BY <1>1 DEF Free, Running, RunningExact
<1>3. ~ InQueue(waiters, t)
    BY <1>1, <1>2 DEF Calls, WaitInv
<1>4. /\ waiters' \in Seq(Threads) /\ NoDuplicates(waiters')
      /\ \A y : InQueue(waiters', y) <=> InQueue(waiters, y) \/ y = t
    BY <1>1, <1>3, QueueAppend DEF TypeOK, Calls, WaitInv
<1>5. Calls'
    <2> USE <1>1 DEF Commit, schdVars
    <2>1. WaitInv'
        BY <1>4 DEF TypeOK, Calls, WaitInv
    <2>2. RunInv'
        BY <1>2, <1>4 DEF TypeOK, Calls, RunInv
    <2>3. CallInv'
        BY <1>2 DEF TypeOK, Calls, CallInv, Free
    <2> QED BY <2>1, <2>2, <2>3 DEF Calls
<1> QED BY <1>1, <1>4, <1>5, CommitInv

LEMMA WakeStepInv ==
    ASSUME Inv, NEW c \in CPUs, Wake(c) PROVE Inv'
<1> USE DEF Inv
<1>1. PICK t \in Threads : /\ Free(c, t) /\ guard = NULL /\ waiters # <<>>
                           /\ waiters' = Tail(waiters) /\ Commit(t, "run", Head(waiters))
                           /\ guard' = guard
    BY DEF Wake
<1> DEFINE h == Head(waiters)
<1>2. state[t] = "RUNNING" /\ call[t] = "none"
    BY <1>1 DEF Free, Running, RunningExact
<1>3. /\ waiters' \in Seq(Threads) /\ NoDuplicates(waiters')
      /\ \A y : InQueue(waiters', y) <=> InQueue(waiters, y) /\ y # h
      /\ h = waiters[1] /\ h \in Threads
    BY <1>1, QueueTail DEF TypeOK, Calls, WaitInv
<1>h. InQueue(waiters, h)
    BY <1>1, <1>3, QueueEmpty DEF InQueue, TypeOK
<1>4. state[h] = "BLOCKED" /\ h # t
    BY <1>1, <1>2, <1>3, <1>h DEF Calls, WaitInv
<1>5. Calls'
    <2> USE <1>1 DEF Commit, schdVars
    <2> HIDE DEF h
    <2>0. call' = [call EXCEPT ![t] = "run"] /\ target' = [target EXCEPT ![t] = h]
        BY DEF h
    <2>1. WaitInv'
        BY <1>2, <1>3 DEF TypeOK, Calls, WaitInv
    <2>2. RunInv'
        BY <2>0, <1>2, <1>3, <1>h, <1>4 DEF TypeOK, Calls, RunInv
    <2>3. CallInv'
        BY <2>0, <1>2, <1>3 DEF TypeOK, Calls, CallInv, Free
    <2> QED BY <2>1, <2>2, <2>3 DEF Calls
<1> QED BY <1>1, <1>3, <1>5, CommitInv DEF TypeOK

LEMMA CreateInv ==
    ASSUME Inv, NEW c \in CPUs, Create(c) PROVE Inv'
<1> USE DEF Inv
<1>1. PICK t \in Threads, new \in Threads :
          /\ Free(c, t) /\ state[new] = "UNSCHDED"
          /\ \A u \in Threads : ~ (call[u] = "run" /\ target[u] = new)
          /\ Commit(t, "run", new) /\ UNCHANGED <<guard, waiters>>
    BY DEF Create
<1>2. state[t] = "RUNNING" /\ call[t] = "none"
    BY <1>1 DEF Free, Running, RunningExact
<1>3. ~ InQueue(waiters, new)
    BY <1>1 DEF Calls, WaitInv, CallInv
<1>4. Calls'
    <2> USE <1>1 DEF Commit, schdVars
    <2>1. WaitInv'
        BY <1>2 DEF TypeOK, Calls, WaitInv
    <2>2. RunInv'
        BY <1>2, <1>3 DEF TypeOK, Calls, RunInv
    <2>3. CallInv'
        BY <1>2 DEF TypeOK, Calls, CallInv, Free
    <2> QED BY <2>1, <2>2, <2>3 DEF Calls
<1> QED BY <1>1, <1>4, CommitInv DEF TypeOK

LEMMA KillInv ==
    ASSUME Inv, NEW c \in CPUs, Kill(c) PROVE Inv'
<1> USE DEF Inv
<1>1. PICK t \in Threads, victim \in Threads :
          Free(c, t) /\ Commit(t, "kill", victim) /\ UNCHANGED <<guard, waiters>>
    BY DEF Kill
<1>2. state[t] = "RUNNING" /\ call[t] = "none"
    BY <1>1 DEF Free, Running, RunningExact
<1>3. Calls'
    <2> USE <1>1 DEF Commit, schdVars
    <2>1. WaitInv'
        BY <1>2 DEF TypeOK, Calls, WaitInv
    <2>2. RunInv'
        BY <1>2 DEF TypeOK, Calls, RunInv
    <2>3. CallInv'
        BY <1>2 DEF TypeOK, Calls, CallInv, Free
    <2> QED BY <2>1, <2>2, <2>3 DEF Calls
<1> QED BY <1>1, <1>3, CommitInv DEF TypeOK

LEMMA IrqInv ==
    ASSUME Inv, NEW c \in CPUs, IrqOff(c) \/ IrqOn(c) PROVE Inv'
<1> USE DEF Inv
<1>1. PICK t \in Threads :
          /\ Free(c, t)
          /\ \/ ncli[t] = 0 /\ intr_irq_save(c)
             \/ ncli[t] = 1 /\ intr_irq_restore(c)
          /\ UNCHANGED <<state, runnable, lock, task, stack, pc, inservice, call, target, guard, waiters, panicked>>
    BY DEF IrqOff, IrqOn, schdVars, userVars
<1>2. pc[c] = "run" /\ task[c] = t /\ state[t] = "RUNNING" /\ ~ inservice[c]
    BY <1>1 DEF Free, Running, RunningExact, Interrupts, NcliInv
<1>3. pc' = [pc EXCEPT ![c] = "run"]
    BY <1>1, <1>2 DEF TypeOK
<1>4. Interrupts' /\ ncli' \in [Threads -> 0 .. 2] /\ irq' \in [CPUs -> BOOLEAN]
    <2>1. CASE ncli[t] = 0 /\ intr_irq_save(c)
        BY Zenon, <1>1, <1>2, <1>3, <2>1, SaveInterrupts DEF TypeOK
    <2>2. CASE ncli[t] = 1 /\ intr_irq_restore(c)
        BY Zenon, <1>1, <1>2, <1>3, <2>2, RestoreInterrupts DEF TypeOK, Goto
    <2> QED BY <1>1, <2>1, <2>2
<1>5. TypeOK'
    BY <1>1, <1>4 DEF TypeOK
<1>6. Locking'
    BY <1>1 DEF Locking, LockInv, LockHandedOver
<1>7. Running'
    BY <1>1 DEF Running, StackInv, StackExclusive, RunningExact
<1>8. RunnableExact'
    BY <1>1 DEF RunnableExact
<1>9. Calls'
    <2>1. UNCHANGED <<state, stack, pc, call, target, guard, waiters, task>>
        BY <1>1
    <2>2. WaitInv'
        BY <2>1 DEF Calls, WaitInv
    <2>3. RunInv'
        BY <2>1 DEF Calls, RunInv
    <2>4. CallInv'
        BY <2>1 DEF Calls, CallInv
    <2> QED BY <2>2, <2>3, <2>4 DEF Calls
<1> QED BY <1>4, <1>5, <1>6, <1>7, <1>8, <1>9

-----------------------------------------------------------------------------
(***************************************************************************)
(* The theorems                                                            *)
(***************************************************************************)

LEMMA StepInv == Inv /\ [Next]_vars => Inv'
<1> SUFFICES ASSUME Inv, [Next]_vars PROVE Inv'
    OBVIOUS
<1>1. CASE UNCHANGED vars
    BY <1>1 DEF vars, schdVars, irqVars, userVars, Inv, TypeOK, Locking, LockInv, LockHandedOver,
                Running, StackInv, StackExclusive, RunningExact, RunnableExact, Interrupts,
                IrqAccounting, NcliInv, Calls, WaitInv, RunInv, CallInv
<1>2. ASSUME NEW c \in CPUs, Kernel(c) PROVE Inv'
    BY <1>2, schd_schdule_lockInv, schd_schduleInv, switch_to_threadInv, schd_schdule_unlockInv,
       resume_unlockInv, intr_endInv, schd_intr_mid_funcInv, schd_block_lockInv, schd_blockInv,
       switch_to_schdInv, schd_call_lockInv, schd_runInv, schd_killInv DEF Kernel
<1>3. ASSUME NEW c \in CPUs, User(c) PROVE Inv'
    BY <1>3, WaitStepInv, WakeStepInv, CreateInv, KillInv, IrqInv DEF User
<1> QED BY <1>1, <1>2, <1>3, schd_intrInv DEF Next

\* The inductive invariant: what the scheduler's lock, lists, stacks, counters
\* and callers satisfy between any two steps of schd.c.
THEOREM Invariance == Spec => []Inv
BY InitInv, StepInv, PTL DEF Spec

\* Every variable keeps its type; in particular ncli never leaves 0 .. 2.
THEOREM SchedulerTypeOK == Spec => []TypeOK
<1>1. Inv => TypeOK
    BY DEF Inv
<1> QED BY <1>1, Invariance, PTL

\* No two CPUs execute on one thread's stack, the runnable list holds the
\* RUNNABEL threads and the CPUs' tasks are the RUNNING ones, for any number of
\* CPUs and threads and whatever threads kill each other.
THEOREM SchedulerThreadsExact == Spec => []ThreadsExact
<1>1. Inv => ThreadsExact
    BY DEF Inv, Running, ThreadsExact, StatesExact
<1> QED BY <1>1, Invariance, PTL

\* scheduler.lock is released by the CPU that holds it, across stack switches;
\* the interrupt flag and the ncli counters agree, and no timer interrupt is left
\* in service with interrupts on.
THEOREM SchedulerLockAndIrq == Spec => []LockAndIrq
<1>1. Inv => LockAndIrq
    BY DEF Inv, Locking, Interrupts, LockAndIrq
<1> QED BY <1>1, Invariance, PTL

-----------------------------------------------------------------------------
(***************************************************************************)
(* No panic                                                                *)
(***************************************************************************)

\* When threads kill only themselves, a thread that calls schd_kill is its own
\* target, and the machine has not panicked.
NoPanicInv == NoPanic /\ \A t \in Threads : call[t] = "kill" => target[t] = t

LEMMA NoPanicStep ==
    ASSUME ~ KillOthers, Inv, NoPanicInv, [Next]_vars PROVE NoPanicInv'
<1> USE DEF NoPanicInv, NoPanic
<1>1. CASE UNCHANGED vars
    BY <1>1 DEF vars, userVars
<1>2. ASSUME NEW c \in CPUs, schd_intr_mid_func(c) \/ schd_block_lock(c) PROVE NoPanicInv'
    <2>1. pc[c] \in {"intr_spin", "run"} /\ state[task[c]] = "RUNNING"
        BY <1>2 DEF schd_intr_mid_func, schd_block_lock, Inv, Running, StackInv, OnThread, RunningExact
    <2>2. UNCHANGED <<userVars, panicked>>
        <3>1. CASE schd_intr_mid_func(c)
            BY <2>1, <3>1 DEF schd_intr_mid_func
        <3>2. CASE schd_block_lock(c)
            BY <2>1, <3>2 DEF schd_block_lock
        <3> QED BY <1>2, <3>1, <3>2
    <2> QED BY <2>2 DEF userVars
<1>3. ASSUME NEW c \in CPUs, schd_run(c) PROVE NoPanicInv'
    <2>1. task[c] \in Threads /\ state[target[task[c]]] \in {"UNSCHDED", "BLOCKED"}
        BY <1>3 DEF schd_run, Inv, Running, StackInv, OnThread, Calls, CallInv, RunInv
    <2> QED BY <1>3, <2>1 DEF schd_run, Return, Inv, TypeOK
<1>4. ASSUME NEW c \in CPUs, schd_kill(c) PROVE NoPanicInv'
    <2>1. task[c] \in Threads /\ target[task[c]] = task[c] /\ state[task[c]] = "RUNNING"
        BY <1>4 DEF schd_kill, Inv, Running, StackInv, OnThread, RunningExact, Calls, CallInv
    <2>2. UNCHANGED <<userVars, panicked>>
        BY <1>4, <2>1 DEF schd_kill
    <2> QED BY <2>2 DEF userVars
<1>5. ASSUME NEW c \in CPUs, schd_block(c) PROVE NoPanicInv'
    BY <1>5 DEF schd_block, Inv, TypeOK
<1>6. ASSUME NEW c \in CPUs,
             \/ schd_schdule_lock(c) \/ schd_schdule(c) \/ switch_to_thread(c)
             \/ schd_schdule_unlock(c) \/ resume_unlock(c) \/ intr_end(c)
             \/ switch_to_schd(c) \/ schd_call_lock(c) \/ schd_intr(c) \/ IrqOff(c) \/ IrqOn(c)
      PROVE  NoPanicInv'
    <2>1. UNCHANGED <<userVars, panicked>>
        <3>1. CASE schd_schdule_lock(c)
            BY <3>1 DEF schd_schdule_lock
        <3>2. CASE schd_schdule(c)
            BY <3>2 DEF schd_schdule
        <3>3. CASE switch_to_thread(c)
            BY <3>3 DEF switch_to_thread
        <3>4. CASE schd_schdule_unlock(c)
            BY <3>4 DEF schd_schdule_unlock
        <3>5. CASE resume_unlock(c)
            BY <3>5 DEF resume_unlock
        <3>6. CASE intr_end(c)
            BY <3>6 DEF intr_end
        <3>7. CASE switch_to_schd(c)
            BY <3>7 DEF switch_to_schd
        <3>8. CASE schd_call_lock(c)
            BY <3>8 DEF schd_call_lock
        <3>9. CASE schd_intr(c)
            BY <3>9 DEF schd_intr
        <3>10. CASE IrqOff(c)
            BY <3>10 DEF IrqOff
        <3>11. CASE IrqOn(c)
            BY <3>11 DEF IrqOn
        <3> QED BY <1>6, <3>1, <3>2, <3>3, <3>4, <3>5, <3>6, <3>7, <3>8, <3>9, <3>10, <3>11
    <2> QED BY <2>1 DEF userVars
<1>7. ASSUME NEW c \in CPUs, Wait(c) \/ Wake(c) \/ Create(c) \/ Kill(c) PROVE NoPanicInv'
    <2>1. PICK t \in Threads, what \in {"block", "run", "kill"} :
              \E about : Commit(t, what, about) /\ (what = "kill" => about = t)
        BY <1>7 DEF Wait, Wake, Create, Kill
    <2> QED BY <2>1 DEF Commit, Inv, TypeOK
<1> QED BY <1>1, <1>2, <1>3, <1>4, <1>5, <1>6, <1>7 DEF Next, Kernel, User

\* If threads kill only themselves, no assertion of schd.c fails and none of
\* the panics of schd_run and schd_kill is reached: a wake-up always finds the
\* thread BLOCKED, because the waker took it from a list under the spinlock
\* that schd_block releases only once the state is written.
THEOREM SchedulerNoPanic == ~ KillOthers /\ Spec => []NoPanic
<1> SUFFICES ASSUME ~ KillOthers PROVE Spec => []NoPanic
    OBVIOUS
<1>1. Init => NoPanicInv
    BY DEF Init, NoPanicInv, NoPanic
<1>2. Inv /\ NoPanicInv /\ [Next]_vars => NoPanicInv'
    BY NoPanicStep
<1>3. NoPanicInv => NoPanic
    BY DEF NoPanicInv
<1> QED BY <1>1, <1>2, <1>3, Invariance, PTL DEF Spec

-----------------------------------------------------------------------------
(***************************************************************************)
(* The scheduler implements its abstract specification                     *)
(***************************************************************************)

LEMMA SchedStep ==
    ASSUME Inv, [Next]_vars PROVE [Abstract!SchedNext]_Abstract!schedVars
<1> USE DEF Abstract!schedVars
<1>1. CASE UNCHANGED vars
    BY <1>1 DEF vars, schdVars
<1>2. ASSUME NEW c \in CPUs, schd_schdule(c) PROVE [Abstract!SchedNext]_Abstract!schedVars
    <2>1. task[c] = NULL
        BY <1>2 DEF schd_schdule, Inv, Running, StackInv
    <2>2. Abstract!Dispatch(c) \/ UNCHANGED <<state, runnable, task>>
        BY <1>2, <2>1 DEF schd_schdule, schdVars, Abstract!Dispatch
    <2> QED BY <2>2 DEF Abstract!SchedNext
<1>3. ASSUME NEW c \in CPUs, schd_intr_mid_func(c) PROVE [Abstract!SchedNext]_Abstract!schedVars
    <2>1. task[c] # NULL
        BY <1>3 DEF schd_intr_mid_func, Inv, Running, StackInv, OnThread
    <2>2. Abstract!Preempt(c) \/ UNCHANGED <<state, runnable, task>>
        BY <1>3, <2>1 DEF schd_intr_mid_func, set_runnable, Panic, schdVars, Abstract!Preempt
    <2> QED BY <2>2 DEF Abstract!SchedNext
<1>4. ASSUME NEW c \in CPUs, schd_block(c) PROVE [Abstract!SchedNext]_Abstract!schedVars
    <2>1. task[c] # NULL
        BY <1>4 DEF schd_block, Inv, Running, StackInv, OnThread
    <2>2. Abstract!Block(c)
        BY <1>4, <2>1 DEF schd_block, Abstract!Block
    <2> QED BY <2>2 DEF Abstract!SchedNext
<1>5. ASSUME NEW c \in CPUs, schd_run(c) PROVE [Abstract!SchedNext]_Abstract!schedVars
    <2>1. target[task[c]] \in Threads
        BY <1>5 DEF schd_run, Inv, Running, StackInv, OnThread, Calls, CallInv, RunInv
    <2>2. Abstract!Run(target[task[c]]) \/ UNCHANGED <<state, runnable, task>>
        BY <1>5 DEF schd_run, set_runnable, Return, Panic, schdVars, Abstract!Run
    <2> QED BY <2>1, <2>2 DEF Abstract!SchedNext
<1>6. ASSUME NEW c \in CPUs, schd_kill(c) PROVE [Abstract!SchedNext]_Abstract!schedVars
    <2> DEFINE t == target[task[c]]
    <2>1. task[c] \in Threads /\ task[c] # NULL /\ t \in Threads /\ state[t] # "SLEEPING"
        BY <1>6 DEF schd_kill, Inv, TypeOK, Running, StackInv, OnThread, Calls, CallInv
    <2>2. CASE state[t] = "RUNNABEL"
        <3>1. Abstract!Kill(t) \/ UNCHANGED <<state, runnable, task>>
            BY <1>6, <2>2 DEF schd_kill, Return, Panic, schdVars, Abstract!Kill, list_delete,
                              Abstract!list_delete
        <3> QED BY <2>1, <3>1 DEF Abstract!SchedNext
    <2>3. CASE state[t] # "RUNNABEL"
        <3>1. Abstract!Exit(c) \/ UNCHANGED <<state, runnable, task>>
            BY <1>6, <2>1, <2>3 DEF schd_kill, Panic, schdVars, Abstract!Exit
        <3> QED BY <3>1 DEF Abstract!SchedNext
    <2> QED BY <2>2, <2>3
<1>7. ASSUME NEW c \in CPUs,
             \/ schd_schdule_lock(c) \/ switch_to_thread(c) \/ schd_schdule_unlock(c)
             \/ resume_unlock(c) \/ intr_end(c) \/ schd_block_lock(c) \/ switch_to_schd(c)
             \/ schd_call_lock(c) \/ schd_intr(c) \/ User(c)
      PROVE  UNCHANGED <<state, runnable, task>>
    BY <1>7 DEF schd_schdule_lock, switch_to_thread, schd_schdule_unlock, resume_unlock, intr_end,
                schd_block_lock, switch_to_schd, schd_call_lock, schd_intr, User, Wait, Wake, Create,
                Kill, IrqOff, IrqOn, Commit, Panic, schdVars
<1> QED BY <1>1, <1>2, <1>3, <1>4, <1>5, <1>6, <1>7 DEF Next, Kernel

\* Each operation of schd.c, spread over a lock, two stacks and a context
\* switch, takes effect in one step of Sched: what the kernel's services are
\* modelled on is what the scheduler does.
THEOREM SchedulerImplementsSched == Spec => ImplementsSched
<1>1. Init => Abstract!SchedInit
    BY DEF Init, Abstract!SchedInit, InQueue, Abstract!InQueue
<1> QED BY <1>1, SchedStep, Invariance, PTL DEF Spec, ImplementsSched, Abstract!SchedSpec
-----------------------------------------------------------------------------
(***************************************************************************)
(* A killed thread                                                         *)
(***************************************************************************)

\* What a step may not do to a thread that is KILLED: the action of KilledForGood.
StaysDead(t) ==
    state[t] = "KILLED" =>
        /\ state'[t] = "KILLED"
        /\ \A c \in CPUs : stack[c] # t => stack'[c] # t

LEMMA StaysDeadStep ==
    ASSUME Inv, Next, NEW t \in Threads PROVE StaysDead(t)
<1> SUFFICES ASSUME state[t] = "KILLED"
             PROVE  state'[t] = "KILLED" /\ \A d \in CPUs : stack[d] # t => stack'[d] # t
    BY DEF StaysDead
<1>1. PICK c \in CPUs : Kernel(c) \/ schd_intr(c) \/ User(c)
    BY DEF Next
<1>2. CASE schd_schdule(c)
    <2>1. runnable # <<>> => InQueue(runnable, Head(runnable)) /\ Head(runnable) \in Threads
        BY QueueTail, QueueEmpty DEF Inv, TypeOK, RunnableExact, InQueue
    <2>2. runnable # <<>> => Head(runnable) # t
        BY <2>1 DEF Inv, RunnableExact
    <2> QED BY <1>2, <2>1, <2>2 DEF schd_schdule, schdVars, Inv, TypeOK
<1>3. CASE switch_to_thread(c)
    <2>1. task[c] # t
        BY <1>3 DEF switch_to_thread, Inv, Running, StackInv, RunningExact
    <2> QED BY <1>3, <2>1 DEF switch_to_thread, schdVars, Inv, TypeOK
<1>4. CASE schd_intr_mid_func(c)
    BY <1>4 DEF schd_intr_mid_func, set_runnable, Panic, schdVars, Inv, TypeOK
<1>5. CASE schd_block(c)
    <2>1. task[c] # t
        BY <1>5 DEF schd_block, Inv, Running, StackInv, OnThread, RunningExact
    <2> QED BY <1>5, <2>1 DEF schd_block, Inv, TypeOK
<1>6. CASE schd_run(c)
    BY <1>6 DEF schd_run, set_runnable, Return, Panic, schdVars, Inv, TypeOK
<1>7. CASE schd_kill(c)
    BY <1>7 DEF schd_kill, Return, Panic, schdVars, Inv, TypeOK
<1>8. CASE switch_to_schd(c)
    BY <1>8 DEF switch_to_schd, schdVars, Inv, TypeOK
<1>9. CASE \/ schd_schdule_lock(c) \/ schd_schdule_unlock(c) \/ resume_unlock(c) \/ intr_end(c)
           \/ schd_block_lock(c) \/ schd_call_lock(c) \/ schd_intr(c) \/ User(c)
    <2>1. UNCHANGED <<state, stack>>
        BY <1>9 DEF schd_schdule_lock, schd_schdule_unlock, resume_unlock, intr_end, schd_block_lock,
                    schd_call_lock, schd_intr, User, Wait, Wake, Create, Kill, IrqOff, IrqOn,
                    Commit, Panic, schdVars
    <2> QED BY <2>1
<1> QED BY <1>1, <1>2, <1>3, <1>4, <1>5, <1>6, <1>7, <1>8, <1>9 DEF Kernel

\* schd_kill is for good: a killed thread is never dispatched again and no CPU
\* switches to its stack; the one that killed itself only leaves it.
THEOREM SchedulerKilledForGood == Spec => KilledForGood
<1>1. Inv /\ [Next]_vars =>
          [\A t \in Threads : state[t] = "KILLED" =>
              /\ state'[t] = "KILLED"
              /\ \A c \in CPUs : stack[c] # t => stack'[c] # t]_vars
    BY StaysDeadStep DEF StaysDead
<1> QED BY <1>1, Invariance, PTL DEF Spec, KilledForGood
=============================================================================

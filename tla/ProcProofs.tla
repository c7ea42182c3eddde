----------------------------- MODULE ProcProofs -----------------------------
(***************************************************************************)
(* The theorems about processes and their threads, kernel/proc/proc.c and  *)
(* kernel/proc/thread/thread.c, for any number of CPUs, threads and        *)
(* processes and any set of system calls that the programs make.           *)
(*                                                                         *)
(* The argument: the walk of proc_sys_exit leaves only killed threads      *)
(* behind it (KillsInv), because no thread joins the list that it walks:   *)
(* the loader of a process is alone in it until it has created the first   *)
(* user thread (SetupInv).  So one thread at most reaches the wake-up of a *)
(* process, once (ExitedInv).  Only that wake-up, and no schd_run of a new *)
(* thread (ChildInv), makes the waiting creator runnable (WaitInv).        *)
(***************************************************************************)
EXTENDS Proc, SchedTheorems

USE SchedAssumption, ProcAssumption, ZenonT(5), SMTT(30)

Runs == {"new_run", "setup_run", "create_run", "create_run_wait"}
Walking == {"walk", "kill"}
Labels == Runs \cup Walking
            \cup {"user", "setup", "exit", "create_block", "waiting", "exit_wake"}

\* The calls of which the arguments below need that no program makes them
NoNew == "thread_new" \notin machine.calls
NoWake == "thread_wake" \notin machine.calls

WalkType == [of : Procs \cup {NULL}, p : Nat, pp : Nat]

Types ==
    /\ machine \in Machines
    /\ proc \in [Threads -> Procs \cup {NULL}]
    /\ thread_ls \in [Procs -> Seq(Threads)]
    /\ wait_t \in [Procs -> Threads \cup {NULL}]
    /\ exited \subseteq Procs
    /\ pc \in [Threads -> Labels]
    /\ child \in [Threads -> Threads \cup {NULL}]
    /\ walk \in [Threads -> WalkType]
    /\ irqoff \in [Threads -> BOOLEAN]

\* A thread is on the list of its process, once, and on no other.
ListInv == \A p \in Procs :
    /\ NoDuplicates(thread_ls[p])
    /\ \A t \in Threads : InQueue(thread_ls[p], t) <=> proc[t] = p

\* A thread that was never run is where it starts, and waits for nobody.
StartInv ==
    /\ \A t \in Threads : proc[t] = NULL => state[t] = "UNSCHDED"
    /\ \A t \in Threads : state[t] = "UNSCHDED" => pc[t] \in {"user", "setup"}
    /\ \A p \in Procs : wait_t[p] # NULL => state[wait_t[p]] # "UNSCHDED"

\* The thread that t has created and not run yet is nobody else's.
ChildInv ==
    /\ \A t \in Threads : pc[t] \in Runs =>
        /\ child[t] \in Threads
        /\ proc[child[t]] # NULL
        /\ NoWake => state[child[t]] = "UNSCHDED"
    /\ \A t, u \in Threads : pc[t] \in Runs /\ pc[u] \in Runs /\ child[t] = child[u] => t = u

\* The loader of a process is alone in it.
SetupInv == \A t \in Threads :
    pc[t] = "setup" => proc[t] \in Procs /\ thread_ls[proc[t]] = <<t>>

\* A walk stays on its list.
OnList(t) ==
    /\ walk[t].of \in Procs
    /\ walk[t].p \in 0 .. Len(thread_ls[walk[t].of])
    /\ walk[t].pp \in 0 .. Len(thread_ls[walk[t].of])
    /\ pc[t] = "kill" => walk[t].p # 0

WalkInv == \A t \in Threads : pc[t] \in Walking => OnList(t)

\* What an exit has walked past is killed, up to the exiting thread itself.
Passed(t) == \A i \in 1 .. Len(thread_ls[walk[t].of]) :
    walk[t].p = 0 \/ i < walk[t].p =>
        \/ thread_ls[walk[t].of][i] = t
        \/ state[thread_ls[walk[t].of][i]] = "KILLED"

Kills(t) ==
    /\ pc[t] \in Walking /\ walk[t].of = proc[t] =>
        walk[t].pp = NextOf(walk[t].of, walk[t].p) /\ Passed(t)
    /\ pc[t] = "exit_wake" =>
        \A u \in Threads : proc[u] = proc[t] /\ u # t => state[u] = "KILLED"

KillsInv == NoNew => \A t \in Threads : Kills(t)

\* After the exit one thread of the process is left, on its way out.
ExitedInv == \A p \in exited :
    /\ thread_ls[p] # <<>>
    /\ NoNew => \A t \in Threads : proc[t] = p /\ state[t] # "KILLED" =>
        /\ pc[t] = "exit"
        /\ \A u \in Threads : proc[u] = p /\ state[u] # "KILLED" => u = t

\* Thread w sleeps in proc_create_from_mm, or is about to.
Sleeps(w) ==
    \/ pc[w] \in {"create_run_wait", "create_block"} /\ state[w] = "RUNNING" /\ irqoff[w]
    \/ pc[w] = "waiting" /\ state[w] = "BLOCKED"

\* Thread w waits for the process p, which has not exited.
WaitsFor(w, p) == w \in Threads /\ wait_t[p] = w /\ state[w] # "KILLED" /\ p \notin exited

WaitInv == NoWake => \A w \in Threads, p \in Procs : WaitsFor(w, p) =>
    /\ Sleeps(w) \/ (~ NoNew /\ \E q \in exited : wait_t[q] = w)
    /\ NoNew => \A q \in Procs : WaitsFor(w, q) => q = p

Inv ==
    /\ SchedInv
    /\ Types
    /\ ListInv
    /\ StartInv
    /\ ChildInv
    /\ SetupInv
    /\ WalkInv
    /\ KillsInv
    /\ ExitedInv
    /\ WaitInv

-----------------------------------------------------------------------------
(***************************************************************************)
(* The initial states                                                      *)
(***************************************************************************)

LEMMA InitInv == Init => Inv
<1> SUFFICES ASSUME Init PROVE Inv
    OBVIOUS
<1>1. SchedInv
    BY SchedInitInv DEF Init
<1>2. ASSUME NEW t \in Threads, NEW p \in Procs
      PROVE  /\ proc[t] \in Procs \cup {NULL}
             /\ proc[t] = p <=> InQueue(BootThreads[p], t)
    BY <1>2 DEF Init, BootProc
<1>3. Types
    <2>1. proc \in [Threads -> Procs \cup {NULL}]
        BY DEF Init, BootProc
    <2>2. walk \in [Threads -> WalkType]
        BY DEF Init, NoWalk, WalkType
    <2>3. pc \in [Threads -> Labels]
        BY DEF Init, Labels
    <2> QED BY <2>1, <2>2, <2>3 DEF Init, Types
<1>4. ListInv
    BY <1>2 DEF Init, ListInv
<1>5. StartInv
    BY DEF Init, StartInv, SchedInit, BootProc
<1>6. ChildInv /\ SetupInv /\ WalkInv /\ KillsInv
    BY DEF Init, ChildInv, SetupInv, WalkInv, KillsInv, Kills, Runs, Walking
<1>7. ExitedInv /\ WaitInv
    BY DEF Init, ExitedInv, WaitInv, WaitsFor
<1> QED BY <1>1, <1>3, <1>4, <1>5, <1>6, <1>7 DEF Inv

-----------------------------------------------------------------------------
(***************************************************************************)
(* What a step must not touch, per part of the invariant                   *)
(***************************************************************************)

\* Killed threads stay killed, and a thread that was run is never unscheduled.
Onward == \A t \in Threads :
    /\ state[t] = "KILLED" => state'[t] = "KILLED"
    /\ state[t] # "UNSCHDED" => state'[t] # "UNSCHDED"

LEMMA ListKept == ASSUME ListInv, UNCHANGED <<proc, thread_ls>> PROVE ListInv'
BY DEF ListInv

LEMMA StartKept ==
    ASSUME Types, StartInv, Onward, UNCHANGED <<proc, wait_t>>,
           \A t \in Threads : state'[t] # state[t] => proc[t] # NULL,
           \A t \in Threads : state'[t] = "UNSCHDED" => pc'[t] = pc[t]
    PROVE  StartInv'
<1>1. \A p \in Procs : wait_t[p] \in Threads \cup {NULL}
    BY DEF Types
<1> QED BY <1>1 DEF StartInv, Onward

LEMMA ChildKept ==
    ASSUME ChildInv, UNCHANGED <<machine, proc>>,
           \A t \in Threads : pc'[t] \in Runs =>
                pc[t] \in Runs /\ child'[t] = child[t] /\ (NoWake => state'[child[t]] = "UNSCHDED")
    PROVE  ChildInv'
BY DEF ChildInv, NoWake

LEMMA SetupKept ==
    ASSUME SetupInv, UNCHANGED <<proc, thread_ls>>,
           \A t \in Threads : pc'[t] = "setup" => pc[t] = "setup"
    PROVE  SetupInv'
BY DEF SetupInv

LEMMA WalkKept ==
    ASSUME WalkInv, UNCHANGED thread_ls,
           \A t \in Threads : pc'[t] \in Walking =>
                OnList(t)' \/ (pc'[t] = pc[t] /\ walk'[t] = walk[t])
    PROVE  WalkInv'
BY DEF WalkInv, OnList

LEMMA KillsKept ==
    ASSUME Types, WalkInv, KillsInv, Onward, UNCHANGED <<machine, proc, thread_ls>>,
           \A t \in Threads : NoNew => Kills(t)' \/ (pc'[t] = pc[t] /\ walk'[t] = walk[t])
    PROVE  KillsInv'
<1> SUFFICES ASSUME NoNew, NEW t \in Threads, pc'[t] = pc[t], walk'[t] = walk[t]
             PROVE  Kills(t)'
    BY DEF KillsInv, NoNew
<1>1. Kills(t)
    BY DEF KillsInv
<1>2. ASSUME pc[t] \in Walking, walk[t].of = proc[t]
      PROVE  walk[t].pp = NextOf(walk[t].of, walk[t].p)' /\ Passed(t)'
    <2>1. walk[t].of \in Procs
        BY <1>2 DEF WalkInv, OnList
    <2>2. \A i \in 1 .. Len(thread_ls[walk[t].of]) : thread_ls[walk[t].of][i] \in Threads
        BY <2>1 DEF Types
    <2>3. Passed(t)'
        BY <1>1, <1>2, <2>2 DEF Kills, Passed, Onward
    <2> QED BY <1>1, <1>2, <2>3 DEF Kills, NextOf
<1> QED BY <1>1, <1>2 DEF Kills, Onward, NextOf

LEMMA ExitedKept ==
    ASSUME ExitedInv, Onward, UNCHANGED <<machine, proc, thread_ls, exited>>,
           \A t \in Threads : pc[t] = "exit" => pc'[t] = "exit"
    PROVE  ExitedInv'
BY DEF ExitedInv, Onward, NoNew

LEMMA WaitKept ==
    ASSUME WaitInv, Onward, UNCHANGED <<machine, wait_t, exited>>,
           \A t \in Threads : NoWake /\ Sleeps(t) => Sleeps(t)' \/ state'[t] = "KILLED"
    PROVE  WaitInv'
BY DEF WaitInv, WaitsFor, Onward, NoNew, NoWake

-----------------------------------------------------------------------------
(***************************************************************************)
(* Steps of the scheduler and of a thread that goes on                     *)
(***************************************************************************)

LEMMA OnCPU ==
    ASSUME SchedInv, NEW t \in Threads, state[t] = "RUNNING"
    PROVE  CPU(t) \in CPUs /\ cur[CPU(t)] = t
BY DEF SchedInv, CPU

\* No step kills a thread twice or takes it back to the start.
LEMMA MoveOnward ==
    ASSUME SchedTypeOK, NEW t \in Threads, NEW s \in T_STATE \ {"UNSCHDED"},
           state' = [state EXCEPT ![t] = s], state[t] # "KILLED"
    PROVE  Onward
BY DEF Onward, SchedTypeOK

LEMMA SameOnward == ASSUME UNCHANGED state PROVE Onward
BY DEF Onward

\* The states after one of them was written
LEMMA StatesAfter ==
    ASSUME SchedInv, NEW t \in Threads, NEW s, state' = [state EXCEPT ![t] = s]
    PROVE  \A u \in Threads : state'[u] = IF u = t THEN s ELSE state[u]
BY DEF SchedInv, SchedTypeOK

\* A thread other than a sleeping creator changes its state, or is killed.
LEMMA SchedStepInv ==
    ASSUME Inv, SchedInv', UNCHANGED <<procVars, localVars>>,
           NEW t \in Threads, NEW s \in T_STATE \ {"UNSCHDED"},
           state' = [state EXCEPT ![t] = s], state[t] # "KILLED", proc[t] # NULL,
           NoWake => state[t] # "UNSCHDED" /\ (s = "KILLED" \/ ~ Sleeps(t))
    PROVE  Inv'
<1>1. /\ SchedTypeOK /\ Types /\ ListInv /\ StartInv /\ ChildInv /\ SetupInv /\ WalkInv
      /\ KillsInv /\ ExitedInv /\ WaitInv
    BY DEF Inv, SchedInv
<1>2. /\ UNCHANGED <<machine, proc, thread_ls, wait_t, exited>>
      /\ UNCHANGED <<pc, child, walk, irqoff>>
    BY DEF procVars, localVars
<1>3. \A u \in Threads : state'[u] = IF u = t THEN s ELSE state[u]
    BY <1>1 DEF SchedTypeOK
<1>4. Onward
    BY <1>1, MoveOnward
<1>5. Types'
    BY <1>1, <1>2 DEF Types
<1>6. StartInv'
    BY <1>1, <1>2, <1>3, <1>4, StartKept
<1>7. ChildInv'
    <2>1. ASSUME NEW u \in Threads, pc'[u] \in Runs
          PROVE  pc[u] \in Runs /\ child'[u] = child[u] /\ (NoWake => state'[child[u]] = "UNSCHDED")
        BY <2>1, <1>1, <1>2, <1>3 DEF ChildInv
    <2> QED BY <2>1, <1>1, <1>2, ChildKept
<1>8. WaitInv'
    <2>1. ASSUME NEW u \in Threads, NoWake, Sleeps(u)
          PROVE  Sleeps(u)' \/ state'[u] = "KILLED"
        BY <2>1, <1>2, <1>3 DEF Sleeps
    <2> QED BY <2>1, <1>1, <1>2, <1>4, WaitKept
<1>9. ListInv' /\ SetupInv'
    BY <1>1, <1>2, ListKept, SetupKept
<1>10. WalkInv'
    BY <1>1, <1>2, WalkKept
<1>11. KillsInv' /\ ExitedInv'
    BY <1>1, <1>2, <1>4, KillsKept, ExitedKept
<1> QED BY <1>5, <1>6, <1>7, <1>8, <1>9, <1>10, <1>11 DEF Inv

\* A thread that was dispatched is of a process.
LEMMA HasProc ==
    ASSUME Inv, NEW t \in Threads, state[t] # "UNSCHDED"
    PROVE  proc[t] \in Procs /\ proc[t] # NULL /\ InQueue(thread_ls[proc[t]], t)
BY DEF Inv, StartInv, ListInv, Types

LEMMA SwitchInv == ASSUME Inv, NEW c \in CPUs, Switch(c) PROVE Inv'
<1>1. UNCHANGED <<procVars, localVars>>
    BY DEF Switch
<1>2. SchedInv
    BY DEF Inv
<1>3. CASE Dispatch(c)
    <2>1. PICK t \in Threads : SchedInv' /\ Moves(t, {"RUNNABEL"}, "RUNNING")
        BY <1>2, <1>3, DispatchInv
    <2>2. state[t] = "RUNNABEL" /\ state' = [state EXCEPT ![t] = "RUNNING"]
        BY <2>1 DEF Moves
    <2>3. ~ Sleeps(t)
        BY <2>2 DEF Sleeps
    <2>4. proc[t] # NULL
        BY <2>2, HasProc
    <2> QED BY <1>1, <2>1, <2>2, <2>3, <2>4, SchedStepInv DEF T_STATE
<1>4. CASE Preempt(c) /\ ~ irqoff[cur[c]]
    <2> DEFINE t == cur[c]
    <2>1. SchedInv' /\ Moves(t, {"RUNNING"}, "RUNNABEL")
        BY <1>2, <1>4, PreemptInv
    <2>2. t \in Threads /\ state[t] = "RUNNING" /\ state' = [state EXCEPT ![t] = "RUNNABEL"]
        BY <2>1 DEF Moves
    <2>3. ~ Sleeps(t)
        BY <2>2, <1>4 DEF Sleeps
    <2> HIDE DEF t
    <2>4. proc[t] # NULL
        BY <2>2, HasProc
    <2> QED BY <1>1, <2>1, <2>2, <2>3, <2>4, SchedStepInv DEF T_STATE
<1> QED BY <1>3, <1>4 DEF Switch

\* schd_kill of the running thread, at the end of proc_sys_exit or by
\* thread_sys_exit
LEMMA EndInv ==
    ASSUME Inv, NEW t \in Threads, state[t] = "RUNNING", Exit(CPU(t)),
           UNCHANGED <<procVars, localVars>>
    PROVE  Inv'
<1>1. SchedInv
    BY DEF Inv
<1>2. CPU(t) \in CPUs /\ cur[CPU(t)] = t
    BY <1>1, OnCPU
<1>3. SchedInv' /\ Moves(t, {"RUNNING"}, "KILLED")
    BY <1>1, <1>2, ExitInv
<1>4. state' = [state EXCEPT ![t] = "KILLED"] /\ proc[t] # NULL
    BY <1>3, HasProc DEF Moves
<1> QED BY <1>3, <1>4, SchedStepInv DEF T_STATE

LEMMA thread_sys_blockInv == ASSUME Inv, NEW t \in Threads, thread_sys_block(t) PROVE Inv'
<1>1. SchedInv
    BY DEF Inv
<1>2. state[t] = "RUNNING" /\ pc[t] = "user" /\ Block(CPU(t)) /\ UNCHANGED <<procVars, localVars>>
    BY DEF thread_sys_block, Calling, At
<1>3. CPU(t) \in CPUs /\ cur[CPU(t)] = t
    BY <1>1, <1>2, OnCPU
<1>4. SchedInv' /\ Moves(t, {"RUNNING"}, "BLOCKED")
    BY <1>1, <1>2, <1>3, BlockInv
<1>5. ~ Sleeps(t)
    BY <1>2 DEF Sleeps
<1>6. state' = [state EXCEPT ![t] = "BLOCKED"] /\ proc[t] # NULL
    BY <1>2, <1>4, HasProc DEF Moves
<1> QED BY <1>2, <1>4, <1>5, <1>6, SchedStepInv DEF T_STATE

LEMMA FailInv == ASSUME Inv, NEW what, Fail(what) PROVE Inv'
<1>1. UNCHANGED <<state, runnable, cur>> /\ UNCHANGED <<machine, proc, thread_ls, wait_t, exited>>
      /\ UNCHANGED <<pc, child, walk, irqoff>>
    BY DEF Fail, schedVars, procVars, localVars
<1>2. /\ SchedInv /\ Types /\ ListInv /\ StartInv /\ ChildInv /\ SetupInv /\ WalkInv
      /\ KillsInv /\ ExitedInv /\ WaitInv
    BY DEF Inv
<1>3. SchedInv' /\ Onward
    BY <1>1, <1>2, SchedStutterInv, SameOnward DEF schedVars
<1>4. Types' /\ ListInv' /\ SetupInv'
    BY <1>1, <1>2, ListKept, SetupKept DEF Types
<1>5. StartInv' /\ ChildInv'
    BY <1>1, <1>2 DEF StartInv, ChildInv, NoWake
<1>6. WalkInv' /\ KillsInv'
    BY <1>1, <1>2, <1>3, WalkKept, KillsKept
<1>7. ExitedInv'
    BY <1>1, <1>2, <1>3, ExitedKept
<1>8. WaitInv'
    <2>1. \A u \in Threads : Sleeps(u) => Sleeps(u)'
        BY <1>1 DEF Sleeps
    <2> QED BY <1>1, <1>2, <1>3, <2>1, WaitKept
<1> QED BY <1>3, <1>4, <1>5, <1>6, <1>7, <1>8 DEF Inv

LEMMA thread_sys_wakeInv == ASSUME Inv, NEW t \in Threads, thread_sys_wake(t) PROVE Inv'
<1>1. /\ state[t] = "RUNNING" /\ ~ NoWake
    BY DEF thread_sys_wake, Calling, At, NoWake
<1>2. PICK u \in Threads :
        /\ proc[u] = proc[t]
        /\ \/ ~ CanRun(u) /\ Fail("thread_wake")
           \/ Run(u) /\ UNCHANGED <<procVars, localVars, failed>>
    BY DEF thread_sys_wake
<1>3. CASE Fail("thread_wake")
    BY <1>3, FailInv
<1>4. CASE Run(u) /\ UNCHANGED <<procVars, localVars, failed>>
    <2>1. SchedInv' /\ Moves(u, {"UNSCHDED", "BLOCKED"}, "RUNNABEL")
        BY <1>4, RunInv DEF Inv
    <2>2. proc[u] # NULL
        BY <1>1, <1>2, HasProc
    <2> QED BY <1>1, <1>4, <2>1, <2>2, SchedStepInv DEF Moves, T_STATE
<1> QED BY <1>2, <1>3, <1>4

\* Thread t goes on at label l, and changes nothing of the processes.
LEMMA GoOnInv ==
    ASSUME Inv, SchedInv', Types', Onward, UNCHANGED procVars,
           NEW t \in Threads, state[t] = "RUNNING", pc[t] # "exit",
           NEW l \in Labels, l \notin Runs, l # "setup", pc' = [pc EXCEPT ![t] = l],
           \A u \in Threads : u # t => child'[u] = child[u] /\ walk'[u] = walk[u],
           \A u \in Threads : state'[u] # state[u] => proc[u] # NULL,
           \A u \in Threads : u # t /\ pc[u] \in Runs /\ NoWake => state'[child[u]] = "UNSCHDED",
           \A u \in Threads : NoWake /\ Sleeps(u) => Sleeps(u)' \/ state'[u] = "KILLED",
           l \in Walking => OnList(t)',
           NoNew => Kills(t)'
    PROVE  Inv'
<1>1. /\ Types /\ ListInv /\ StartInv /\ ChildInv /\ SetupInv /\ WalkInv
      /\ KillsInv /\ ExitedInv /\ WaitInv
    BY DEF Inv
<1>2. UNCHANGED <<machine, proc, thread_ls, wait_t, exited>>
    BY DEF procVars
<1>3. \A u \in Threads : pc'[u] = IF u = t THEN l ELSE pc[u]
    BY <1>1 DEF Types
<1>4. StartInv'
    <2>1. state'[t] # "UNSCHDED"
        BY DEF Onward
    <2> QED BY <1>1, <1>2, <1>3, <2>1, StartKept
<1>5. ChildInv'
    BY <1>1, <1>2, <1>3, ChildKept
<1>6. ListInv' /\ SetupInv'
    BY <1>1, <1>2, <1>3, ListKept, SetupKept
<1>7. WalkInv'
    BY <1>1, <1>2, <1>3, WalkKept
<1>8. KillsInv'
    BY <1>1, <1>2, <1>3, KillsKept
<1>9. ExitedInv'
    BY <1>1, <1>2, <1>3, ExitedKept
<1>10. WaitInv'
    BY <1>1, <1>2, WaitKept
<1> QED BY <1>4, <1>5, <1>6, <1>7, <1>8, <1>9, <1>10 DEF Inv

\* The same for a step without the scheduler, by a thread that does not sleep
LEMMA ProgressInv ==
    ASSUME Inv, UNCHANGED schedVars, UNCHANGED procVars, UNCHANGED child,
           NEW t \in Threads, state[t] = "RUNNING", pc[t] # "exit", ~ Sleeps(t),
           NEW l \in Labels, l \notin Runs, l # "setup", pc' = [pc EXCEPT ![t] = l],
           walk' \in [Threads -> WalkType], irqoff' \in [Threads -> BOOLEAN],
           \A u \in Threads : u # t => walk'[u] = walk[u] /\ irqoff'[u] = irqoff[u],
           l \in Walking => OnList(t)',
           NoNew => Kills(t)'
    PROVE  Inv'
<1>1. SchedInv /\ Types /\ ChildInv
    BY DEF Inv
<1>2. SchedInv' /\ state' = state
    BY <1>1, SchedStutterInv DEF schedVars
<1>3. Types'
    BY <1>1 DEF Types, procVars
<1>4. Onward
    BY <1>2, SameOnward
<1>5. \A u \in Threads : pc'[u] = IF u = t THEN l ELSE pc[u]
    BY <1>1 DEF Types
<1>6. \A u \in Threads : NoWake /\ Sleeps(u) => Sleeps(u)'
    BY <1>2, <1>5 DEF Sleeps
<1>7. \A u \in Threads : u # t /\ pc[u] \in Runs /\ NoWake => state'[child[u]] = "UNSCHDED"
    BY <1>1, <1>2 DEF ChildInv
<1> QED BY <1>2, <1>3, <1>4, <1>6, <1>7, GoOnInv

\* The loader of a process fails for lack of memory.
LEMMA setup_failsInv ==
    ASSUME Inv, NEW t \in Threads, At(t, "setup"), Goto(t, "exit"),
           UNCHANGED <<schedVars, procVars, child, walk, irqoff>>
    PROVE  Inv'
<1>1. /\ state[t] = "RUNNING" /\ pc[t] = "setup" /\ pc' = [pc EXCEPT ![t] = "exit"]
      /\ UNCHANGED walk /\ UNCHANGED irqoff
    BY DEF At, Goto
<1>2. pc'[t] = "exit" /\ walk' \in [Threads -> WalkType] /\ irqoff' \in [Threads -> BOOLEAN]
    BY <1>1 DEF Inv, Types
<1>3. ~ Sleeps(t) /\ Kills(t)'
    BY <1>1, <1>2 DEF Sleeps, Kills, Walking
<1> QED BY <1>1, <1>2, <1>3, ProgressInv DEF Labels, Runs, Walking

LEMMA create_returnInv == ASSUME Inv, NEW t \in Threads, create_return(t) PROVE Inv'
<1>1. /\ state[t] = "RUNNING" /\ pc[t] = "waiting" /\ pc' = [pc EXCEPT ![t] = "user"]
      /\ UNCHANGED walk /\ irqoff' = [irqoff EXCEPT ![t] = FALSE]
      /\ UNCHANGED schedVars /\ UNCHANGED procVars /\ UNCHANGED child
    BY DEF create_return, At, Goto
<1>2. /\ pc'[t] = "user" /\ walk' \in [Threads -> WalkType] /\ irqoff' \in [Threads -> BOOLEAN]
      /\ \A u \in Threads : u # t => irqoff'[u] = irqoff[u]
    BY <1>1 DEF Inv, Types
<1>3. ~ Sleeps(t) /\ Kills(t)'
    BY <1>1, <1>2 DEF Sleeps, Kills, Walking
<1> QED BY <1>1, <1>2, <1>3, ProgressInv DEF Labels, Runs, Walking

\* schd_run of the thread that t created.  Nobody who sleeps for a process is
\* woken up by it, because such a thread was run before.
LEMMA RunChildInv ==
    ASSUME Inv, NEW t \in Threads, state[t] = "RUNNING", pc[t] \in Runs,
           NEW l \in {"user", "exit", "create_block"}, RunChild(t, l),
           pc[t] = "create_run_wait" => l = "create_block"
    PROVE  Inv'
<1> DEFINE u == child[t]
<1>1. SchedInv /\ Types /\ ChildInv /\ StartInv
    BY DEF Inv
<1>2. u \in Threads /\ proc[u] # NULL /\ (NoWake => state[u] = "UNSCHDED")
    BY <1>1 DEF ChildInv
<1>3. /\ Run(u) /\ child' = [child EXCEPT ![t] = NULL] /\ pc' = [pc EXCEPT ![t] = l]
      /\ UNCHANGED procVars /\ UNCHANGED walk /\ UNCHANGED irqoff
    BY DEF RunChild, Goto
<1> HIDE DEF u
<1>4. SchedInv' /\ state[u] \in {"UNSCHDED", "BLOCKED"}
    BY <1>1, <1>2, <1>3, RunStates
<1>5. \A v \in Threads : state'[v] = IF v = u THEN "RUNNABEL" ELSE state[v]
    BY <1>1, <1>2, <1>3, RunStates
<1>6. Onward
    <2> SUFFICES ASSUME NEW v \in Threads
                 PROVE  /\ state[v] = "KILLED" => state'[v] = "KILLED"
                        /\ state[v] # "UNSCHDED" => state'[v] # "UNSCHDED"
        BY DEF Onward
    <2>1. CASE v = u
        BY <1>4, <1>5, <2>1
    <2>2. CASE v # u
        BY <1>5, <2>2
    <2> QED BY <2>1, <2>2
<1>7. \A v \in Threads : pc'[v] = IF v = t THEN l ELSE pc[v]
    BY <1>1, <1>3 DEF Types
<1>8. Types'
    <2>1. pc' \in [Threads -> Labels] /\ child' \in [Threads -> Threads \cup {NULL}]
        BY <1>1, <1>3 DEF Types, Labels
    <2> QED BY <1>1, <1>3, <2>1 DEF Types, procVars
<1>9. \A v \in Threads : v # t /\ pc[v] \in Runs /\ NoWake => state'[child[v]] = "UNSCHDED"
    BY <1>1, <1>5 DEF ChildInv, u
<1>10. \A v \in Threads : NoWake /\ Sleeps(v) => Sleeps(v)'
    <2> SUFFICES ASSUME NEW v \in Threads, NoWake, Sleeps(v) PROVE Sleeps(v)'
        OBVIOUS
    <2>1. state[v] \in {"RUNNING", "BLOCKED"}
        BY DEF Sleeps
    <2>2. v # u /\ state'[v] = state[v]
        BY <1>2, <1>5, <2>1
    <2>3. CASE v = t
        BY <2>2, <2>3, <1>3, <1>7 DEF Sleeps, Runs
    <2>4. CASE v # t
        BY <2>2, <2>4, <1>3, <1>7 DEF Sleeps
    <2> QED BY <2>3, <2>4
<1>11. Kills(t)' /\ l \notin Walking /\ l \notin Runs /\ l # "setup" /\ l \in Labels /\ pc[t] # "exit"
    <2>1. l \notin Walking /\ l \notin Runs /\ l # "setup" /\ l \in Labels /\ pc[t] # "exit" /\ l # "exit_wake"
        BY DEF Walking, Runs, Labels
    <2>2. pc'[t] = l
        BY <1>7
    <2> QED BY <2>1, <2>2 DEF Kills
<1>12. \A v \in Threads : v # t => child'[v] = child[v] /\ walk'[v] = walk[v]
    BY <1>1, <1>3 DEF Types
<1>13. \A v \in Threads : state'[v] # state[v] => proc[v] # NULL
    BY <1>2, <1>5
<1> QED BY <1>3, <1>4, <1>6, <1>8, <1>9, <1>10, <1>11, <1>12, <1>13, GoOnInv

LEMMA create_blockInv == ASSUME Inv, NEW t \in Threads, create_block(t) PROVE Inv'
<1>1. /\ state[t] = "RUNNING" /\ pc[t] = "create_block" /\ pc' = [pc EXCEPT ![t] = "waiting"]
      /\ Block(CPU(t)) /\ UNCHANGED procVars /\ UNCHANGED child /\ UNCHANGED walk
      /\ UNCHANGED irqoff
    BY DEF create_block, At, Goto
<1>2. SchedInv /\ Types /\ ChildInv
    BY DEF Inv
<1>3. CPU(t) \in CPUs /\ cur[CPU(t)] = t
    BY <1>1, <1>2, OnCPU
<1>4. SchedInv'
    BY <1>1, <1>2, <1>3, BlockStates
<1>5. \A v \in Threads : state'[v] = IF v = t THEN "BLOCKED" ELSE state[v]
    BY <1>1, <1>2, <1>3, BlockStates
<1>6. Onward
    BY <1>1, <1>5 DEF Onward
<1>7. \A v \in Threads : pc'[v] = IF v = t THEN "waiting" ELSE pc[v]
    BY <1>1, <1>2 DEF Types
<1>8. Types'
    <2>1. pc' \in [Threads -> Labels]
        BY <1>1, <1>2 DEF Types, Labels
    <2> QED BY <1>1, <1>2, <2>1 DEF Types, procVars
<1>9. \A v \in Threads : v # t /\ pc[v] \in Runs /\ NoWake => state'[child[v]] = "UNSCHDED"
    BY <1>1, <1>2, <1>5 DEF ChildInv
<1>10. \A v \in Threads : NoWake /\ Sleeps(v) => Sleeps(v)'
    BY <1>1, <1>5, <1>7 DEF Sleeps
<1>11. Kills(t)' /\ proc[t] # NULL
    BY <1>1, <1>7, HasProc DEF Kills, Walking
<1>12. \A v \in Threads : state'[v] # state[v] => proc[v] # NULL
    BY <1>5, <1>11
<1> QED BY <1>1, <1>4, <1>6, <1>8, <1>9, <1>10, <1>11, <1>12, GoOnInv DEF Labels, Runs, Walking

-----------------------------------------------------------------------------
(***************************************************************************)
(* The walk of proc_sys_exit and proc_sys_kill                             *)
(***************************************************************************)

LEMMA NextOfType ==
    ASSUME Types, NEW p \in Procs, NEW i \in 0 .. Len(thread_ls[p])
    PROVE  NextOf(p, i) \in 0 .. Len(thread_ls[p])
<1>1. Len(thread_ls[p]) \in Nat
    BY DEF Types
<1> QED BY <1>1 DEF NextOf

LEMMA BeginInv ==
    ASSUME Inv, NEW t \in Threads, state[t] = "RUNNING", pc[t] = "user",
           NEW p \in Procs, thread_ls[p] # <<>>, Begin(t, p), Goto(t, "walk"),
           UNCHANGED <<schedVars, procVars, child, irqoff>>
    PROVE  Inv'
<1> DEFINE w == [of |-> p, p |-> 1, pp |-> NextOf(p, 1)]
<1>1. Types
    BY DEF Inv
<1>2. 1 \in 0 .. Len(thread_ls[p])
    BY <1>1, QueueEmpty DEF Types
<1>3. NextOf(p, 1) \in 0 .. Len(thread_ls[p])
    BY <1>1, <1>2, NextOfType
<1>4. w \in WalkType
    BY <1>3 DEF WalkType
<1>5. w.of = p /\ w.p = 1 /\ w.pp = NextOf(p, 1)
    OBVIOUS
<1>6. walk' = [walk EXCEPT ![t] = w] /\ pc' = [pc EXCEPT ![t] = "walk"]
    BY DEF Begin, Goto
<1> HIDE DEF w
<1>7. /\ walk'[t] = w /\ walk' \in [Threads -> WalkType]
      /\ \A u \in Threads : u # t => walk'[u] = walk[u]
    BY <1>1, <1>4, <1>6 DEF Types
<1>8. /\ pc'[t] = "walk" /\ irqoff' \in [Threads -> BOOLEAN]
      /\ thread_ls' = thread_ls /\ irqoff' = irqoff
    BY <1>1, <1>6 DEF Types, procVars
<1>9. OnList(t)'
    BY <1>2, <1>3, <1>5, <1>7, <1>8 DEF OnList
<1>10. Kills(t)'
    <2>1. Passed(t)'
        BY <1>5, <1>7 DEF Passed
    <2> QED BY <2>1, <1>5, <1>7, <1>8 DEF Kills, NextOf
<1>11. ~ Sleeps(t)
    BY DEF Sleeps
<1> QED BY <1>6, <1>7, <1>8, <1>9, <1>10, <1>11, ProgressInv DEF Labels, Runs, Walking

LEMMA proc_sys_exitInv == ASSUME Inv, NEW t \in Threads, proc_sys_exit(t) PROVE Inv'
<1>1. /\ state[t] = "RUNNING" /\ pc[t] = "user" /\ Begin(t, proc[t]) /\ Goto(t, "walk")
      /\ UNCHANGED <<schedVars, procVars, child, irqoff>>
    BY DEF proc_sys_exit, Calling, At
<1>2. proc[t] \in Procs /\ InQueue(thread_ls[proc[t]], t)
    BY <1>1, HasProc
<1>3. thread_ls[proc[t]] # <<>>
    BY <1>2, QueueEmpty DEF InQueue
<1> QED BY <1>1, <1>2, <1>3, BeginInv

LEMMA proc_sys_killInv == ASSUME Inv, NEW t \in Threads, proc_sys_kill(t) PROVE Inv'
<1>1. /\ state[t] = "RUNNING" /\ pc[t] = "user" /\ Goto(t, "walk")
      /\ UNCHANGED <<schedVars, procVars, child, irqoff>>
    BY DEF proc_sys_kill, Calling, At
<1>2. PICK p \in Procs : thread_ls[p] # <<>> /\ Begin(t, p)
    BY DEF proc_sys_kill
<1> QED BY <1>1, <1>2, BeginInv

\* A walk stands on a thread; when that is the walking thread itself, or killed,
\* the walk can go past it.
LEMMA VictimType ==
    ASSUME Inv, NEW t \in Threads, pc[t] \in Walking, walk[t].p # 0
    PROVE  Victim(t) \in Threads /\ proc[Victim(t)] = walk[t].of /\ walk[t].of \in Procs
<1>1. /\ walk[t].of \in Procs /\ walk[t].p \in 1 .. Len(thread_ls[walk[t].of])
      /\ thread_ls[walk[t].of] \in Seq(Threads)
    BY DEF Inv, Types, WalkInv, OnList
<1>2. Victim(t) \in Threads /\ InQueue(thread_ls[walk[t].of], Victim(t))
    BY <1>1 DEF Victim, InQueue
<1> QED BY <1>1, <1>2 DEF Inv, ListInv

LEMMA Advances ==
    ASSUME Inv, NEW t \in Threads, pc[t] \in Walking, walk[t].p # 0, Advance(t), pc'[t] = "walk",
           UNCHANGED <<machine, proc, thread_ls>>, Onward,
           Victim(t) = t \/ state'[Victim(t)] = "KILLED"
    PROVE  /\ walk' \in [Threads -> WalkType]
           /\ \A u \in Threads : u # t => walk'[u] = walk[u]
           /\ OnList(t)'
           /\ NoNew => Kills(t)'
<1> DEFINE ls == thread_ls[walk[t].of]
           n == NextOf(walk[t].of, walk[t].pp)
<1>1. Types /\ WalkInv /\ KillsInv
    BY DEF Inv
<1>2. /\ walk[t].of \in Procs /\ walk[t].p \in 1 .. Len(ls) /\ walk[t].pp \in 0 .. Len(ls)
      /\ ls \in Seq(Threads)
    BY <1>1 DEF Types, WalkInv, OnList
<1>3. n \in 0 .. Len(ls) /\ Len(ls) \in Nat
    BY <1>1, <1>2, NextOfType
<1> DEFINE w == [of |-> walk[t].of, p |-> walk[t].pp, pp |-> n]
<1>4. w.of = walk[t].of /\ w.p = walk[t].pp /\ w.pp = n
    OBVIOUS
<1>5. w \in WalkType
    <2>1. walk[t].pp \in Nat /\ n \in Nat
        <3>1. ASSUME NEW k \in Nat PROVE 0 .. k \subseteq Nat
            BY <3>1
        <3> QED BY <1>2, <1>3, <3>1
    <2> HIDE DEF n
    <2> QED BY <1>2, <2>1 DEF WalkType
<1>6. walk' = [walk EXCEPT ![t] = w]
    BY DEF Advance
<1> HIDE DEF w
<1>7. /\ walk' \in [Threads -> WalkType] /\ walk'[t] = w
      /\ \A u \in Threads : u # t => walk'[u] = walk[u]
    BY <1>1, <1>5, <1>6 DEF Types
<1> HIDE DEF n
<1>8. OnList(t)'
    <2>1. thread_ls' = thread_ls /\ pc'[t] # "kill"
        OBVIOUS
    <2>2. w.of \in Procs /\ w.p \in 0 .. Len(thread_ls[w.of]) /\ w.pp \in 0 .. Len(thread_ls[w.of])
        BY <1>2, <1>3, <1>4
    <2> QED BY <1>7, <2>1, <2>2 DEF OnList
<1>9. ASSUME NoNew, walk[t].of = proc[t]
      PROVE  Passed(t)'
    <2>1. walk[t].pp = NextOf(walk[t].of, walk[t].p) /\ Passed(t)
        BY <1>1, <1>9 DEF KillsInv, Kills
    <2>2. \A i \in 1 .. Len(ls) : walk[t].pp = 0 \/ i < walk[t].pp => i < walk[t].p \/ i = walk[t].p
        BY <2>1, <1>2, <1>3 DEF NextOf
    <2>3. \A i \in 1 .. Len(ls) : ls[i] \in Threads
        BY <1>2
    <2>4. ASSUME NEW i \in 1 .. Len(ls), walk[t].pp = 0 \/ i < walk[t].pp
          PROVE  ls[i] = t \/ state'[ls[i]] = "KILLED"
        <3>1. CASE i = walk[t].p
            BY <3>1 DEF Victim
        <3>2. CASE i < walk[t].p
            <4>1. ls[i] = t \/ state[ls[i]] = "KILLED"
                BY <2>1, <2>4, <3>2 DEF Passed
            <4> QED BY <2>3, <2>4, <4>1 DEF Onward
        <3> QED BY <2>2, <2>4, <3>1, <3>2
    <2>5. thread_ls' = thread_ls /\ walk'[t].of = walk[t].of /\ walk'[t].p = walk[t].pp
        BY <1>4, <1>7
    <2> QED BY <2>4, <2>5 DEF Passed
<1>10. ASSUME NoNew PROVE Kills(t)'
    <2>1. thread_ls' = thread_ls /\ proc' = proc /\ pc'[t] # "exit_wake"
        OBVIOUS
    <2>2. walk'[t].of = walk[t].of /\ walk'[t].p = walk[t].pp /\ walk'[t].pp = n
        BY <1>4, <1>7
    <2>3. walk'[t].pp = NextOf(walk[t].of, walk[t].p)'
        BY <2>1, <2>2 DEF n, NextOf
    <2> QED BY <1>9, <1>10, <2>1, <2>2, <2>3 DEF Kills
<1> QED BY <1>7, <1>8, <1>10

LEMMA walk_testInv == ASSUME Inv, NEW t \in Threads, walk_test(t) PROVE Inv'
<1>1. /\ state[t] = "RUNNING" /\ pc[t] = "walk" /\ UNCHANGED schedVars /\ UNCHANGED procVars
      /\ UNCHANGED child /\ UNCHANGED irqoff
    BY DEF walk_test, At
<1>2. Types /\ ListInv /\ WalkInv /\ KillsInv
    BY DEF Inv
<1>3. /\ UNCHANGED <<machine, proc, thread_ls>> /\ state' = state /\ irqoff' \in [Threads -> BOOLEAN]
      /\ \A u \in Threads : irqoff'[u] = irqoff[u]
    BY <1>1, <1>2 DEF procVars, schedVars, Types
<1>4. ~ Sleeps(t) /\ pc[t] # "exit" /\ pc[t] \in Walking /\ Onward /\ OnList(t)
    BY <1>1, <1>2, <1>3, SameOnward DEF Sleeps, Walking, WalkInv
<1>5. CASE /\ walk[t].p = 0 /\ UNCHANGED walk
           /\ Goto(t, IF walk[t].of = proc[t] THEN "exit_wake" ELSE "user")
    <2> DEFINE l == IF walk[t].of = proc[t] THEN "exit_wake" ELSE "user"
    <2>1. pc' = [pc EXCEPT ![t] = l] /\ pc'[t] = l
        BY <1>2, <1>5 DEF Goto, Types
    <2>2. l \in Labels /\ l \notin Runs /\ l # "setup" /\ l \notin Walking
        BY DEF Labels, Runs, Walking
    <2>3. ASSUME NoNew, l = "exit_wake", NEW u \in Threads, proc[u] = proc[t], u # t
          PROVE  state'[u] = "KILLED"
        <3>1. walk[t].of = proc[t] /\ walk[t].of \in Procs /\ Passed(t)
            BY <2>3, <1>2, <1>4 DEF KillsInv, Kills, OnList
        <3>2. InQueue(thread_ls[walk[t].of], u)
            BY <2>3, <3>1, <1>2 DEF ListInv
        <3>3. PICK i \in 1..Len(thread_ls[walk[t].of]) : thread_ls[walk[t].of][i] = u
            BY <3>2 DEF InQueue
        <3>4. u = t \/ state[u] = "KILLED"
            BY <3>1, <3>3, <1>5 DEF Passed
        <3> QED BY <2>3, <3>4, <1>3
    <2> HIDE DEF l
    <2>4. NoNew => Kills(t)'
        BY <2>1, <2>2, <2>3, <1>3 DEF Kills
    <2>5. walk' \in [Threads -> WalkType] /\ \A u \in Threads : walk'[u] = walk[u]
        BY <1>2, <1>5 DEF Types
    <2> QED BY <1>1, <1>3, <1>4, <2>1, <2>2, <2>4, <2>5, ProgressInv
<1>6. CASE /\ walk[t].p # 0 /\ (Victim(t) = t \/ state[Victim(t)] = "KILLED")
           /\ Advance(t) /\ UNCHANGED pc
    <2>1. pc' = [pc EXCEPT ![t] = "walk"] /\ pc'[t] = "walk"
        BY <1>1, <1>2, <1>6 DEF Types
    <2>2. /\ walk' \in [Threads -> WalkType] /\ OnList(t)' /\ (NoNew => Kills(t)')
          /\ \A u \in Threads : u # t => walk'[u] = walk[u]
        BY <1>3, <1>4, <1>6, <2>1, Advances
    <2> QED BY <1>1, <1>3, <1>4, <2>1, <2>2, ProgressInv DEF Labels, Runs, Walking
<1>7. CASE walk[t].p # 0 /\ Goto(t, "kill") /\ UNCHANGED walk
    <2>1. pc' = [pc EXCEPT ![t] = "kill"] /\ pc'[t] = "kill"
        BY <1>2, <1>7 DEF Goto, Types
    <2>2. walk' \in [Threads -> WalkType] /\ \A u \in Threads : walk'[u] = walk[u]
        BY <1>2, <1>7 DEF Types
    <2>3. OnList(t)'
        BY <1>3, <1>4, <1>7, <2>2 DEF OnList
    <2>4. NoNew => Kills(t)'
        <3>1. walk'[t] = walk[t] /\ (NoNew => Kills(t))
            BY <1>2, <2>2 DEF KillsInv
        <3>2. Passed(t) => Passed(t)'
            BY <3>1, <1>3 DEF Passed
        <3> QED BY <1>3, <1>4, <2>1, <3>1, <3>2 DEF Kills, NextOf
    <2> QED BY <1>1, <1>3, <1>4, <2>1, <2>2, <2>3, <2>4, ProgressInv DEF Labels, Runs, Walking
<1> QED BY <1>5, <1>6, <1>7 DEF walk_test

\* schd_kill of a RUNNABEL thread, which sleeps for no process
LEMMA walk_killInv == ASSUME Inv, NEW t \in Threads, walk_kill(t) PROVE Inv'
<1> DEFINE v == Victim(t)
<1>1. state[t] = "RUNNING" /\ pc[t] = "kill"
    BY DEF walk_kill, At
<1>2. CASE \E what : Fail(what)
    BY <1>2, FailInv
<1>3. CASE /\ state[v] = "RUNNABEL" /\ Kill(v) /\ Advance(t) /\ Goto(t, "walk")
           /\ UNCHANGED <<procVars, child, irqoff, failed>>
    <2>1. SchedInv /\ Types /\ ChildInv /\ WalkInv
        BY DEF Inv
    <2>2. pc[t] \in Walking /\ walk[t].p # 0 /\ pc[t] \notin Runs /\ pc[t] # "exit"
        BY <1>1, <2>1 DEF Walking, WalkInv, OnList, Runs
    <2>3. v \in Threads /\ proc[v] # NULL
        BY <2>2, VictimType
    <2>4. SchedInv' /\ state' = [state EXCEPT ![v] = "KILLED"]
        BY <1>3, <2>1, <2>3, KillInv DEF Moves
    <2> HIDE DEF v
    <2>5. \A u \in Threads : state'[u] = IF u = v THEN "KILLED" ELSE state[u]
        BY <2>1, <2>3, <2>4, StatesAfter
    <2>6. Onward
        BY <2>5 DEF Onward
    <2>7. /\ pc' = [pc EXCEPT ![t] = "walk"] /\ UNCHANGED <<machine, proc, thread_ls>>
          /\ UNCHANGED <<wait_t, exited, child, irqoff>>
        BY <1>3 DEF Goto, procVars
    <2>8. \A u \in Threads : pc'[u] = IF u = t THEN "walk" ELSE pc[u]
        BY <2>1, <2>7 DEF Types
    <2>9. state'[v] = "KILLED"
        BY <2>3, <2>5
    <2>10. /\ walk' \in [Threads -> WalkType] /\ OnList(t)' /\ (NoNew => Kills(t)')
           /\ \A u \in Threads : u # t => walk'[u] = walk[u]
        BY <1>3, <2>2, <2>6, <2>7, <2>8, <2>9, Advances DEF v
    <2>11. Types'
        <3>1. pc' \in [Threads -> Labels]
            BY <2>1, <2>7 DEF Types, Labels, Walking
        <3> QED BY <2>1, <2>7, <2>10, <3>1 DEF Types
    <2>12. \A u \in Threads : u # t /\ pc[u] \in Runs /\ NoWake => state'[child[u]] = "UNSCHDED"
        BY <1>3, <2>1, <2>5 DEF ChildInv
    <2>13. \A u \in Threads : NoWake /\ Sleeps(u) => Sleeps(u)' \/ state'[u] = "KILLED"
        BY <1>1, <2>5, <2>7, <2>8 DEF Sleeps
    <2>14. \A u \in Threads : state'[u] # state[u] => proc[u] # NULL
        BY <2>3, <2>5
    <2>15. UNCHANGED procVars /\ \A u \in Threads : u # t => child'[u] = child[u] /\ walk'[u] = walk[u]
        BY <1>3, <2>7, <2>10
    <2> QED BY <1>1, <2>2, <2>4, <2>6, <2>7, <2>10, <2>11, <2>12, <2>13, <2>14, <2>15, GoOnInv
            DEF Labels, Runs, Walking
<1> QED BY <1>2, <1>3 DEF walk_kill

-----------------------------------------------------------------------------
(***************************************************************************)
(* The end of proc_sys_exit: the waiting creator is woken up.              *)
(***************************************************************************)

\* The creator, if there is one, is woken up from a sleep.
LEMMA WakeUp ==
    ASSUME Inv, NEW w \in Threads \cup {NULL}, w # NULL => state[w] # "UNSCHDED",
           IF w = NULL THEN UNCHANGED schedVars ELSE Run(w)
    PROVE  /\ SchedInv' /\ Onward
           /\ w # NULL => state[w] = "BLOCKED" /\ proc[w] # NULL
           /\ \A u \in Threads : u # w => state'[u] = state[u]
<1>1. SchedInv
    BY DEF Inv
<1>2. CASE w = NULL
    <2>1. SchedInv' /\ state' = state
        BY <1>1, <1>2, SchedStutterInv DEF schedVars
    <2> QED BY <1>2, <2>1, SameOnward
<1>3. CASE w # NULL
    <2>1. w \in Threads /\ SchedInv' /\ state[w] = "BLOCKED"
        BY <1>1, <1>3, RunStates
    <2>2. \A u \in Threads : state'[u] = IF u = w THEN "RUNNABEL" ELSE state[u]
        BY <1>1, <1>3, RunStates
    <2>3. Onward
        BY <2>1, <2>2 DEF Onward
    <2>4. proc[w] # NULL
        BY <2>1, HasProc
    <2> QED BY <2>1, <2>2, <2>3, <2>4
<1> QED BY <1>2, <1>3

LEMMA exit_wakeInv == ASSUME Inv, NEW t \in Threads, exit_wake(t) PROVE Inv'
<1> DEFINE q == proc[t]
           w == wait_t[q]
<1>1. CASE Fail("schd_run")
    BY <1>1, FailInv
<1>2. CASE /\ IF w = NULL THEN UNCHANGED schedVars ELSE Run(w)
           /\ exited' = exited \cup {q}
           /\ Goto(t, "exit")
           /\ UNCHANGED <<machine, proc, thread_ls, wait_t, child, walk, irqoff, failed>>
    <2>1. state[t] = "RUNNING" /\ pc[t] = "exit_wake"
        BY DEF exit_wake, At
    <2>2. /\ SchedInv /\ Types /\ ListInv /\ StartInv /\ ChildInv /\ SetupInv /\ WalkInv
          /\ KillsInv /\ ExitedInv /\ WaitInv
        BY DEF Inv
    <2>3. q \in Procs /\ thread_ls[q] # <<>>
        BY <2>1, HasProc, QueueEmpty DEF InQueue
    <2>4. w \in Threads \cup {NULL} /\ (w # NULL => state[w] # "UNSCHDED")
        BY <2>2, <2>3 DEF Types, StartInv
    <2> HIDE DEF w
    <2>5. /\ SchedInv' /\ Onward
          /\ w # NULL => state[w] = "BLOCKED" /\ proc[w] # NULL
          /\ \A u \in Threads : u # w => state'[u] = state[u]
        BY <1>2, <2>4, WakeUp
    <2>6. /\ pc' = [pc EXCEPT ![t] = "exit"] /\ UNCHANGED <<machine, proc, thread_ls>>
          /\ UNCHANGED <<wait_t, child, walk, irqoff>> /\ exited' = exited \cup {q}
        BY <1>2 DEF Goto
    <2>7. \A u \in Threads : pc'[u] = IF u = t THEN "exit" ELSE pc[u]
        BY <2>2, <2>6 DEF Types
    <2>8. Types'
        <3>1. pc' \in [Threads -> Labels]
            BY <2>2, <2>6 DEF Types, Labels
        <3> QED BY <2>2, <2>3, <2>6, <3>1 DEF Types
    <2>9. StartInv'
        <3>1. \A u \in Threads : state'[u] # state[u] => proc[u] # NULL
            BY <2>5
        <3>2. \A u \in Threads : state'[u] = "UNSCHDED" => pc'[u] = pc[u]
            BY <2>1, <2>5, <2>7 DEF Onward
        <3> QED BY <2>2, <2>5, <2>6, <3>1, <3>2, StartKept
    <2>10. ChildInv'
        <3>1. \A u \in Threads : pc[u] \in Runs /\ NoWake => state'[child[u]] = "UNSCHDED"
            BY <2>2, <2>4, <2>5 DEF ChildInv
        <3>2. \A u \in Threads : pc'[u] \in Runs => pc[u] \in Runs
            BY <2>7 DEF Runs
        <3> QED BY <2>2, <2>6, <3>1, <3>2, ChildKept
    <2>11. ListInv' /\ SetupInv'
        BY <2>2, <2>6, <2>7, ListKept, SetupKept
    <2>12. WalkInv'
        BY <2>2, <2>6, <2>7, WalkKept DEF Walking
    <2>13. KillsInv'
        <3>1. Kills(t)'
            BY <2>7 DEF Kills, Walking
        <3> QED BY <2>2, <2>5, <2>6, <2>7, <3>1, KillsKept
    <2>14. ASSUME NoNew, NEW u \in Threads, proc[u] = q, u # t
           PROVE  state[u] = "KILLED"
        BY <2>14, <2>1, <2>2 DEF KillsInv, Kills
    <2> HIDE DEF q
    <2>15. ExitedInv'
        <3>1. ASSUME NEW p \in exited
              PROVE  /\ thread_ls[p] # <<>>
                     /\ NoNew => \A u \in Threads : proc[u] = p /\ state[u] # "KILLED" =>
                            /\ pc[u] = "exit"
                            /\ \A v \in Threads : proc[v] = p /\ state[v] # "KILLED" => v = u
            BY <3>1, <2>2 DEF ExitedInv
        <3>2. \A u \in Threads : state'[u] # "KILLED" => state[u] # "KILLED"
            BY <2>5 DEF Onward
        <3>3. ASSUME NoNew, NEW p \in exited', NEW u \in Threads, proc[u] = p, state'[u] # "KILLED",
                     NEW v \in Threads, proc[v] = p, state'[v] # "KILLED"
              PROVE  pc'[u] = "exit" /\ v = u
            BY <3>1, <3>2, <3>3, <2>6, <2>7, <2>14
        <3>4. \A p \in exited' : thread_ls[p] # <<>>
            BY <3>1, <2>3, <2>6
        <3> QED BY <3>3, <3>4, <2>6 DEF ExitedInv, NoNew
    <2>16. NoNew => q \notin exited
        BY <2>1, <2>2 DEF ExitedInv, q
    <2>17. WaitInv'
        <3> SUFFICES ASSUME NoWake, NEW x \in Threads, NEW p \in Procs, WaitsFor(x, p)'
                     PROVE  /\ Sleeps(x)' \/ (~ NoNew /\ \E r \in exited' : wait_t[r] = x)
                            /\ NoNew => \A r \in Procs : WaitsFor(x, r)' => r = p
            BY <2>6 DEF WaitInv, NoWake, NoNew
        <3>1. \A r \in Procs : WaitsFor(x, r)' => WaitsFor(x, r) /\ r # q
            BY <2>5, <2>6 DEF WaitsFor, Onward
        <3>2. /\ Sleeps(x) \/ (~ NoNew /\ \E r \in exited : wait_t[r] = x)
              /\ NoNew => \A r \in Procs : WaitsFor(x, r) => r = p
            BY <3>1, <2>2 DEF WaitInv
        <3>3. CASE x = w
            <4>1. x # NULL /\ wait_t[q] = x /\ state[x] # "KILLED"
                BY <3>3, <2>5 DEF w
            <4>2. ~ NoNew
                BY <4>1, <3>1, <3>2, <2>3, <2>16 DEF WaitsFor
            <4> QED BY <4>1, <4>2, <2>6
        <3>4. CASE x # w
            <4>1. state'[x] = state[x]
                BY <3>4, <2>5
            <4>2. Sleeps(x) => Sleeps(x)'
                BY <4>1, <2>1, <2>6, <2>7 DEF Sleeps
            <4> QED BY <4>2, <3>1, <3>2, <2>6
        <3> QED BY <3>3, <3>4
    <2> QED BY <2>5, <2>8, <2>9, <2>10, <2>11, <2>12, <2>13, <2>15, <2>17 DEF Inv
<1> QED BY <1>1, <1>2 DEF exit_wake

-----------------------------------------------------------------------------
(***************************************************************************)
(* New threads and processes                                               *)
(***************************************************************************)

\* Thread t has put the new thread u on the list of process p.
Made(t, u, p, start, l) ==
    /\ state[t] = "RUNNING" /\ pc[t] \in {"user", "setup"}
    /\ state[u] = "UNSCHDED" /\ proc[u] = NULL
    /\ start \in {"user", "setup"} /\ l \in Runs
    /\ proc' = [proc EXCEPT ![u] = p]
    /\ thread_ls' = [thread_ls EXCEPT ![p] = Append(@, u)]
    /\ child' = [child EXCEPT ![t] = u]
    /\ pc' = [pc EXCEPT ![t] = l, ![u] = start]
    /\ UNCHANGED state /\ UNCHANGED <<machine, exited, walk>>

\* What changes, thread by thread and process by process
MadeAt(t, u, p, start, l) ==
    /\ u # t
    /\ \A v \in Threads : proc'[v] = IF v = u THEN p ELSE proc[v]
    /\ \A v \in Threads : child'[v] = IF v = t THEN u ELSE child[v]
    /\ \A v \in Threads : pc'[v] = IF v = u THEN start ELSE IF v = t THEN l ELSE pc[v]
    /\ \A q \in Procs : thread_ls'[q] = IF q = p THEN Append(thread_ls[p], u) ELSE thread_ls[q]
    /\ UNCHANGED state /\ UNCHANGED <<machine, exited, walk>>

LEMMA MadePointwise ==
    ASSUME Inv, NEW t \in Threads, NEW u \in Threads, NEW p \in Procs, NEW start, NEW l,
           Made(t, u, p, start, l)
    PROVE  MadeAt(t, u, p, start, l)
<1>1. Types
    BY DEF Inv
<1>2. u # t
    BY DEF Made
<1>3. \A v \in Threads : proc'[v] = IF v = u THEN p ELSE proc[v]
    BY <1>1 DEF Made, Types
<1>4. \A v \in Threads : child'[v] = IF v = t THEN u ELSE child[v]
    BY <1>1 DEF Made, Types
<1>5. \A v \in Threads : pc'[v] = IF v = u THEN start ELSE IF v = t THEN l ELSE pc[v]
    BY <1>1, <1>2 DEF Made, Types
<1>6. \A q \in Procs : thread_ls'[q] = IF q = p THEN Append(thread_ls[p], u) ELSE thread_ls[q]
    BY <1>1 DEF Made, Types
<1> QED BY <1>2, <1>3, <1>4, <1>5, <1>6 DEF Made, MadeAt

LEMMA MadeTypes ==
    ASSUME Inv, NEW t \in Threads, NEW u \in Threads, NEW p \in Procs, NEW start, NEW l,
           Made(t, u, p, start, l),
           wait_t' \in [Procs -> Threads \cup {NULL}], irqoff' \in [Threads -> BOOLEAN]
    PROVE  Types'
<1>1. Types
    BY DEF Inv
<1>2. proc' \in [Threads -> Procs \cup {NULL}] /\ child' \in [Threads -> Threads \cup {NULL}]
    BY <1>1 DEF Made, Types
<1>3. Append(thread_ls[p], u) \in Seq(Threads)
    BY <1>1 DEF Types
<1>4. thread_ls' \in [Procs -> Seq(Threads)]
    BY <1>1, <1>3 DEF Made, Types
<1>5. start \in Labels /\ l \in Labels
    BY DEF Made, Labels
<1>6. pc' \in [Threads -> Labels]
    BY <1>1, <1>5 DEF Made, Types
<1> QED BY <1>1, <1>2, <1>4, <1>6 DEF Made, Types

LEMMA MadeList ==
    ASSUME Inv, NEW t \in Threads, NEW u \in Threads, NEW p \in Procs, NEW start, NEW l,
           MadeAt(t, u, p, start, l), proc[u] = NULL
    PROVE  ListInv'
<1>1. ListInv /\ thread_ls[p] \in Seq(Threads)
    BY DEF Inv, Types
<1>2. NoDuplicates(thread_ls[p]) /\ ~ InQueue(thread_ls[p], u)
    BY <1>1 DEF ListInv
<1>3. /\ NoDuplicates(Append(thread_ls[p], u))
      /\ \A y : InQueue(Append(thread_ls[p], u), y) <=> InQueue(thread_ls[p], y) \/ y = u
    BY <1>1, <1>2, QueueAppend
<1>4. \A q \in Procs : NoDuplicates(thread_ls'[q])
    BY <1>1, <1>3 DEF MadeAt, ListInv
<1>5. ASSUME NEW q \in Procs, NEW v \in Threads
      PROVE  InQueue(thread_ls'[q], v) <=> proc'[v] = q
    <2>1. InQueue(thread_ls[q], v) <=> proc[v] = q
        BY <1>1 DEF ListInv
    <2>2. InQueue(thread_ls'[q], v) <=> InQueue(thread_ls[q], v) \/ (q = p /\ v = u)
        BY <1>3 DEF MadeAt
    <2>3. proc'[v] = IF v = u THEN p ELSE proc[v]
        BY DEF MadeAt
    <2> QED BY <2>1, <2>2, <2>3
<1> QED BY <1>4, <1>5 DEF ListInv

LEMMA MadeStart ==
    ASSUME Inv, NEW t \in Threads, NEW u \in Threads, NEW p \in Procs, NEW start, NEW l,
           MadeAt(t, u, p, start, l), start \in {"user", "setup"}, state[t] = "RUNNING",
           \A q \in Procs : wait_t'[q] \in {wait_t[q], t}
    PROVE  StartInv'
<1>1. /\ \A v \in Threads : proc[v] = NULL => state[v] = "UNSCHDED"
      /\ \A v \in Threads : state[v] = "UNSCHDED" => pc[v] \in {"user", "setup"}
      /\ \A q \in Procs : wait_t[q] # NULL => state[wait_t[q]] # "UNSCHDED"
    BY DEF Inv, StartInv
<1>2. /\ state' = state /\ \A v \in Threads : proc'[v] = IF v = u THEN p ELSE proc[v]
      /\ \A v \in Threads : pc'[v] = IF v = u THEN start ELSE IF v = t THEN l ELSE pc[v]
    BY DEF MadeAt
<1>3. p # NULL
    OBVIOUS
<1>4. \A v \in Threads : proc'[v] = NULL => state'[v] = "UNSCHDED"
    BY <1>1, <1>2, <1>3
<1>5. \A v \in Threads : state'[v] = "UNSCHDED" => pc'[v] \in {"user", "setup"}
    BY <1>1, <1>2
<1>6. \A q \in Procs : wait_t'[q] # NULL => state'[wait_t'[q]] # "UNSCHDED"
    BY <1>1, <1>2
<1> QED BY <1>4, <1>5, <1>6 DEF StartInv

LEMMA MadeChild ==
    ASSUME Inv, NEW t \in Threads, NEW u \in Threads, NEW p \in Procs, NEW start, NEW l,
           MadeAt(t, u, p, start, l), start \notin Runs, proc[u] = NULL, state[u] = "UNSCHDED",
           pc[t] \notin Runs
    PROVE  ChildInv'
<1>1. ChildInv
    BY DEF Inv
<1>2. \A v \in Threads : pc[v] \in Runs => child[v] \in Threads /\ child[v] # u
    BY <1>1 DEF ChildInv
<1>3. ASSUME NEW v \in Threads, pc'[v] \in Runs
      PROVE  \/ v = t /\ child'[v] = u
             \/ v # t /\ v # u /\ pc[v] \in Runs /\ child'[v] = child[v]
    BY <1>3 DEF MadeAt
<1>4. ASSUME NEW v \in Threads, pc'[v] \in Runs
      PROVE  /\ child'[v] \in Threads
             /\ proc'[child'[v]] # NULL
             /\ NoWake => state[child'[v]] = "UNSCHDED"
    <2>1. CASE v = t /\ child'[v] = u
        BY <2>1 DEF MadeAt
    <2>2. CASE pc[v] \in Runs /\ child'[v] = child[v]
        BY <2>2, <1>1, <1>2 DEF MadeAt, ChildInv
    <2> QED BY <1>3, <1>4, <2>1, <2>2
<1>5. ASSUME NEW v \in Threads, NEW x \in Threads, pc'[v] \in Runs, pc'[x] \in Runs,
             child'[v] = child'[x]
      PROVE  v = x
    BY <1>5, <1>1, <1>2, <1>3 DEF ChildInv
<1> QED BY <1>4, <1>5 DEF MadeAt, ChildInv, NoWake

\* Where a thread is made: in a new process, or in the process of t, by its loader
\* or by thread_sys_new.
Place(t, p, start) ==
    \/ thread_ls[p] = <<>>
    \/ p = proc[t] /\ start = "user" /\ (pc[t] = "user" => ~ NoNew)

\* Without thread_sys_new nobody but t is in the process that gets a thread.
LEMMA NobodyElse ==
    ASSUME Inv, NEW t \in Threads, NEW p \in Procs, NEW start, Place(t, p, start), NoNew,
           pc[t] \in {"user", "setup"}, NEW x \in Threads, proc[x] = p
    PROVE  x = t /\ pc[t] = "setup" /\ p = proc[t]
<1>1. InQueue(thread_ls[p], x)
    BY DEF Inv, ListInv
<1>2. thread_ls[p] # <<>>
    BY <1>1, QueueEmpty DEF InQueue
<1>3. p = proc[t] /\ pc[t] = "setup"
    BY <1>2 DEF Place
<1>4. thread_ls[p] = <<t>>
    BY <1>3 DEF Inv, SetupInv
<1> QED BY <1>1, <1>3, <1>4 DEF InQueue

LEMMA MadeSetup ==
    ASSUME Inv, NEW t \in Threads, NEW u \in Threads, NEW p \in Procs, NEW start, NEW l \in Runs,
           MadeAt(t, u, p, start, l), Place(t, p, start), state[t] = "RUNNING",
           start = "setup" => thread_ls[p] = <<>>
    PROVE  SetupInv'
<1> SUFFICES ASSUME NEW x \in Threads, pc'[x] = "setup"
             PROVE  proc'[x] \in Procs /\ thread_ls'[proc'[x]] = <<x>>
    BY DEF SetupInv
<1>1. CASE x = u
    <2>1. proc'[x] = p /\ thread_ls'[p] = Append(thread_ls[p], u) /\ thread_ls[p] = <<>>
        BY <1>1 DEF MadeAt
    <2>2. Append(<<>>, u) = <<u>>
        OBVIOUS
    <2> QED BY <1>1, <2>1, <2>2
<1>2. CASE x # u
    <2>1. x # t /\ pc[x] = "setup" /\ proc'[x] = proc[x]
        BY <1>2 DEF MadeAt, Runs
    <2>2. proc[x] \in Procs /\ thread_ls[proc[x]] = <<x>>
        BY <2>1 DEF Inv, SetupInv
    <2>3. ASSUME proc[x] = p PROVE FALSE
        <3>1. <<x>> # <<>>
            OBVIOUS
        <3>2. p = proc[t]
            BY <3>1, <2>2, <2>3 DEF Place
        <3>3. InQueue(thread_ls[proc[t]], t)
            BY HasProc
        <3>4. InQueue(<<x>>, t)
            BY <3>2, <3>3, <2>2, <2>3
        <3> QED BY <3>4, <2>1 DEF InQueue
    <2> QED BY <2>1, <2>2, <2>3 DEF MadeAt
<1> QED BY <1>1, <1>2

LEMMA MadeWalk ==
    ASSUME Inv, NEW t \in Threads, NEW u \in Threads, NEW p \in Procs, NEW start, NEW l,
           MadeAt(t, u, p, start, l), start \notin Walking, l \notin Walking
    PROVE  WalkInv'
<1> SUFFICES ASSUME NEW x \in Threads, pc'[x] \in Walking PROVE OnList(x)'
    BY DEF WalkInv
<1>1. pc'[x] = pc[x] /\ walk'[x] = walk[x] /\ pc[x] \in Walking
    BY DEF MadeAt
<1>2. OnList(x)
    BY <1>1 DEF Inv, WalkInv
<1>3. \A q \in Procs : Len(thread_ls[q]) \in Nat
    BY DEF Inv, Types
<1>4. Len(Append(thread_ls[p], u)) = Len(thread_ls[p]) + 1
    BY DEF Inv, Types
<1>5. \A q \in Procs : Len(thread_ls'[q]) \in {Len(thread_ls[q]), Len(thread_ls[q]) + 1}
    BY <1>4 DEF MadeAt
<1> DEFINE q == walk[x].of
           n == Len(thread_ls[q])
           k == Len(thread_ls'[q])
<1>6. /\ q \in Procs /\ walk[x].p \in 0 .. n /\ walk[x].pp \in 0 .. n
      /\ pc[x] = "kill" => walk[x].p # 0
    BY <1>2 DEF OnList
<1>7. n \in Nat /\ k \in {n, n + 1}
    BY <1>3, <1>5, <1>6
<1> HIDE DEF n, k
<1>8. walk[x].p \in 0 .. k /\ walk[x].pp \in 0 .. k
    BY <1>6, <1>7
<1> QED BY <1>1, <1>6, <1>8 DEF OnList, k

LEMMA MadeKills ==
    ASSUME Inv, NEW t \in Threads, NEW u \in Threads, NEW p \in Procs, NEW start, NEW l \in Runs,
           MadeAt(t, u, p, start, l), Place(t, p, start), pc[t] \in {"user", "setup"},
           start \in {"user", "setup"}
    PROVE  KillsInv'
<1>0. machine' = machine
    BY DEF MadeAt
<1> SUFFICES ASSUME NoNew, NEW x \in Threads PROVE Kills(x)'
    BY <1>0 DEF KillsInv, NoNew
<1>1. CASE x \in {t, u}
    <2>1. pc'[x] \in {l, start}
        BY <1>1 DEF MadeAt
    <2>2. pc'[x] \notin Walking /\ pc'[x] # "exit_wake"
        BY <2>1 DEF Runs, Walking
    <2> QED BY <2>2 DEF Kills
<1>2. CASE x \notin {t, u}
    <2>1. pc'[x] = pc[x] /\ walk'[x] = walk[x] /\ proc'[x] = proc[x] /\ proc[x] # p
        BY <1>2, NobodyElse DEF MadeAt
    <2>2. Kills(x)
        BY DEF Inv, KillsInv
    <2>3. ASSUME pc[x] \in Walking, walk[x].of = proc[x]
          PROVE  walk[x].pp = NextOf(walk[x].of, walk[x].p)' /\ Passed(x)'
        <3>1. walk[x].of \in Procs
            BY <2>3 DEF Inv, WalkInv, OnList
        <3>2. thread_ls'[walk[x].of] = thread_ls[walk[x].of] /\ state' = state
            BY <3>1, <2>1, <2>3 DEF MadeAt
        <3>3. walk[x].pp = NextOf(walk[x].of, walk[x].p) /\ Passed(x)
            BY <2>2, <2>3 DEF Kills
        <3>4. Passed(x)'
            BY <3>2, <3>3, <2>1 DEF Passed
        <3>5. NextOf(walk[x].of, walk[x].p)' = NextOf(walk[x].of, walk[x].p)
            BY <3>2, <2>1 DEF NextOf
        <3> QED BY <3>3, <3>4, <3>5
    <2>4. ASSUME pc[x] = "exit_wake", NEW v \in Threads, proc'[v] = proc[x], v # x
          PROVE  state'[v] = "KILLED"
        <3>1. v # u /\ proc[v] = proc[x] /\ state' = state
            BY <2>1, <2>4 DEF MadeAt
        <3> QED BY <2>2, <2>4, <3>1 DEF Kills
    <2>5. ASSUME pc'[x] \in Walking, walk'[x].of = proc'[x]
          PROVE  walk'[x].pp = NextOf(walk[x].of, walk[x].p)' /\ Passed(x)'
        BY <2>1, <2>3, <2>5
    <2>6. ASSUME pc'[x] = "exit_wake", NEW v \in Threads, proc'[v] = proc'[x], v # x
          PROVE  state'[v] = "KILLED"
        BY <2>1, <2>4, <2>6
    <2> QED BY <2>5, <2>6 DEF Kills
<1> QED BY <1>1, <1>2

LEMMA MadeExited ==
    ASSUME Inv, NEW t \in Threads, NEW u \in Threads, NEW p \in Procs, NEW start, NEW l,
           MadeAt(t, u, p, start, l), Place(t, p, start), pc[t] \in {"user", "setup"},
           state[t] = "RUNNING"
    PROVE  ExitedInv'
<1>1. ExitedInv
    BY DEF Inv
<1>2. Append(thread_ls[p], u) # <<>>
    <2>1. thread_ls[p] \in Seq(Threads)
        BY DEF Inv, Types
    <2> QED BY <2>1, QueueAppended
<1>3. \A q \in exited : q \in Procs /\ thread_ls'[q] # <<>>
    <2>1. \A q \in exited : q \in Procs /\ thread_ls[q] # <<>>
        BY <1>1 DEF Inv, Types, ExitedInv
    <2>2. \A q \in Procs : thread_ls'[q] = IF q = p THEN Append(thread_ls[p], u) ELSE thread_ls[q]
        BY DEF MadeAt
    <2> QED BY <1>2, <2>1, <2>2
<1>4. ASSUME NoNew, p \in exited PROVE FALSE
    <2>1. p = proc[t]
        BY <1>1, <1>4 DEF Place, ExitedInv
    <2> QED BY <2>1, <1>1, <1>4 DEF ExitedInv
<1>5. ASSUME NoNew, NEW q \in exited, NEW v \in Threads, proc'[v] = q, state'[v] # "KILLED",
             NEW x \in Threads, proc'[x] = q, state'[x] # "KILLED"
      PROVE  pc'[v] = "exit" /\ x = v
    <2>0. q # p /\ state' = state /\ \A y \in Threads : proc'[y] = IF y = u THEN p ELSE proc[y]
        BY <1>4, <1>5 DEF MadeAt
    <2>1. proc[v] = q /\ proc[x] = q /\ v # u /\ state[v] # "KILLED" /\ state[x] # "KILLED"
        BY <1>5, <2>0
    <2>2. pc[v] = "exit" /\ x = v
        BY <2>1, <1>1, <1>5 DEF ExitedInv
    <2>3. v # t
        BY <2>2
    <2> QED BY <2>1, <2>2, <2>3 DEF MadeAt
<1>6. exited' = exited /\ machine' = machine
    BY DEF MadeAt
<1> QED BY <1>3, <1>5, <1>6 DEF ExitedInv, NoNew

\* A creator that makes no call sleeps as before; t, which makes one, did not.
LEMMA NotAsleep ==
    ASSUME Inv, NoWake, NEW t \in Threads, pc[t] \in {"user", "setup"}, NEW p \in Procs,
           WaitsFor(t, p)
    PROVE  ~ NoNew /\ \E q \in exited : wait_t[q] = t
<1>1. ~ Sleeps(t)
    BY DEF Sleeps
<1> QED BY <1>1 DEF Inv, WaitInv

LEMMA MadeWait ==
    ASSUME Inv, NEW t \in Threads, NEW u \in Threads, NEW p \in Procs, NEW start, NEW l,
           MadeAt(t, u, p, start, l), pc[t] \in {"user", "setup"}, state[t] = "RUNNING",
           state[u] = "UNSCHDED",
           \/ /\ thread_ls[p] = <<>>
              /\ \A q \in Procs : wait_t'[q] = IF q = p THEN t ELSE wait_t[q]
              /\ wait_t[p] = NULL
              /\ \A v \in Threads : irqoff'[v] = IF v = t THEN TRUE ELSE irqoff[v]
              /\ l = "create_run_wait"
           \/ /\ UNCHANGED wait_t
              /\ \A v \in Threads : v # t => irqoff'[v] = irqoff[v]
    PROVE  WaitInv'
<1>1. /\ state' = state /\ exited' = exited /\ machine' = machine
      /\ \A v \in Threads : v # t => irqoff'[v] = irqoff[v]
      /\ \A v \in Threads : v # t /\ v # u => pc'[v] = pc[v]
    BY DEF MadeAt
<1>2. WaitInv /\ ExitedInv /\ StartInv
    BY DEF Inv
<1> SUFFICES ASSUME NoWake, NEW x \in Threads, NEW r \in Procs, WaitsFor(x, r)'
             PROVE  /\ Sleeps(x)' \/ (~ NoNew /\ \E q \in exited : wait_t'[q] = x)
                    /\ NoNew => \A q \in Procs : WaitsFor(x, q)' => q = r
    BY <1>1 DEF WaitInv, NoWake, NoNew
<1>3. \A q \in exited : q \in Procs /\ wait_t'[q] = wait_t[q]
    <2> TAKE q \in exited
    <2>1. q \in Procs
        BY DEF Inv, Types
    <2>2. thread_ls[q] # <<>>
        BY <1>2 DEF ExitedInv
    <2> QED BY <2>1, <2>2
<1>4. ASSUME x # t
      PROVE  /\ Sleeps(x)' \/ (~ NoNew /\ \E q \in exited : wait_t'[q] = x)
             /\ NoNew => \A q \in Procs : WaitsFor(x, q)' => q = r
    <2>1. \A q \in Procs : WaitsFor(x, q)' => WaitsFor(x, q)
        BY <1>1, <1>4 DEF WaitsFor
    <2>2. /\ Sleeps(x) \/ (~ NoNew /\ \E q \in exited : wait_t[q] = x)
          /\ NoNew => \A q \in Procs : WaitsFor(x, q) => q = r
        BY <2>1, <1>2 DEF WaitInv
    <2>3. x # u
        <3>1. WaitsFor(x, r)
            BY <2>1
        <3>2. wait_t[r] = x /\ x # NULL
            BY <3>1 DEF WaitsFor
        <3>3. state[wait_t[r]] # "UNSCHDED"
            BY <3>2, <1>2 DEF StartInv
        <3> QED BY <3>2, <3>3
    <2>4. Sleeps(x) => Sleeps(x)'
        BY <2>3, <1>1, <1>4 DEF Sleeps
    <2> QED BY <2>1, <2>2, <2>4, <1>3
<1>5. ASSUME x = t, UNCHANGED wait_t
      PROVE  ~ NoNew /\ \E q \in exited : wait_t'[q] = x
    <2>1. WaitsFor(t, r)
        BY <1>1, <1>5 DEF WaitsFor
    <2> QED BY <2>1, <1>5, NotAsleep
<1>6. ASSUME x = t, thread_ls[p] = <<>>, \A q \in Procs : wait_t'[q] = IF q = p THEN t ELSE wait_t[q],
             \A v \in Threads : irqoff'[v] = IF v = t THEN TRUE ELSE irqoff[v],
             l = "create_run_wait"
      PROVE  /\ Sleeps(x)'
             /\ NoNew => \A q \in Procs : WaitsFor(x, q)' => q = r
    <2>1. Sleeps(x)'
        BY <1>1, <1>6 DEF Sleeps, MadeAt
    <2>2. ASSUME NoNew, NEW q \in Procs, WaitsFor(x, q)' PROVE q = p
        <3>1. q # p => WaitsFor(t, q)
            BY <2>2, <1>1, <1>6 DEF WaitsFor
        <3> QED BY <3>1, <2>2, NotAsleep
    <2> QED BY <2>1, <2>2
<1> QED BY <1>4, <1>5, <1>6

\* A thread is made: the parts of the invariant together.
LEMMA MadeInv ==
    ASSUME Inv, NEW t \in Threads, NEW u \in Threads, NEW p \in Procs, NEW start, NEW l,
           Made(t, u, p, start, l), UNCHANGED schedVars, Place(t, p, start),
           start = "setup" => thread_ls[p] = <<>>,
           wait_t' \in [Procs -> Threads \cup {NULL}], irqoff' \in [Threads -> BOOLEAN],
           \A q \in Procs : wait_t'[q] \in {wait_t[q], t},
           \/ /\ thread_ls[p] = <<>>
              /\ \A q \in Procs : wait_t'[q] = IF q = p THEN t ELSE wait_t[q]
              /\ wait_t[p] = NULL
              /\ \A v \in Threads : irqoff'[v] = IF v = t THEN TRUE ELSE irqoff[v]
              /\ l = "create_run_wait"
           \/ /\ UNCHANGED wait_t
              /\ \A v \in Threads : v # t => irqoff'[v] = irqoff[v]
    PROVE  Inv'
<1>1. MadeAt(t, u, p, start, l)
    BY MadePointwise
<1>2. /\ state[t] = "RUNNING" /\ pc[t] \in {"user", "setup"} /\ pc[t] \notin Runs
      /\ state[u] = "UNSCHDED" /\ proc[u] = NULL
      /\ start \in {"user", "setup"} /\ start \notin Runs /\ start \notin Walking
      /\ l \in Runs /\ l \notin Walking
    BY DEF Made, Runs, Walking
<1>3. SchedInv'
    BY SchedStutterInv DEF Inv
<1>4. Types'
    BY MadeTypes
<1>5. ListInv' /\ StartInv' /\ ChildInv'
    BY <1>1, <1>2, MadeList, MadeStart, MadeChild
<1>6. SetupInv' /\ WalkInv'
    BY <1>1, <1>2, MadeSetup, MadeWalk
<1>7. KillsInv' /\ ExitedInv'
    BY <1>1, <1>2, MadeKills, MadeExited
<1>8. WaitInv'
    BY <1>1, <1>2, MadeWait
<1> QED BY <1>3, <1>4, <1>5, <1>6, <1>7, <1>8 DEF Inv

\* thread_sys_new, and the first user thread of a process
LEMMA SameProcInv ==
    ASSUME Inv, NEW t \in Threads, state[t] = "RUNNING", pc[t] \in {"user", "setup"},
           NEW l \in Runs, thread_new(t, proc[t], "user", l), UNCHANGED <<wait_t, irqoff>>,
           pc[t] = "user" => ~ NoNew
    PROVE  Inv'
<1>1. PICK u \in Threads : Made(t, u, proc[t], "user", l)
    BY DEF thread_new, Made, schedVars
<1>2. UNCHANGED schedVars /\ UNCHANGED wait_t /\ UNCHANGED irqoff
    BY DEF thread_new
<1>3. proc[t] \in Procs
    BY HasProc
<1>4. Place(t, proc[t], "user")
    BY DEF Place
<1>5. wait_t' \in [Procs -> Threads \cup {NULL}] /\ irqoff' \in [Threads -> BOOLEAN]
    BY <1>2 DEF Inv, Types
<1> QED BY <1>1, <1>2, <1>3, <1>4, <1>5, MadeInv

LEMMA thread_sys_newInv == ASSUME Inv, NEW t \in Threads, thread_sys_new(t) PROVE Inv'
<1>1. /\ state[t] = "RUNNING" /\ pc[t] = "user" /\ ~ NoNew
      /\ thread_new(t, proc[t], "user", "new_run") /\ UNCHANGED <<wait_t, irqoff>>
    BY DEF thread_sys_new, Calling, At, NoNew
<1> QED BY <1>1, SameProcInv DEF Runs

LEMMA inner_setupInv == ASSUME Inv, NEW t \in Threads, inner_setup(t) PROVE Inv'
<1>1. At(t, "setup")
    BY DEF inner_setup
<1>2. CASE thread_new(t, proc[t], "user", "setup_run") /\ UNCHANGED <<wait_t, irqoff>>
    <2>1. state[t] = "RUNNING" /\ pc[t] = "setup"
        BY <1>1 DEF At
    <2> QED BY <1>2, <2>1, SameProcInv DEF Runs
<1>3. CASE Goto(t, "exit") /\ UNCHANGED <<schedVars, procVars, child, walk, irqoff, failed>>
    BY <1>1, <1>3, setup_failsInv
<1>4. CASE Fail("setup")
    BY <1>4, FailInv
<1> QED BY <1>2, <1>3, <1>4 DEF inner_setup

LEMMA proc_createInv == ASSUME Inv, NEW t \in Threads, proc_create(t) PROVE Inv'
<1>1. state[t] = "RUNNING" /\ pc[t] = "user"
    BY DEF proc_create, Calling, At
<1>2. PICK p \in Procs, wait \in BOOLEAN :
        /\ thread_ls[p] = <<>> /\ wait_t[p] = NULL
        /\ thread_new(t, p, "setup", IF wait THEN "create_run_wait" ELSE "create_run")
        /\ wait_t' = [wait_t EXCEPT ![p] = IF wait THEN t ELSE NULL]
        /\ irqoff' = [irqoff EXCEPT ![t] = wait]
    BY DEF proc_create
<1> DEFINE l == IF wait THEN "create_run_wait" ELSE "create_run"
<1>3. l \in Runs /\ (wait => l = "create_run_wait")
    BY DEF Runs
<1>4. thread_new(t, p, "setup", l)
    BY <1>2
<1> HIDE DEF l
<1>5. PICK u \in Threads : Made(t, u, p, "setup", l)
    BY <1>1, <1>3, <1>4 DEF thread_new, Made, schedVars
<1>6. UNCHANGED schedVars
    BY <1>4 DEF thread_new
<1>7. Place(t, p, "setup")
    BY <1>2 DEF Place
<1>8. Types
    BY DEF Inv
<1>9. /\ wait_t' \in [Procs -> Threads \cup {NULL}]
      /\ \A q \in Procs : wait_t'[q] = IF q = p THEN IF wait THEN t ELSE NULL ELSE wait_t[q]
    BY <1>2, <1>8 DEF Types
<1>10. /\ irqoff' \in [Threads -> BOOLEAN]
       /\ \A v \in Threads : irqoff'[v] = IF v = t THEN wait ELSE irqoff[v]
    BY <1>2, <1>8 DEF Types
<1>11. CASE wait = TRUE
    BY <1>2, <1>3, <1>5, <1>6, <1>7, <1>9, <1>10, <1>11, MadeInv
<1>12. CASE wait = FALSE
    <2>1. \A q \in Procs : wait_t'[q] = wait_t[q]
        BY <1>2, <1>9, <1>12
    <2>2. wait_t' = wait_t
        BY <2>1, <1>8, <1>9 DEF Types
    <2> QED BY <1>2, <1>5, <1>6, <1>7, <1>9, <1>10, <2>2, MadeInv
<1> QED BY <1>11, <1>12

\* Without memory for the loader t waits all the same.
LEMMA create_failsInv == ASSUME Inv, NEW t \in Threads, create_fails(t) PROVE Inv'
<1>1. /\ state[t] = "RUNNING" /\ pc[t] = "user" /\ UNCHANGED schedVars
      /\ UNCHANGED <<machine, proc, thread_ls>> /\ UNCHANGED <<exited, child, walk>>
      /\ irqoff' = [irqoff EXCEPT ![t] = TRUE] /\ pc' = [pc EXCEPT ![t] = "create_block"]
    BY DEF create_fails, Calling, At, Goto
<1>2. PICK p \in Procs : /\ thread_ls[p] = <<>> /\ wait_t[p] = NULL
                         /\ wait_t' = [wait_t EXCEPT ![p] = t]
    BY DEF create_fails
<1>3. /\ SchedInv /\ Types /\ ListInv /\ StartInv /\ ChildInv /\ SetupInv /\ WalkInv
      /\ KillsInv /\ ExitedInv /\ WaitInv
    BY DEF Inv
<1>4. SchedInv' /\ state' = state
    BY <1>1, <1>3, SchedStutterInv DEF schedVars
<1>5. Onward
    BY <1>4, SameOnward
<1>6. \A v \in Threads : /\ pc'[v] = IF v = t THEN "create_block" ELSE pc[v]
                         /\ irqoff'[v] = IF v = t THEN TRUE ELSE irqoff[v]
    BY <1>1, <1>3 DEF Types
<1>7. \A q \in Procs : wait_t'[q] = IF q = p THEN t ELSE wait_t[q]
    BY <1>2, <1>3 DEF Types
<1>8. Types'
    <2>1. pc' \in [Threads -> Labels] /\ irqoff' \in [Threads -> BOOLEAN]
        BY <1>1, <1>3 DEF Types, Labels
    <2>2. wait_t' \in [Procs -> Threads \cup {NULL}]
        BY <1>2, <1>3 DEF Types
    <2> QED BY <1>1, <1>3, <2>1, <2>2 DEF Types
<1>9. StartInv'
    BY <1>1, <1>3, <1>4, <1>6, <1>7 DEF StartInv
<1>10. ChildInv'
    <2>1. \A v \in Threads : pc'[v] \in Runs => v # t /\ pc[v] \in Runs
        BY <1>6 DEF Runs
    <2>2. \A v \in Threads : pc[v] \in Runs /\ NoWake => state'[child[v]] = "UNSCHDED"
        BY <1>3, <1>4 DEF ChildInv
    <2> QED BY <1>1, <1>3, <2>1, <2>2, ChildKept
<1>11. ListInv' /\ SetupInv'
    BY <1>1, <1>3, <1>6, ListKept, SetupKept
<1>12. WalkInv'
    BY <1>1, <1>3, <1>6, WalkKept DEF Walking
<1>13. KillsInv'
    <2>1. Kills(t)'
        BY <1>6 DEF Kills, Walking
    <2> QED BY <1>1, <1>3, <1>5, <1>6, <2>1, KillsKept
<1>14. ExitedInv'
    BY <1>1, <1>3, <1>5, <1>6, ExitedKept
<1>15. WaitInv'
    <2> SUFFICES ASSUME NoWake, NEW x \in Threads, NEW r \in Procs, WaitsFor(x, r)'
                 PROVE  /\ Sleeps(x)' \/ (~ NoNew /\ \E q \in exited : wait_t'[q] = x)
                        /\ NoNew => \A q \in Procs : WaitsFor(x, q)' => q = r
        BY <1>1 DEF WaitInv, NoWake, NoNew
    <2>1. CASE x = t
        <3>1. Sleeps(t)'
            BY <1>1, <1>4, <1>6 DEF Sleeps
        <3>2. ASSUME NoNew, NEW q \in Procs, WaitsFor(x, q)' PROVE q = p
            <4>1. q # p => WaitsFor(t, q)
                BY <3>2, <2>1, <1>1, <1>4, <1>7 DEF WaitsFor
            <4> QED BY <4>1, <3>2, <1>1, NotAsleep
        <3> QED BY <3>1, <3>2, <2>1
    <2>2. CASE x # t
        <3>1. \A q \in Procs : WaitsFor(x, q)' => WaitsFor(x, q)
            BY <2>2, <1>1, <1>4, <1>7 DEF WaitsFor
        <3>2. /\ Sleeps(x) \/ (~ NoNew /\ \E q \in exited : wait_t[q] = x)
              /\ NoNew => \A q \in Procs : WaitsFor(x, q) => q = r
            BY <3>1, <1>3 DEF WaitInv
        <3>3. Sleeps(x) => Sleeps(x)'
            BY <2>2, <1>4, <1>6 DEF Sleeps
        <3>4. \A q \in exited : wait_t'[q] = wait_t[q]
            BY <1>2, <1>3, <1>7 DEF Types, ExitedInv
        <3> QED BY <3>1, <3>2, <3>3, <3>4
    <2> QED BY <2>1, <2>2
<1> QED BY <1>4, <1>8, <1>9, <1>10, <1>11, <1>12, <1>13, <1>14, <1>15 DEF Inv

-----------------------------------------------------------------------------
(***************************************************************************)
(* The theorems                                                            *)
(***************************************************************************)

LEMMA CallInv == ASSUME Inv, NEW t \in Threads, Call(t) PROVE Inv'
<1>1. CASE thread_sys_exit(t)
    <2>1. state[t] = "RUNNING" /\ Exit(CPU(t)) /\ UNCHANGED <<procVars, localVars>>
        BY <1>1 DEF thread_sys_exit, Calling, At
    <2> QED BY <2>1, EndInv
<1> QED BY <1>1, thread_sys_newInv, thread_sys_blockInv, thread_sys_wakeInv, proc_createInv,
           create_failsInv, proc_sys_exitInv, proc_sys_killInv DEF Call

LEMMA GoesOnInv == ASSUME Inv, NEW t \in Threads, Step(t) PROVE Inv'
<1>1. CASE new_run(t)
    <2>1. CASE Fail("schd_run")
        BY <2>1, FailInv
    <2>2. CASE RunChild(t, "user")
        <3>1. state[t] = "RUNNING" /\ pc[t] = "new_run"
            BY <1>1 DEF new_run, At
        <3> QED BY <2>2, <3>1, RunChildInv DEF Runs
    <2> QED BY <1>1, <2>1, <2>2 DEF new_run
<1>2. CASE setup_run(t)
    <2>1. state[t] = "RUNNING" /\ pc[t] = "setup_run" /\ RunChild(t, "exit")
        BY <1>2 DEF setup_run, At
    <2> QED BY <2>1, RunChildInv DEF Runs
<1>3. CASE create_run(t)
    <2>1. \/ state[t] = "RUNNING" /\ pc[t] = "create_run" /\ RunChild(t, "user")
          \/ state[t] = "RUNNING" /\ pc[t] = "create_run_wait" /\ RunChild(t, "create_block")
        BY <1>3 DEF create_run, At
    <2> QED BY <2>1, RunChildInv DEF Runs
<1>4. CASE ThreadExit(t)
    <2>1. state[t] = "RUNNING" /\ Exit(CPU(t)) /\ UNCHANGED <<procVars, localVars>>
        BY <1>4 DEF ThreadExit, At
    <2> QED BY <2>1, EndInv
<1> QED BY <1>1, <1>2, <1>3, <1>4, inner_setupInv, create_blockInv, create_returnInv, walk_testInv,
           walk_killInv, exit_wakeInv DEF Step

LEMMA StepInv == Inv /\ [Next]_vars => Inv'
<1> SUFFICES ASSUME Inv, [Next]_vars PROVE Inv'
    OBVIOUS
<1>1. CASE Next
    BY <1>1, CallInv, GoesOnInv, SwitchInv DEF Next
<1>2. CASE UNCHANGED vars
    <2>1. Fail(failed)
        BY <1>2 DEF vars, Fail
    <2> QED BY <2>1, FailInv
<1> QED BY <1>1, <1>2

\* The inductive invariant: lists, walks, creators and new threads agree between
\* any two steps of proc.c and thread.c.
THEOREM ProcInvariance == Spec => []Inv
BY InitInv, StepInv, PTL DEF Spec

\* The creator that waits for a process sleeps, or is about to with interrupts
\* disabled, until the process exits, on any number of CPUs, unless threads wake
\* each other up or a thread outlived the exit of a process.
THEOREM ProcWaiterSleeps == Spec => []WaiterSleeps
<1>1. Inv => WaiterSleeps
    <2> SUFFICES ASSUME Inv, NEW p \in Procs, p \notin exited, NoWake, wait_t[p] # NULL,
                        state[wait_t[p]] # "KILLED"
                 PROVE  \/ state[wait_t[p]] = "BLOCKED"
                        \/ state[wait_t[p]] = "RUNNING" /\ irqoff[wait_t[p]]
                        \/ ~ NoNew /\ \E q \in exited : wait_t[q] = wait_t[p]
        BY DEF WaiterSleeps, NoWake, NoNew
    <2>1. WaitsFor(wait_t[p], p)
        BY DEF WaitsFor, Inv, Types
    <2>2. wait_t[p] \in Threads
        BY <2>1 DEF WaitsFor
    <2> QED BY <2>1, <2>2 DEF Inv, WaitInv, Sleeps
<1> QED BY <1>1, ProcInvariance, PTL

\* When proc_sys_exit wakes up the thread that waits, all the other threads of the
\* process are killed, for good: the walk misses none, as long as no thread is
\* made while it walks.
THEOREM ProcExitKillsAll == Spec => []ExitKillsAll
<1>1. Inv => ExitKillsAll
    <2> SUFFICES ASSUME Inv PROVE ExitKillsAll
        OBVIOUS
    <2>1. TypeOK
        BY DEF Inv, Types, ListInv, TypeOK
    <2>2. ASSUME NEW p \in exited, NEW t \in Threads, NEW u \in Threads, NoNew,
                 proc[t] = p, proc[u] = p, state[t] # "KILLED", state[u] # "KILLED"
          PROVE  t = u
        BY <2>2 DEF Inv, ExitedInv
    <2> QED BY <2>1, <2>2 DEF ExitKillsAll, NoNew
<1> QED BY <1>1, ProcInvariance, PTL
=============================================================================

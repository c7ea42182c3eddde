------------------------------- MODULE MCProc -------------------------------
(***************************************************************************)
(* Processes for TLC, on five machines whose state spaces add up: threads  *)
(* create processes and threads, wait for them and exit; they end, block   *)
(* and wake each other; processes kill each other; and processes exit      *)
(* while their threads run on two CPUs.                                    *)
(***************************************************************************)
EXTENDS Proc

CONSTANTS c1, c2, t1, t2, t3, t4, p, q

TwoThreads == <<t1, t2>>

\* t1 and t2 boot in process p; t3 and t4 are the threads that can be created.
Boot == [r \in Procs |-> IF r = p THEN TwoThreads ELSE <<>>]

OneOrTwoCPUs ==
    {[cpus |-> {c1}, calls |-> {"proc_create", "proc_exit", "thread_new"}],
     [cpus |-> {c1}, calls |-> {"proc_create", "proc_exit", "thread_exit", "thread_block",
                                "thread_wake"}],
     [cpus |-> {c1}, calls |-> {"thread_new", "thread_wake"}],
     [cpus |-> {c1}, calls |-> {"proc_create", "proc_exit", "proc_kill"}],
     [cpus |-> {c1, c2}, calls |-> {"proc_create", "proc_exit", "thread_exit"}]}
=============================================================================

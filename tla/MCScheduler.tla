---------------------------- MODULE MCScheduler ----------------------------
(* Small instances of the scheduler for TLC. *)
EXTENDS Scheduler, TLC

CONSTANTS c1, c2, t1, t2, t3

OneCPU == {c1}
TwoCPUs == {c1, c2}
ThreeThreads == {t1, t2, t3}
BootTwo == <<t1, t2>>

CPUSymmetry == Permutations(TwoCPUs)
=============================================================================

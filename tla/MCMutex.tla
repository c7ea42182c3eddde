------------------------------ MODULE MCMutex ------------------------------
(* Small instances of the mutex for TLC. *)
EXTENDS Mutex

CONSTANTS c1, c2, t1, t2, t3

ThreeThreads == <<t1, t2, t3>>
=============================================================================

------------------------------- MODULE MCBuf -------------------------------
(* Small instances of the console buffer for TLC. *)
EXTENDS Buf

CONSTANTS c1, t1, t2, t3

ThreeThreads == <<t1, t2, t3>>
=============================================================================

------------------------------- MODULE MCMsg -------------------------------
(***************************************************************************)
(* Messages and boxes for TLC, as three systems whose state spaces add up: *)
(* one thread in each of two processes with a message and a box to come;   *)
(* the same two threads with a message, the box of the other process and a *)
(* second message to come; and two threads of the process that owns both   *)
(* the message and the box, which send to their own box and recieve.       *)
(***************************************************************************)
EXTENDS Msg, TLC

CONSTANTS c1, s1, r1, r2, m1, m2, b1, p, q

SendAndRecieve == <<s1, r1>>

\* The sender belongs to one process, the recievers to another.
TwoProcs == [t \in Threads |-> IF t = s1 THEN p ELSE q]

Used == [NoMsg EXCEPT !.state = "blank"]
Sendable(o) == [state |-> "UNSEND", owner |-> o]
Open == [NoBox EXCEPT !.state = "RCVABLE", !.owner = q]

\* The messages m1 and m2 and the box.
System(x, y, b) == MsgInit((m1 :> x) @@ (m2 :> y), b1 :> b)

RecieversRun ==
    /\ state = [t \in Threads |-> IF t = s1 THEN "UNSCHDED" ELSE "RUNNABEL"]
    /\ runnable = <<r1, r2>>
    /\ cur = [c \in CPUs |-> NULL]

MCInit ==
    \/ SchedInit /\ (System(NoMsg, Used, NoBox) \/ System(Sendable(p), NoMsg, Open))
    \/ RecieversRun /\ System(Sendable(q), NoMsg, Open)

MCSpec == MCInit /\ [][Next]_vars /\ Fairness
=============================================================================

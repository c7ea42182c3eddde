------------------------------ MODULE Mailbox ------------------------------
(***************************************************************************)
(* What message boxes promise: a message is sent at most once, to one box, *)
(* and the messages of a box are taken once each, in the order in which    *)
(* they were sent.  Module Msg implements this.                            *)
(***************************************************************************)
EXTENDS Sequences

CONSTANTS Msgs, Boxes

VARIABLES inbox,        \* the messages in each box, oldest first
          stage         \* how far each message is

vars == <<inbox, stage>>

Init == inbox = [b \in Boxes |-> <<>>] /\ stage = [m \in Msgs |-> "held"]

Send(m, b) ==
    /\ stage[m] = "held"
    /\ stage' = [stage EXCEPT ![m] = "queued"]
    /\ inbox' = [inbox EXCEPT ![b] = Append(@, m)]

Take(b) ==
    /\ inbox[b] # <<>>
    /\ stage' = [stage EXCEPT ![Head(inbox[b])] = "taken"]
    /\ inbox' = [inbox EXCEPT ![b] = Tail(@)]

Next == \E b \in Boxes : Take(b) \/ \E m \in Msgs : Send(m, b)

Spec == Init /\ [][Next]_vars
=============================================================================

-------------------------------- MODULE Msg --------------------------------
(***************************************************************************)
(* Messages and message boxes, kernel/msg/msg.c, on the scheduler and the  *)
(* mutexes of the kernel.  The system calls run with interrupts enabled    *)
(* except around the wait of msg_recieve, so a thread can lose its CPU     *)
(* between any two steps, with the spinlock inside a mutex held too.       *)
(* Contents and sizes of messages are left out.                            *)
(***************************************************************************)
EXTENDS Mutexes

CONSTANTS Msgs, Boxes,  \* identifiers, each used once
          Procs,
          ProcOf        \* the process of each thread

ASSUME MsgAssumption ==
    /\ ProcOf \in [Threads -> Procs]
    /\ Msgs \cap Boxes = {}
    /\ Locks = Msgs \cup Boxes

VARIABLES msg_alct,     \* MSG.msg_alct: the messages that can be found
          box_alct,     \* MSG.box_alct
          msg,          \* struct msg_t: state and owner
          box,          \* struct msgbox_t: state, owner, nmsg, blk_thread and msg_ls
          pc,           \* where each thread is in msg.c
          arg,          \* the arguments of its system call, and the message it recieved
          irqoff,       \* whether it disabled interrupts
          spin,         \* mutex_t.lock of each mutex: who holds the spinlock
          failed        \* the assertion or panic that stopped the machine

dataVars == <<msg_alct, box_alct, msg, box>>
msgVars == <<mutexesVars, dataVars, pc, arg, irqoff, spin, failed>>
vars == <<schedVars, msgVars>>

NoArg == [msg |-> NULL, box |-> NULL, block |-> FALSE]

NoMsg == [state |-> "new", owner |-> NULL]
NoBox == [state |-> "new", owner |-> NULL, nmsg |-> 0, blk |-> NULL, msg_ls |-> <<>>]

\* The system with messages ms and boxes bs, none of them in use yet.
MsgInit(ms, bs) ==
    /\ MutexesInit
    /\ msg = ms
    /\ box = bs
    /\ msg_alct = {m \in Msgs : msg[m].state = "UNSEND"}
    /\ box_alct = {b \in Boxes : box[b].state = "RCVABLE"}
    /\ pc = [t \in Threads |-> "out"]
    /\ arg = [t \in Threads |-> NoArg]
    /\ irqoff = [t \in Threads |-> FALSE]
    /\ spin = [x \in Locks |-> NULL]
    /\ failed = "no"

Init == SchedInit /\ MsgInit([m \in Msgs |-> NoMsg], [b \in Boxes |-> NoBox])

-----------------------------------------------------------------------------
At(t, l) == state[t] = "RUNNING" /\ pc[t] = l

Goto(t, l) == pc' = [pc EXCEPT ![t] = l]

Return(t) == Goto(t, "out") /\ arg' = [arg EXCEPT ![t] = NoArg]

Fail(what) == failed' = what /\ UNCHANGED <<schedVars, mutexesVars, dataVars, pc, arg, irqoff, spin>>

\* Thread t enters a system call at label l.
Enter(t, l, m, b, block) ==
    /\ At(t, "out")
    /\ arg' = [arg EXCEPT ![t] = [msg |-> m, box |-> b, block |-> block]]
    /\ Goto(t, l)
    /\ UNCHANGED <<schedVars, mutexesVars, dataVars, irqoff, spin, failed>>

\* The mutex that t is about to lock, and the one it is about to unlock
Locking(t) ==
    CASE pc[t] \in {"send_msg", "read", "delmsg_lock"} -> arg[t].msg
      [] pc[t] \in {"send_box", "recv_box", "recv_relock", "delbox_lock"} -> arg[t].box
      [] OTHER -> NULL

Unlocking(t) ==
    CASE pc[t] \in {"send_ret2", "read_ret"} -> arg[t].msg
      [] pc[t] \in {"send_ret3", "recv_release", "recv_ret"} -> arg[t].box
      [] OTHER -> NULL

\* mutex_lock always takes the spinlock of the mutex, and counts the caller;
\* mutex_unlock takes it if there are waiters.
spin_lock(t) == \E x \in Locks :
    /\ state[t] = "RUNNING"
    /\ x = Locking(t) \/ (x = Unlocking(t) /\ waitq[x] # <<>>)
    /\ spin[x] = NULL
    /\ spin' = [spin EXCEPT ![x] = t]
    /\ UNCHANGED <<schedVars, mutexesVars, dataVars, pc, arg, irqoff, failed>>

\* The mutex operation, which gives the spinlock back, then label l.  An unlock
\* goes by the count: it waits for a caller that is counted and not queued yet.
Lock(t, x, l) ==
    /\ spin[x] = t
    /\ spin' = [spin EXCEPT ![x] = NULL]
    /\ mutex_lock(t, x)
    /\ Goto(t, l)
    /\ UNCHANGED <<dataVars, arg, irqoff, failed>>

Unlock(t, x, l) ==
    /\ spin[x] = IF waitq[x] = <<>> THEN NULL ELSE t
    /\ spin' = [spin EXCEPT ![x] = NULL]
    /\ mutex_unlock(x)
    /\ IF l = "out" THEN Return(t) ELSE Goto(t, l) /\ UNCHANGED arg
    /\ UNCHANGED <<dataVars, irqoff, failed>>

-----------------------------------------------------------------------------
(***************************************************************************)
(* msg_newmsg and msg_newbox hold the new object's mutex throughout.       *)
(***************************************************************************)

\* The memory for the contents is allocated once the message can be found.
msg_newmsg(t) == \E m \in Msgs :
    /\ At(t, "out")
    /\ msg[m].state = "new"
    /\ msg_alct' = msg_alct \cup {m}
    /\ \/ /\ msg' = [msg EXCEPT ![m] = [state |-> "UNSEND", owner |-> ProcOf[t]]]
          /\ UNCHANGED <<owner, pc, arg>>
       \/ /\ msg' = [msg EXCEPT ![m].state = "blank"]
          /\ owner' = [owner EXCEPT ![m] = t]
          /\ arg' = [arg EXCEPT ![t].msg = m]
          /\ Goto(t, "newmsg_err3")
    /\ UNCHANGED <<schedVars, waitq, box_alct, box, irqoff, spin, failed>>

\* Out of memory: the message goes, its mutex stays locked.
newmsg_err3(t) ==
    /\ At(t, "newmsg_err3")
    /\ msg_alct' = msg_alct \ {arg[t].msg}
    /\ Return(t)
    /\ UNCHANGED <<schedVars, mutexesVars, box_alct, msg, box, irqoff, spin, failed>>

msg_newbox(t) == \E b \in Boxes :
    /\ At(t, "out")
    /\ box[b].state = "new"
    /\ box' = [box EXCEPT ![b].state = "RCVABLE", ![b].owner = ProcOf[t]]
    /\ box_alct' = box_alct \cup {b}
    /\ UNCHANGED <<schedVars, mutexesVars, msg_alct, msg, pc, arg, irqoff, spin, failed>>

-----------------------------------------------------------------------------
(***************************************************************************)
(* msg_send                                                                *)
(***************************************************************************)

\* A message that is not found is an error that changes nothing.
msg_send(t) == \E m \in msg_alct, b \in Boxes : Enter(t, "send_msg", m, b, FALSE)

send_lock_msg(t) == At(t, "send_msg") /\ Lock(t, arg[t].msg, "send_find")

send_find_box(t) ==
    /\ At(t, "send_find")
    /\ Goto(t, IF arg[t].box \in box_alct THEN "send_box" ELSE "send_ret2")
    /\ UNCHANGED <<schedVars, mutexesVars, dataVars, arg, irqoff, spin, failed>>

send_lock_box(t) == At(t, "send_box") /\ Lock(t, arg[t].box, "send")

Accepted(t) == msg[arg[t].msg].owner = ProcOf[t] /\ msg[arg[t].msg].state = "UNSEND"

\* schd_run(box->blk_thread) if a thread waits.
WakeUp(b) ==
    IF box[b].state = "RCV_BLK" THEN CanRun(box[b].blk) /\ Run(box[b].blk) ELSE UNCHANGED schedVars

\* The message is queued and the box has state new and waiting thread blk.
Queue(t, new, blk) ==
    /\ LET b == arg[t].box
       IN  box' = [box EXCEPT ![b].msg_ls = Append(@, arg[t].msg), ![b].nmsg = @ + 1,
                              ![b].state = new, ![b].blk = blk]
    /\ msg' = [msg EXCEPT ![arg[t].msg].state = "SENDED"]
    /\ Goto(t, "send_ret3")
    /\ UNCHANGED <<mutexesVars, msg_alct, box_alct, arg, irqoff, spin, failed>>

\* Mutants: the message may have been sent before; the box is recievable as
\* soon as its thread is woken up; that thread is not woken up.
send_Again(t) ==
    LET b == arg[t].box IN
    /\ At(t, "send")
    /\ msg[arg[t].msg].owner = ProcOf[t]
    /\ WakeUp(b)
    /\ Queue(t, box[b].state, NULL)

send_Reopens(t) == At(t, "send") /\ Accepted(t) /\ WakeUp(arg[t].box) /\ Queue(t, "RCVABLE", NULL)

send_NoWake(t) ==
    LET b == arg[t].box IN
    /\ At(t, "send")
    /\ Accepted(t)
    /\ Queue(t, box[b].state, box[b].blk)
    /\ UNCHANGED schedVars

\* With both mutexes: the checks, then queue the message and wake up the
\* thread that waits.  box->state stays RCV_BLK until that thread runs.
send(t) ==
    LET b == arg[t].box
        wake == box[b].state = "RCV_BLK"
    IN  /\ At(t, "send")
        /\ \/ /\ ~ Accepted(t)
              /\ Goto(t, "send_ret3")
              /\ UNCHANGED <<schedVars, mutexesVars, dataVars, arg, irqoff, spin, failed>>
           \/ Accepted(t) /\ wake /\ ~ CanRun(box[b].blk) /\ Fail("schd_run")
           \/ /\ Accepted(t)
              /\ WakeUp(b)
              /\ Queue(t, box[b].state, IF wake THEN NULL ELSE box[b].blk)

send_unlock_box(t) == At(t, "send_ret3") /\ Unlock(t, arg[t].box, "send_ret2")

send_unlock_msg(t) == At(t, "send_ret2") /\ Unlock(t, arg[t].msg, "out")

-----------------------------------------------------------------------------
(***************************************************************************)
(* msg_recieve                                                             *)
(***************************************************************************)

\* A box that is not found is unlocked all the same, through a null pointer.
msg_recieve(t) == \E b \in Boxes, block \in BOOLEAN :
    \/ b \in box_alct /\ Enter(t, "recv_box", NULL, b, block)
    \/ At(t, "out") /\ b \notin box_alct /\ Fail("unlock")

recv_lock_box(t) == At(t, "recv_box") /\ Lock(t, arg[t].box, "recv")

\* The rest of msg_recieve up to the change of owner: take the first message.
Pop(t, b, n) ==
    /\ msg' = [msg EXCEPT ![Head(box[b].msg_ls)].state = "RECIEVED"]
    /\ box' = [box EXCEPT ![b].state = "RCVABLE", ![b].msg_ls = Tail(@), ![b].nmsg = n]
    /\ arg' = [arg EXCEPT ![t].msg = Head(box[b].msg_ls)]
    /\ irqoff' = [irqoff EXCEPT ![t] = FALSE]
    /\ Goto(t, "recv_own")
    /\ UNCHANGED <<schedVars, mutexesVars, msg_alct, box_alct, spin, failed>>

Take(t, b) ==
    \/ box[b].nmsg = 0 /\ Fail("nmsg")
    \/ /\ box[b].nmsg > 0
       /\ \/ msg[Head(box[b].msg_ls)].state # "SENDED" /\ Fail("state")
          \/ msg[Head(box[b].msg_ls)].state = "SENDED" /\ Pop(t, b, box[b].nmsg - 1)

\* The wait begins: BOX_RCV_BLK, blk_thread and intr_irq_save.
Wait(t, b) ==
    /\ box[b].nmsg = 0
    /\ arg[t].block
    /\ box' = [box EXCEPT ![b].state = "RCV_BLK", ![b].blk = t]
    /\ irqoff' = [irqoff EXCEPT ![t] = TRUE]
    /\ Goto(t, "recv_release")
    /\ UNCHANGED <<schedVars, mutexesVars, msg_alct, box_alct, msg, arg, spin, failed>>

\* Mutant: a thread waits for a box for which another one waits.
recv_NoBusy(t) ==
    LET b == arg[t].box IN
    /\ At(t, "recv")
    /\ box[b].owner = ProcOf[t]
    /\ Wait(t, b) \/ (box[b].nmsg > 0 /\ Take(t, b))

recv(t) ==
    LET b == arg[t].box
        ok == box[b].owner = ProcOf[t] /\ box[b].state # "RCV_BLK"
    IN  /\ At(t, "recv")
        /\ \/ /\ ~ ok \/ (box[b].nmsg = 0 /\ ~ arg[t].block)
              /\ Goto(t, "recv_ret")
              /\ UNCHANGED <<schedVars, mutexesVars, dataVars, arg, irqoff, spin, failed>>
           \/ ok /\ Wait(t, b)
           \/ ok /\ box[b].nmsg > 0 /\ Take(t, b)

recv_release(t) == At(t, "recv_release") /\ Unlock(t, arg[t].box, "recv_block")

\* schd_block(thread_now(), NULL)
recv_block(t) ==
    /\ At(t, "recv_block")
    /\ \E c \in CPUs : cur[c] = t /\ Block(c)
    /\ Goto(t, "recv_relock")
    /\ UNCHANGED <<mutexesVars, dataVars, arg, irqoff, spin, failed>>

recv_relock(t) == At(t, "recv_relock") /\ Lock(t, arg[t].box, "recv_woken")

\* intr_irq_restore, box->state = BOX_RCVABLE
recv_woken(t) == At(t, "recv_woken") /\ Take(t, arg[t].box)

\* msg->owner is written without the mutex of the message.
recv_own(t) ==
    /\ At(t, "recv_own")
    /\ msg' = [msg EXCEPT ![arg[t].msg].owner = ProcOf[t]]
    /\ Goto(t, "recv_ret")
    /\ UNCHANGED <<schedVars, mutexesVars, msg_alct, box_alct, box, arg, irqoff, spin, failed>>

recv_unlock_box(t) == At(t, "recv_ret") /\ Unlock(t, arg[t].box, "out")

-----------------------------------------------------------------------------
(***************************************************************************)
(* msg_read and msg_size, msg_delmsg, msg_delbox                           *)
(***************************************************************************)

\* The contents are copied, or the call refused, with the message locked.
msg_read(t) == \E m \in msg_alct : Enter(t, "read", m, NULL, FALSE)

read_lock_msg(t) == At(t, "read") /\ Lock(t, arg[t].msg, "read_ret")

read_unlock_msg(t) == At(t, "read_ret") /\ Unlock(t, arg[t].msg, "out")

msg_delmsg(t) == \E m \in msg_alct : Enter(t, "delmsg_lock", m, NULL, FALSE)

delmsg_lock(t) == At(t, "delmsg_lock") /\ Lock(t, arg[t].msg, "delmsg")

\* A message that is deleted stays locked.
delmsg(t) ==
    LET m == arg[t].msg IN
    /\ At(t, "delmsg")
    /\ \/ /\ msg[m].owner # ProcOf[t] \/ msg[m].state = "SENDED"
          /\ Goto(t, "read_ret")
          /\ UNCHANGED <<schedVars, mutexesVars, dataVars, arg, irqoff, spin, failed>>
       \/ /\ msg[m].owner = ProcOf[t] /\ msg[m].state # "SENDED"
          /\ msg_alct' = msg_alct \ {m}
          /\ Return(t)
          /\ UNCHANGED <<schedVars, mutexesVars, box_alct, msg, box, irqoff, spin, failed>>

msg_delbox(t) == \E b \in box_alct : Enter(t, "delbox_lock", NULL, b, FALSE)

delbox_lock(t) == At(t, "delbox_lock") /\ Lock(t, arg[t].box, "delbox")

\* So does a box.
delbox(t) ==
    LET b == arg[t].box
        busy == box[b].owner # ProcOf[t] \/ box[b].state = "RCV_BLK" \/ box[b].nmsg > 0
    IN  /\ At(t, "delbox")
        /\ \/ /\ busy
              /\ Goto(t, "recv_ret")
              /\ UNCHANGED <<schedVars, mutexesVars, dataVars, arg, irqoff, spin, failed>>
           \/ /\ ~ busy
              /\ box_alct' = box_alct \ {b}
              /\ Return(t)
              /\ UNCHANGED <<schedVars, mutexesVars, msg_alct, msg, box, irqoff, spin, failed>>

-----------------------------------------------------------------------------
\* A thread calls, or goes on with a call.
Call(t) ==
    \/ msg_newmsg(t) \/ msg_newbox(t) \/ msg_send(t) \/ msg_recieve(t) \/ msg_read(t)
    \/ msg_delmsg(t) \/ msg_delbox(t)

Step(t) ==
    \/ spin_lock(t) \/ newmsg_err3(t) \/ send_lock_msg(t) \/ send_find_box(t) \/ send_lock_box(t)
    \/ send(t) \/ send_unlock_box(t) \/ send_unlock_msg(t)
    \/ recv_lock_box(t) \/ recv(t) \/ recv_release(t) \/ recv_block(t) \/ recv_relock(t)
    \/ recv_woken(t) \/ recv_own(t) \/ recv_unlock_box(t)
    \/ read_lock_msg(t) \/ read_unlock_msg(t)
    \/ delmsg_lock(t) \/ delmsg(t) \/ delbox_lock(t) \/ delbox(t)

Switch(c) ==
    /\ Dispatch(c) \/ (Preempt(c) /\ ~ irqoff[cur[c]])
    /\ UNCHANGED msgVars

Next ==
    /\ failed = "no"
    /\ \/ \E t \in Threads : Call(t) \/ Step(t)
       \/ \E c \in CPUs : Switch(c)

Spec == Init /\ [][Next]_vars

\* The scheduler and the timer are fair (module Scheduler), and a thread that
\* is dispatched again and again goes on with its system call.
Fairness ==
    /\ \A c \in CPUs : WF_vars(failed = "no" /\ Switch(c))
    /\ \A t \in Threads : SF_vars(failed = "no" /\ Step(t))

FairSpec == Spec /\ Fairness

-----------------------------------------------------------------------------
(***************************************************************************)
(* Properties                                                              *)
(***************************************************************************)

Labels == {"out", "newmsg_err3", "send_msg", "send_find", "send_box", "send", "send_ret3", "send_ret2",
           "recv_box", "recv", "recv_release", "recv_block", "recv_relock", "recv_woken", "recv_own",
           "recv_ret", "read", "read_ret", "delmsg_lock", "delmsg", "delbox_lock", "delbox"}

DataOK ==
    /\ owner \in [Locks -> Threads \cup {NULL}]
    /\ waitq \in [Locks -> Seq(Threads)]
    /\ msg_alct \subseteq Msgs
    /\ box_alct \subseteq Boxes
    /\ msg \in [Msgs -> [state : {"new", "blank", "UNSEND", "SENDED", "RECIEVED"},
                         owner : Procs \cup {NULL}]]
    /\ \A b \in Boxes :
        /\ box[b].state \in {"new", "RCVABLE", "RCV_BLK"}
        /\ box[b].owner \in Procs \cup {NULL}
        /\ box[b].blk \in Threads \cup {NULL}
        /\ box[b].msg_ls \in Seq(Msgs)
        /\ box[b].nmsg = Len(box[b].msg_ls)
    /\ pc \in [Threads -> Labels]
    /\ irqoff \in [Threads -> BOOLEAN]

TypeOK == DataOK /\ spin \in [Locks -> Threads \cup {NULL}]

\* Thread t sleeps in the schd_block of msg_recieve.
Asleep(t) == pc[t] = "recv_relock" /\ state[t] = "BLOCKED"

\* No wake-up is lost: msg_recieve sleeps only on a box that is empty and knows
\* the thread it has to wake up.
SleeperWakeable ==
    \A t \in Threads : Asleep(t) =>
        LET b == box[arg[t].box] IN b.state = "RCV_BLK" /\ b.blk = t /\ b.msg_ls = <<>>

\* The assertions of msg_recieve hold: nobody takes the message for which a
\* thread is woken up before that thread runs, and what a box holds was sent.
RecieverFindsMessage == failed \notin {"nmsg", "state"}

\* Neither a message on its way nor the box it is in is ever deleted, although
\* msg_send finds the box before it locks it.
QueuedIsListed ==
    \A b \in Boxes : \A i \in DOMAIN box[b].msg_ls : b \in box_alct /\ box[b].msg_ls[i] \in msg_alct

\* A message that was sent stays until it is taken, and is there for the
\* thread woken up for it: msg_send, msg_recieve and the two deletions agree
\* on the box between their locks, and nmsg counts the list.
SentIsThere == TypeOK /\ QueuedIsListed /\ RecieverFindsMessage

\* What a mailbox sees of the boxes and the messages
inbox == [b \in Boxes |-> box[b].msg_ls]

stage == [m \in Msgs |-> CASE msg[m].state = "SENDED" -> "queued"
                           [] msg[m].state = "RECIEVED" -> "taken"
                           [] OTHER -> "held"]

Mail == INSTANCE Mailbox

\* Messages are sent once, to one box, and taken once each, in order.
IsMailbox == Mail!Spec

\* A thread that disabled interrupts, between the intr_irq_save and the
\* intr_irq_restore of msg_recieve, spins for a spinlock whose holder lost the
\* CPU: on one CPU nothing runs again.
Stuck ==
    \E t \in Threads :
        /\ state[t] = "RUNNING" /\ irqoff[t]
        /\ \E x \in Locks : /\ x \in {Locking(t), Unlocking(t)}
                           /\ spin[x] \notin {NULL, t} /\ state[spin[x]] # "RUNNING"

\* The wake-up that msg_send sends arrives: the thread that waited for a box
\* makes it recievable again once a message is in it.  Two things can come in
\* between, the panic of a second send and a deadlock on a spinlock inside a mutex.
WokenRecieves ==
    \A b \in Boxes :
        box[b].state = "RCV_BLK" /\ box[b].msg_ls # <<>>
            ~> box[b].state = "RCVABLE" \/ failed # "no" \/ Stuck

-----------------------------------------------------------------------------
(***************************************************************************)
(* What the code asserts and does not keep                                 *)
(***************************************************************************)

\* schd_run is called on a BLOCKED thread only: panic("schd run bug.\n").
SendWakesBlocked == failed # "schd_run"
=============================================================================

----------------------------- MODULE MsgProofs -----------------------------
(***************************************************************************)
(* Messages and boxes of kernel/msg/msg.c lose neither a message nor a     *)
(* wake-up, for any number of CPUs, threads, messages and boxes.           *)
(*                                                                         *)
(* The argument: a message or a box that is deleted stays locked by the    *)
(* thread that deleted it, so that a thread that found it before and locks *)
(* it afterwards waits for good, and one that holds the mutex holds that   *)
(* of an object that can be found (FoundInv).  One thread at most waits    *)
(* for a box, from BOX_RCV_BLK on: either the box is empty and knows the   *)
(* thread, or the thread was woken up and its message is still there       *)
(* (WaitInv).                                                              *)
(***************************************************************************)
EXTENDS Msg, SchedTheorems

\* The labels at which a thread is about to lock its message (box), those at
\* which it waits for it, if the mutex was taken, and those at which it has it.
LocksMsg == {"send_msg", "read", "delmsg_lock"}
EntersMsg == {"send_find", "read_ret", "delmsg"}
HoldsMsg == {"newmsg_err3", "send_box", "send", "send_ret3", "send_ret2"}

LocksBox == {"send_box", "recv_block", "recv_relock", "recv_box", "delbox_lock"}
EntersBox == {"send", "recv", "recv_woken", "delbox"}
HoldsBox == {"send_ret3", "recv_release", "recv_own", "recv_ret"}

\* The labels from the beginning of the wait to its end
Waits == {"recv_release", "recv_block", "recv_relock", "recv_woken"}

Types ==
    /\ DataOK
    /\ box \in [Boxes -> [state : {"new", "RCVABLE", "RCV_BLK"}, owner : Procs \cup {NULL}, nmsg : Nat,
                          blk : Threads \cup {NULL}, msg_ls : Seq(Msgs)]]
    /\ arg \in [Threads -> [msg : Msgs \cup {NULL}, box : Boxes \cup {NULL}, block : BOOLEAN]]
    /\ \A t \in Threads :
        /\ pc[t] \in LocksMsg \cup EntersMsg \cup HoldsMsg \cup {"recv_own"} => arg[t].msg \in Msgs
        /\ pc[t] \in LocksBox \cup EntersBox \cup HoldsBox \cup {"send_msg", "send_find"} => arg[t].box \in Boxes

\* The mutexes: who waits for which, and who has which.
QueueInv ==
    /\ \A x \in Locks : NoDuplicates(waitq[x]) /\ (owner[x] = NULL => waitq[x] = <<>>)
    /\ \A x \in Locks, t \in Threads : InQueue(waitq[x], t) =>
        /\ state[t] = "BLOCKED" /\ owner[x] # t
        /\ \/ pc[t] \in EntersMsg /\ x = arg[t].msg
           \/ pc[t] \in EntersBox /\ x = arg[t].box

HoldInv == \A t \in Threads :
    /\ pc[t] \in HoldsMsg => owner[arg[t].msg] = t
    /\ pc[t] \in HoldsBox => owner[arg[t].box] = t
    /\ pc[t] \in EntersMsg => owner[arg[t].msg] = t \/ InQueue(waitq[arg[t].msg], t)
    /\ pc[t] \in EntersBox => owner[arg[t].box] = t \/ InQueue(waitq[arg[t].box], t)

\* What can be found is locked only by a thread that is at work with it; what
\* cannot be found any more is locked by another thread.
FoundInv ==
    /\ \A m \in Msgs : msg[m].state = "new" => owner[m] = NULL /\ m \notin msg_alct
    /\ \A b \in Boxes : box[b].state = "new" => owner[b] = NULL /\ b \notin box_alct
    /\ \A t \in Threads : \A m \in msg_alct :
        owner[m] = t => pc[t] \in EntersMsg \cup HoldsMsg /\ arg[t].msg = m
    /\ \A t \in Threads : \A b \in box_alct :
        owner[b] = t => pc[t] \in EntersBox \cup HoldsBox /\ arg[t].box = b
    /\ \A t \in Threads : pc[t] \in LocksMsg \cup EntersMsg \cup HoldsMsg /\ arg[t].msg \notin msg_alct =>
        owner[arg[t].msg] \notin {NULL, t}
    /\ \A t \in Threads : pc[t] \in LocksBox \cup EntersBox \cup HoldsBox /\ arg[t].box \notin box_alct =>
        owner[arg[t].box] \notin {NULL, t}

\* Who sleeps: a thread in the queue of a mutex and the thread that waits for a
\* box.
SleepInv == \A t \in Threads :
    /\ state[t] = "BLOCKED" => \/ pc[t] = "recv_relock"
                               \/ pc[t] \in EntersMsg /\ InQueue(waitq[arg[t].msg], t)
                               \/ pc[t] \in EntersBox /\ InQueue(waitq[arg[t].box], t)
    /\ state[t] = "UNSCHDED" => pc[t] = "out"

\* Thread t waits for box b, which knows it.
Known(t, b) == box[b].blk = t /\ box[b].msg_ls = <<>>

\* Thread t was woken up for a message in box b.
Woken(b) == box[b].blk = NULL /\ box[b].msg_ls # <<>>

WaitInv ==
    /\ \A t, u \in Threads : pc[t] \in Waits /\ pc[u] \in Waits /\ arg[t].box = arg[u].box => t = u
    /\ \A t \in Threads :
        /\ pc[t] \in Waits => box[arg[t].box].state = "RCV_BLK"
        /\ pc[t] \in {"recv_release", "recv_block"} => Known(t, arg[t].box)
        /\ pc[t] = "recv_relock" => IF state[t] = "BLOCKED" THEN Known(t, arg[t].box) ELSE Woken(arg[t].box)
        /\ pc[t] = "recv_woken" => Woken(arg[t].box)
    /\ \A b \in Boxes : box[b].state = "RCV_BLK" /\ box[b].blk # NULL =>
        pc[box[b].blk] \in Waits /\ arg[box[b].blk].box = b

\* A message in a box was sent, is in that box only and there once, and neither
\* it nor the box is deleted.
SentInv ==
    /\ \A b \in Boxes : NoDuplicates(box[b].msg_ls)
    /\ \A b \in Boxes : \A m \in Msgs : InQueue(box[b].msg_ls, m) =>
        b \in box_alct /\ m \in msg_alct /\ msg[m].state = "SENDED"
    /\ \A b, d \in Boxes : \A m \in Msgs : InQueue(box[b].msg_ls, m) /\ InQueue(box[d].msg_ls, m) => b = d
    /\ \A t \in Threads : pc[t] = "newmsg_err3" => msg[arg[t].msg].state # "SENDED"

Inv == /\ Types /\ SchedInv /\ QueueInv /\ HoldInv /\ FoundInv /\ SleepInv /\ WaitInv /\ SentInv
       /\ RecieverFindsMessage

USE SchedAssumption, MsgAssumption, ZenonT(5), SMTT(30)

ArgType == [msg : Msgs \cup {NULL}, box : Boxes \cup {NULL}, block : BOOLEAN]

LEMMA InitInv == Init => Inv
<1> SUFFICES ASSUME Init PROVE Inv
    OBVIOUS
<1> USE DEF Init, MsgInit, MutexesInit
<1>1. SchedInv
    BY SchedInitInv
<1>2. /\ \A m \in Msgs : msg[m] = NoMsg
      /\ \A b \in Boxes : box[b] = NoBox
      /\ msg_alct = {} /\ box_alct = {}
    BY DEF NoMsg, NoBox
<1>3. <<>> \in Seq(Msgs) /\ <<>> \in Seq(Threads) /\ Len(<<>>) = 0
    BY QueueEmpty
<1>4. Types
    <2>1. irqoff \in [Threads -> BOOLEAN]
        BY Zenon
    <2>2. NoArg \in [msg : Msgs \cup {NULL}, box : Boxes \cup {NULL}, block : BOOLEAN]
        BY DEF NoArg
    <2>3. DataOK
        BY <1>2, <1>3, <2>1 DEF DataOK, NoMsg, NoBox, Labels
    <2>4. arg \in [Threads -> [msg : Msgs \cup {NULL}, box : Boxes \cup {NULL}, block : BOOLEAN]]
        BY <2>2
    <2>5. box \in [Boxes -> [state : {"new", "RCVABLE", "RCV_BLK"}, owner : Procs \cup {NULL}, nmsg : Nat,
                             blk : Threads \cup {NULL}, msg_ls : Seq(Msgs)]]
        BY <1>3 DEF NoBox
    <2> QED BY <2>3, <2>4, <2>5 DEF Types, LocksMsg, EntersMsg, HoldsMsg, LocksBox, EntersBox, HoldsBox
<1>5. QueueInv
    BY DEF QueueInv, NoDuplicates, InQueue
<1>6. HoldInv
    BY DEF HoldInv, EntersMsg, HoldsMsg, EntersBox, HoldsBox
<1>7. FoundInv
    BY <1>2 DEF FoundInv, LocksMsg, EntersMsg, HoldsMsg, LocksBox, EntersBox, HoldsBox
<1>8. SleepInv
    BY DEF SleepInv, SchedInit
<1>9. WaitInv
    BY <1>2 DEF WaitInv, Waits, NoBox
<1>10. SentInv /\ RecieverFindsMessage
    BY <1>2 DEF SentInv, RecieverFindsMessage, NoBox, NoDuplicates, InQueue
<1> QED BY <1>1, <1>4, <1>5, <1>6, <1>7, <1>8, <1>9, <1>10 DEF Inv

\* A step that changes neither the threads' places in msg.c nor the data.
LEMMA SameData ==
    ASSUME Inv, UNCHANGED <<mutexesVars, dataVars, pc, arg, irqoff>>,
           failed' \notin {"nmsg", "state"}, SchedInv',
           \A u \in Threads : state'[u] = "BLOCKED" <=> state[u] = "BLOCKED",
           \A u \in Threads : state'[u] = "UNSCHDED" => state[u] = "UNSCHDED"
    PROVE  Inv'
<1> USE DEF Inv, mutexesVars, dataVars
<1>1. Types'
    BY DEF Types, DataOK
<1>2. QueueInv' /\ HoldInv' /\ FoundInv'
    <2>1. QueueInv'
        BY DEF QueueInv
    <2>2. HoldInv'
        BY DEF HoldInv
    <2>3. FoundInv'
        BY DEF FoundInv
    <2> QED BY <2>1, <2>2, <2>3
<1>3. SleepInv' /\ SentInv' /\ RecieverFindsMessage'
    BY DEF SleepInv, SentInv, RecieverFindsMessage
<1>4. WaitInv'
    BY DEF WaitInv, Known, Woken
<1> QED BY <1>1, <1>2, <1>3, <1>4

LEMMA FailInv ==
    ASSUME Inv, NEW what, Fail(what), what \notin {"nmsg", "state"} PROVE Inv'
<1>1. SchedInv' /\ state' = state
    BY SchedStutterInv DEF Fail, Inv, schedVars
<1> QED BY <1>1, SameData DEF Fail

\* Who holds the spinlock of a mutex is no part of the invariant.
LEMMA spin_lockInv ==
    ASSUME Inv, NEW t \in Threads, spin_lock(t) PROVE Inv'
<1>1. UNCHANGED <<schedVars, mutexesVars, dataVars, pc, arg, irqoff, failed>>
    BY DEF spin_lock
<1>2. SchedInv' /\ state' = state
    BY <1>1, SchedStutterInv DEF Inv, schedVars
<1>3. failed' \notin {"nmsg", "state"}
    BY <1>1 DEF Inv, RecieverFindsMessage
<1> QED BY <1>1, <1>2, <1>3, SameData

LEMMA SwitchInv ==
    ASSUME Inv, NEW c \in CPUs, Switch(c) PROVE Inv'
<1>1. SchedInv /\ failed \notin {"nmsg", "state"} /\ UNCHANGED msgVars
    BY DEF Inv, RecieverFindsMessage, Switch
<1>2. /\ SchedInv'
      /\ \E t \in Threads, s \in {"RUNNABEL", "RUNNING"} : Moves(t, {"RUNNABEL", "RUNNING"}, s)
    <2>1. CASE Dispatch(c)
        BY <1>1, <2>1, DispatchInv DEF Moves
    <2>2. CASE Preempt(c)
        <3>1. SchedInv' /\ Moves(cur[c], {"RUNNING"}, "RUNNABEL")
            BY <1>1, <2>2, PreemptInv
        <3> QED BY <3>1 DEF Moves
    <2> QED BY <2>1, <2>2 DEF Switch
<1>3. PICK t \in Threads, s \in {"RUNNABEL", "RUNNING"} : Moves(t, {"RUNNABEL", "RUNNING"}, s)
    BY <1>2
<1>4. /\ \A u \in Threads : state'[u] = "BLOCKED" <=> state[u] = "BLOCKED"
      /\ \A u \in Threads : state'[u] = "UNSCHDED" => state[u] = "UNSCHDED"
    BY <1>1, <1>3 DEF Moves, SchedInv, SchedTypeOK
<1> QED BY <1>1, <1>2, <1>4, SameData DEF msgVars

-----------------------------------------------------------------------------
(***************************************************************************)
(* What the conjuncts of the invariant take to be kept by a step           *)
(***************************************************************************)

\* The queues stay, and so do those in them.
LEMMA QueueKept ==
    ASSUME QueueInv, UNCHANGED waitq,
           \A x \in Locks : owner'[x] = NULL => owner[x] = NULL,
           \A x \in Locks, u \in Threads : InQueue(waitq[x], u) =>
               state'[u] = "BLOCKED" /\ owner'[x] # u /\ pc'[u] = pc[u] /\ arg'[u] = arg[u]
    PROVE  QueueInv'
<1>1. ASSUME NEW x \in Locks
      PROVE  NoDuplicates(waitq'[x]) /\ (owner'[x] = NULL => waitq'[x] = <<>>)
    BY DEF QueueInv
<1>2. ASSUME NEW x \in Locks, NEW u \in Threads, InQueue(waitq'[x], u)
      PROVE  /\ state'[u] = "BLOCKED" /\ owner'[x] # u
             /\ \/ pc'[u] \in EntersMsg /\ x = arg'[u].msg
                \/ pc'[u] \in EntersBox /\ x = arg'[u].box
    <2>1. InQueue(waitq[x], u)
        BY <1>2
    <2>2. state'[u] = "BLOCKED" /\ owner'[x] # u /\ pc'[u] = pc[u] /\ arg'[u] = arg[u]
        BY <2>1
    <2>3. \/ pc[u] \in EntersMsg /\ x = arg[u].msg
          \/ pc[u] \in EntersBox /\ x = arg[u].box
        BY <2>1 DEF QueueInv
    <2> QED BY <2>2, <2>3
<1> QED BY <1>1, <1>2 DEF QueueInv

\* One thread t moves; the others have what they had of what can be found.
LEMMA FoundKept ==
    ASSUME FoundInv, NEW t \in Threads,
           \A u \in Threads : u # t => pc'[u] = pc[u] /\ arg'[u] = arg[u],
           \A m \in Msgs : msg'[m].state = "new" => owner'[m] = NULL /\ m \notin msg_alct',
           \A b \in Boxes : box'[b].state = "new" => owner'[b] = NULL /\ b \notin box_alct',
           \A m \in msg_alct' : owner'[m] = t => pc'[t] \in EntersMsg \cup HoldsMsg /\ arg'[t].msg = m,
           \A b \in box_alct' : owner'[b] = t => pc'[t] \in EntersBox \cup HoldsBox /\ arg'[t].box = b,
           pc'[t] \in LocksMsg \cup EntersMsg \cup HoldsMsg /\ arg'[t].msg \notin msg_alct' =>
               owner'[arg'[t].msg] \notin {NULL, t},
           pc'[t] \in LocksBox \cup EntersBox \cup HoldsBox /\ arg'[t].box \notin box_alct' =>
               owner'[arg'[t].box] \notin {NULL, t},
           \A u \in Threads : u # t => \A m \in msg_alct' : owner'[m] = u => m \in msg_alct /\ owner[m] = u,
           \A u \in Threads : u # t => \A b \in box_alct' : owner'[b] = u => b \in box_alct /\ owner[b] = u,
           \A u \in Threads : u # t /\ pc[u] \in LocksMsg \cup EntersMsg \cup HoldsMsg /\ arg[u].msg \notin msg_alct' =>
               owner'[arg[u].msg] \notin {NULL, u},
           \A u \in Threads : u # t /\ pc[u] \in LocksBox \cup EntersBox \cup HoldsBox /\ arg[u].box \notin box_alct' =>
               owner'[arg[u].box] \notin {NULL, u}
    PROVE  FoundInv'
<1>1. ASSUME NEW u \in Threads, NEW m \in msg_alct', owner'[m] = u
      PROVE  pc'[u] \in EntersMsg \cup HoldsMsg /\ arg'[u].msg = m
    <2>1. CASE u = t
        BY <1>1, <2>1
    <2>2. CASE u # t
        <3>1. m \in msg_alct /\ owner[m] = u /\ pc'[u] = pc[u] /\ arg'[u] = arg[u]
            BY <1>1, <2>2
        <3>2. pc[u] \in EntersMsg \cup HoldsMsg /\ arg[u].msg = m
            BY <3>1 DEF FoundInv
        <3> QED BY <3>1, <3>2
    <2> QED BY <2>1, <2>2
<1>2. ASSUME NEW u \in Threads, NEW b \in box_alct', owner'[b] = u
      PROVE  pc'[u] \in EntersBox \cup HoldsBox /\ arg'[u].box = b
    <2>1. CASE u = t
        BY <1>2, <2>1
    <2>2. CASE u # t
        <3>1. b \in box_alct /\ owner[b] = u /\ pc'[u] = pc[u] /\ arg'[u] = arg[u]
            BY <1>2, <2>2
        <3>2. pc[u] \in EntersBox \cup HoldsBox /\ arg[u].box = b
            BY <3>1 DEF FoundInv
        <3> QED BY <3>1, <3>2
    <2> QED BY <2>1, <2>2
<1>3. ASSUME NEW u \in Threads, pc'[u] \in LocksMsg \cup EntersMsg \cup HoldsMsg, arg'[u].msg \notin msg_alct'
      PROVE  owner'[arg'[u].msg] \notin {NULL, u}
    <2>1. CASE u = t
        BY <1>3, <2>1
    <2>2. CASE u # t
        <3>1. pc'[u] = pc[u] /\ arg'[u] = arg[u]
            BY <2>2
        <3> QED BY <1>3, <2>2, <3>1
    <2> QED BY <2>1, <2>2
<1>4. ASSUME NEW u \in Threads, pc'[u] \in LocksBox \cup EntersBox \cup HoldsBox, arg'[u].box \notin box_alct'
      PROVE  owner'[arg'[u].box] \notin {NULL, u}
    <2>1. CASE u = t
        BY <1>4, <2>1
    <2>2. CASE u # t
        <3>1. pc'[u] = pc[u] /\ arg'[u] = arg[u]
            BY <2>2
        <3> QED BY <1>4, <2>2, <3>1
    <2> QED BY <2>1, <2>2
<1> QED BY <1>1, <1>2, <1>3, <1>4 DEF FoundInv

\* The same when neither the mutexes change nor what can be found.
LEMMA FoundSame ==
    ASSUME FoundInv, NEW t \in Threads, UNCHANGED <<owner, msg_alct, box_alct>>,
           \A u \in Threads : u # t => pc'[u] = pc[u] /\ arg'[u] = arg[u],
           \A m \in Msgs : msg'[m].state = "new" => msg[m].state = "new",
           \A b \in Boxes : box'[b].state = "new" => box[b].state = "new",
           \A m \in msg_alct : owner[m] = t => pc'[t] \in EntersMsg \cup HoldsMsg /\ arg'[t].msg = m,
           \A b \in box_alct : owner[b] = t => pc'[t] \in EntersBox \cup HoldsBox /\ arg'[t].box = b,
           pc'[t] \in LocksMsg \cup EntersMsg \cup HoldsMsg /\ arg'[t].msg \notin msg_alct =>
               owner[arg'[t].msg] \notin {NULL, t},
           pc'[t] \in LocksBox \cup EntersBox \cup HoldsBox /\ arg'[t].box \notin box_alct =>
               owner[arg'[t].box] \notin {NULL, t}
    PROVE  FoundInv'
<1>1. /\ \A m \in Msgs : msg'[m].state = "new" => owner'[m] = NULL /\ m \notin msg_alct'
      /\ \A b \in Boxes : box'[b].state = "new" => owner'[b] = NULL /\ b \notin box_alct'
    <2>1. ASSUME NEW m \in Msgs, msg'[m].state = "new" PROVE owner[m] = NULL /\ m \notin msg_alct
        BY <2>1 DEF FoundInv
    <2>2. ASSUME NEW b \in Boxes, box'[b].state = "new" PROVE owner[b] = NULL /\ b \notin box_alct
        BY <2>2 DEF FoundInv
    <2> QED BY <2>1, <2>2
<1>2. \A u \in Threads : pc[u] \in LocksMsg \cup EntersMsg \cup HoldsMsg /\ arg[u].msg \notin msg_alct =>
          owner[arg[u].msg] \notin {NULL, u}
    BY DEF FoundInv
<1>3. \A u \in Threads : pc[u] \in LocksBox \cup EntersBox \cup HoldsBox /\ arg[u].box \notin box_alct =>
          owner[arg[u].box] \notin {NULL, u}
    BY DEF FoundInv
<1>4. /\ \A m \in msg_alct' : owner'[m] = t => pc'[t] \in EntersMsg \cup HoldsMsg /\ arg'[t].msg = m
      /\ \A b \in box_alct' : owner'[b] = t => pc'[t] \in EntersBox \cup HoldsBox /\ arg'[t].box = b
    OBVIOUS
<1>5. /\ pc'[t] \in LocksMsg \cup EntersMsg \cup HoldsMsg /\ arg'[t].msg \notin msg_alct' =>
          owner'[arg'[t].msg] \notin {NULL, t}
      /\ pc'[t] \in LocksBox \cup EntersBox \cup HoldsBox /\ arg'[t].box \notin box_alct' =>
          owner'[arg'[t].box] \notin {NULL, t}
    OBVIOUS
<1>6. /\ \A u \in Threads : u # t => \A m \in msg_alct' : owner'[m] = u => m \in msg_alct /\ owner[m] = u
      /\ \A u \in Threads : u # t => \A b \in box_alct' : owner'[b] = u => b \in box_alct /\ owner[b] = u
    OBVIOUS
<1>7. /\ \A u \in Threads : u # t /\ pc[u] \in LocksMsg \cup EntersMsg \cup HoldsMsg /\ arg[u].msg \notin msg_alct' =>
             owner'[arg[u].msg] \notin {NULL, u}
      /\ \A u \in Threads : u # t /\ pc[u] \in LocksBox \cup EntersBox \cup HoldsBox /\ arg[u].box \notin box_alct' =>
             owner'[arg[u].box] \notin {NULL, u}
    BY <1>2, <1>3
<1> QED BY <1>1, <1>4, <1>5, <1>6, <1>7, FoundKept

\* A thread that waits stays where it is or goes on as msg_recieve does.
LEMMA WaitMoves ==
    ASSUME Inv,
           \A u \in Threads : pc'[u] \in Waits <=> pc[u] \in Waits,
           \A u \in Threads : pc[u] \in Waits => arg'[u].box = arg[u].box,
           \A u \in Threads : pc'[u] \in {"recv_release", "recv_block"} => pc[u] \in {"recv_release", "recv_block"},
           \A u \in Threads : pc'[u] = "recv_relock" =>
               pc[u] = "recv_relock" /\ (state'[u] = "BLOCKED" <=> state[u] = "BLOCKED"),
           \A u \in Threads : pc'[u] = "recv_woken" =>
               pc[u] = "recv_woken" \/ (pc[u] = "recv_relock" /\ state[u] # "BLOCKED"),
           \A b \in Boxes : /\ box'[b].state = "RCV_BLK" <=> box[b].state = "RCV_BLK"
                            /\ box'[b].blk = box[b].blk /\ box'[b].msg_ls = box[b].msg_ls
    PROVE  WaitInv'
<1>1. /\ WaitInv
      /\ \A u \in Threads : pc[u] \in Waits => arg[u].box \in Boxes
      /\ \A b \in Boxes : box[b].blk # NULL => box[b].blk \in Threads
    BY DEF Inv, Types, DataOK, Waits, LocksBox, EntersBox, HoldsBox
<1>2. ASSUME NEW u \in Threads, NEW w \in Threads, pc'[u] \in Waits, pc'[w] \in Waits, arg'[u].box = arg'[w].box
      PROVE  u = w
    <2>1. pc[u] \in Waits /\ pc[w] \in Waits
        BY <1>2
    <2>2. arg[u].box = arg[w].box
        BY <1>2, <2>1
    <2> QED BY <1>1, <2>1, <2>2 DEF WaitInv
<1>3. ASSUME NEW b \in Boxes, box'[b].state = "RCV_BLK", box'[b].blk # NULL
      PROVE  pc'[box'[b].blk] \in Waits /\ arg'[box'[b].blk].box = b
    <2>1. box[b].state = "RCV_BLK" /\ box[b].blk # NULL /\ box[b].blk \in Threads /\ box'[b].blk = box[b].blk
        BY <1>1, <1>3
    <2>2. pc[box[b].blk] \in Waits /\ arg[box[b].blk].box = b
        BY <1>1, <2>1 DEF WaitInv
    <2>3. pc'[box[b].blk] \in Waits /\ arg'[box[b].blk].box = b
        BY <2>1, <2>2
    <2> QED BY <2>1, <2>3
<1>4. ASSUME NEW u \in Threads, pc'[u] \in Waits
      PROVE  /\ arg'[u].box = arg[u].box /\ arg[u].box \in Boxes /\ box'[arg[u].box].state = "RCV_BLK"
             /\ Known(u, arg[u].box)' <=> Known(u, arg[u].box)
             /\ Woken(arg[u].box)' <=> Woken(arg[u].box)
    <2>1. pc[u] \in Waits
        BY <1>4
    <2>2. arg'[u].box = arg[u].box /\ arg[u].box \in Boxes /\ box[arg[u].box].state = "RCV_BLK"
        BY <1>1, <2>1 DEF WaitInv
    <2>3. /\ box'[arg[u].box].state = "RCV_BLK" /\ box'[arg[u].box].blk = box[arg[u].box].blk
          /\ box'[arg[u].box].msg_ls = box[arg[u].box].msg_ls
        BY <2>2
    <2>4. Known(u, arg[u].box)' <=> Known(u, arg[u].box)
        BY <2>2, <2>3 DEF Known
    <2>5. Woken(arg[u].box)' <=> Woken(arg[u].box)
        BY <2>2, <2>3 DEF Woken
    <2> QED BY <2>2, <2>3, <2>4, <2>5
<1>5. ASSUME NEW u \in Threads
      PROVE  /\ pc'[u] \in Waits => box'[arg'[u].box].state = "RCV_BLK"
             /\ pc'[u] \in {"recv_release", "recv_block"} => Known(u, arg[u].box)'
             /\ pc'[u] = "recv_relock" => IF state'[u] = "BLOCKED" THEN Known(u, arg[u].box)' ELSE Woken(arg[u].box)'
             /\ pc'[u] = "recv_woken" => Woken(arg[u].box)'
    <2>1. /\ pc[u] \in {"recv_release", "recv_block"} => Known(u, arg[u].box)
          /\ pc[u] = "recv_relock" => IF state[u] = "BLOCKED" THEN Known(u, arg[u].box) ELSE Woken(arg[u].box)
          /\ pc[u] = "recv_woken" => Woken(arg[u].box)
        BY <1>1 DEF WaitInv
    <2>2. pc'[u] \in {"recv_release", "recv_block", "recv_relock", "recv_woken"} => pc'[u] \in Waits
        BY DEF Waits
    <2>3. pc'[u] \in Waits => box'[arg'[u].box].state = "RCV_BLK"
        BY <1>4
    <2>4. pc'[u] \in {"recv_release", "recv_block"} => Known(u, arg[u].box)'
        BY <1>4, <2>1, <2>2
    <2>5. pc'[u] = "recv_relock" => IF state'[u] = "BLOCKED" THEN Known(u, arg[u].box)' ELSE Woken(arg[u].box)'
        BY <1>4, <2>1, <2>2
    <2>6. pc'[u] = "recv_woken" => Woken(arg[u].box)'
        BY <1>4, <2>1, <2>2
    <2> QED BY <2>3, <2>4, <2>5, <2>6
<1> QED BY <1>2, <1>3, <1>5 DEF WaitInv

-----------------------------------------------------------------------------
(***************************************************************************)
(* Steps that only change where a thread is                                *)
(***************************************************************************)

AllMsg == LocksMsg \cup EntersMsg \cup HoldsMsg
AllBox == LocksBox \cup EntersBox \cup HoldsBox

\* Thread t goes to label l with the arguments a.
Goes(t, l, a) ==
    /\ pc' \in [Threads -> Labels] /\ \A u \in Threads : pc'[u] = IF u = t THEN l ELSE pc[u]
    /\ arg' \in [Threads -> ArgType] /\ \A u \in Threads : arg'[u] = IF u = t THEN a ELSE arg[u]

\* What label l requires of its arguments
ArgsFor(l, a) ==
    /\ l \in AllMsg \cup {"recv_own"} => a.msg \in Msgs
    /\ l \in AllBox \cup {"send_msg", "send_find"} => a.box \in Boxes

LEMMA GoesArgs ==
    ASSUME Types, NEW t \in Threads, NEW l, NEW a, Goes(t, l, a), ArgsFor(l, a),
           UNCHANGED <<mutexesVars, dataVars>>, irqoff' \in [Threads -> BOOLEAN]
    PROVE  Types'
<1>1. DataOK'
    BY DEF Types, DataOK, Goes, mutexesVars, dataVars
<1> QED BY <1>1 DEF Types, Goes, ArgType, ArgsFor, AllMsg, AllBox, dataVars

\* Thread t may go to label l with the arguments a: it has what it needs at l
\* and nothing else that can be found.
MayGo(t, l, a) ==
    /\ l \in HoldsMsg \cup EntersMsg => owner[a.msg] = t
    /\ l \in HoldsBox \cup EntersBox => owner[a.box] = t
    /\ \A m \in msg_alct : owner[m] = t => l \in EntersMsg \cup HoldsMsg /\ a.msg = m
    /\ \A b \in box_alct : owner[b] = t => l \in EntersBox \cup HoldsBox /\ a.box = b
    /\ l \in AllMsg /\ a.msg \notin msg_alct => owner[a.msg] \notin {NULL, t}
    /\ l \in AllBox /\ a.box \notin box_alct => owner[a.box] \notin {NULL, t}
    /\ l \notin Waits /\ pc[t] \notin Waits /\ l # "newmsg_err3"

LEMMA ControlInv ==
    ASSUME Inv, NEW t \in Threads, state[t] = "RUNNING", NEW l, NEW a, Goes(t, l, a), ArgsFor(l, a),
           UNCHANGED <<schedVars, mutexesVars, dataVars, failed>>, irqoff' \in [Threads -> BOOLEAN],
           MayGo(t, l, a)
    PROVE  Inv'
<1> USE DEF Inv
<1> SUFFICES ASSUME
                 l \in HoldsMsg \cup EntersMsg => owner[a.msg] = t,
                 l \in HoldsBox \cup EntersBox => owner[a.box] = t,
                 \A m \in msg_alct : owner[m] = t => l \in EntersMsg \cup HoldsMsg /\ a.msg = m,
                 \A b \in box_alct : owner[b] = t => l \in EntersBox \cup HoldsBox /\ a.box = b,
                 l \in AllMsg /\ a.msg \notin msg_alct => owner[a.msg] \notin {NULL, t},
                 l \in AllBox /\ a.box \notin box_alct => owner[a.box] \notin {NULL, t},
                 l \notin Waits, pc[t] \notin Waits, l # "newmsg_err3"
             PROVE  Inv'
    BY DEF MayGo
<1>1. SchedInv' /\ state' = state
    BY SchedStutterInv DEF schedVars
<1>2. Types'
    BY GoesArgs
<1>3. /\ UNCHANGED <<owner, waitq, msg_alct, box_alct, msg, box, failed>>
      /\ \A u \in Threads : pc'[u] = IF u = t THEN l ELSE pc[u]
      /\ \A u \in Threads : arg'[u] = IF u = t THEN a ELSE arg[u]
    BY DEF Goes, mutexesVars, dataVars
<1>4. QueueInv'
    <2>1. \A x \in Locks, u \in Threads : InQueue(waitq[x], u) => state[u] = "BLOCKED" /\ owner[x] # u
        BY DEF QueueInv
    <2>2. ASSUME NEW x \in Locks, NEW u \in Threads, InQueue(waitq[x], u)
          PROVE  state'[u] = "BLOCKED" /\ owner'[x] # u /\ pc'[u] = pc[u] /\ arg'[u] = arg[u]
        <3>1. u # t /\ state[u] = "BLOCKED" /\ owner[x] # u
            BY <2>1, <2>2
        <3> QED BY <1>1, <1>3, <3>1
    <2>3. UNCHANGED <<waitq, owner>> /\ QueueInv
        BY <1>3
    <2> HIDE DEF Inv
    <2> QED BY <2>2, <2>3, QueueKept
<1>5. HoldInv'
    <2>1. ASSUME NEW u \in Threads, u # t
          PROVE  /\ pc'[u] \in HoldsMsg => owner'[arg'[u].msg] = u
                 /\ pc'[u] \in HoldsBox => owner'[arg'[u].box] = u
                 /\ pc'[u] \in EntersMsg => owner'[arg'[u].msg] = u \/ InQueue(waitq'[arg'[u].msg], u)
                 /\ pc'[u] \in EntersBox => owner'[arg'[u].box] = u \/ InQueue(waitq'[arg'[u].box], u)
        <3>1. pc'[u] = pc[u] /\ arg'[u] = arg[u] /\ owner' = owner /\ waitq' = waitq
            BY <1>3, <2>1
        <3> QED BY <3>1 DEF HoldInv
    <2>2. /\ pc'[t] \in HoldsMsg \cup EntersMsg => owner'[arg'[t].msg] = t
          /\ pc'[t] \in HoldsBox \cup EntersBox => owner'[arg'[t].box] = t
        BY <1>3
    <2> QED BY <2>1, <2>2 DEF HoldInv
<1>6. FoundInv'
    <2>0. pc'[t] = l /\ arg'[t] = a /\ UNCHANGED <<owner, msg_alct, box_alct, msg, box>>
        BY <1>3
    <2>1. \A u \in Threads : u # t => pc'[u] = pc[u] /\ arg'[u] = arg[u]
        BY <1>3
    <2>2. /\ \A m \in msg_alct : owner[m] = t => pc'[t] \in EntersMsg \cup HoldsMsg /\ arg'[t].msg = m
          /\ \A b \in box_alct : owner[b] = t => pc'[t] \in EntersBox \cup HoldsBox /\ arg'[t].box = b
        BY <2>0
    <2>3. /\ pc'[t] \in LocksMsg \cup EntersMsg \cup HoldsMsg /\ arg'[t].msg \notin msg_alct =>
               owner[arg'[t].msg] \notin {NULL, t}
          /\ pc'[t] \in LocksBox \cup EntersBox \cup HoldsBox /\ arg'[t].box \notin box_alct =>
               owner[arg'[t].box] \notin {NULL, t}
        BY <2>0 DEF AllMsg, AllBox
    <2>4. FoundInv
        OBVIOUS
    <2> HIDE DEF Inv
    <2> QED BY <2>0, <2>1, <2>2, <2>3, <2>4, FoundSame
<1>7. SleepInv'
    BY <1>1, <1>3 DEF SleepInv
<1>8. WaitInv'
    <2>1. l # "recv_release" /\ l # "recv_block" /\ l # "recv_relock" /\ l # "recv_woken"
        BY DEF Waits
    <2>2. /\ \A u \in Threads : pc'[u] \in Waits <=> pc[u] \in Waits
          /\ \A u \in Threads : pc[u] \in Waits => arg'[u].box = arg[u].box
        BY <1>3
    <2>3. \A u \in Threads : pc'[u] \in {"recv_release", "recv_block", "recv_relock", "recv_woken"} => pc'[u] = pc[u]
        BY <1>3, <2>1
    <2>4. state' = state /\ box' = box
        BY <1>1, <1>3
    <2> HIDE DEF Inv
    <2> QED BY <2>2, <2>3, <2>4, WaitMoves
<1>9. SentInv' /\ RecieverFindsMessage'
    BY <1>3 DEF SentInv, RecieverFindsMessage
<1> QED BY <1>1, <1>2, <1>4, <1>5, <1>6, <1>7, <1>8, <1>9

-----------------------------------------------------------------------------
(***************************************************************************)
(* The mutexes                                                             *)
(***************************************************************************)

\* Thread t gets the free mutex x; it queues for x; x is left free; x goes to the
\* waiting thread h.
Got(t, x) ==
    /\ owner[x] = NULL /\ UNCHANGED <<state, waitq>>
    /\ \A y \in Locks : owner'[y] = IF y = x THEN t ELSE owner[y]

Queued(t, x) ==
    /\ owner[x] # NULL /\ UNCHANGED owner
    /\ \A y \in Locks : NoDuplicates(waitq'[y]) /\ (y # x => waitq'[y] = waitq[y])
    /\ \A y \in Locks : \A u : InQueue(waitq'[y], u) <=> InQueue(waitq[y], u) \/ (y = x /\ u = t)
    /\ \A u \in Threads : state'[u] = IF u = t THEN "BLOCKED" ELSE state[u]

Freed(x) ==
    /\ waitq[x] = <<>> /\ UNCHANGED <<state, waitq>>
    /\ \A y \in Locks : owner'[y] = IF y = x THEN NULL ELSE owner[y]

HandedOver(x, h) ==
    /\ InQueue(waitq[x], h)
    /\ \A y \in Locks : owner'[y] = IF y = x THEN h ELSE owner[y]
    /\ \A y \in Locks : NoDuplicates(waitq'[y]) /\ (y # x => waitq'[y] = waitq[y])
    /\ \A y \in Locks : \A u : InQueue(waitq'[y], u) <=> InQueue(waitq[y], u) /\ ~ (y = x /\ u = h)
    /\ \A u \in Threads : state'[u] = IF u = h THEN "RUNNABEL" ELSE state[u]

LEMMA LockStep ==
    ASSUME Inv, NEW t \in Threads, NEW x \in Locks, ~ InQueue(waitq[x], t), mutex_lock(t, x)
    PROVE  /\ SchedInv'
           /\ owner' \in [Locks -> Threads \cup {NULL}] /\ waitq' \in [Locks -> Seq(Threads)]
           /\ Got(t, x) \/ Queued(t, x)
<1>1. /\ SchedInv /\ owner \in [Locks -> Threads \cup {NULL}] /\ waitq \in [Locks -> Seq(Threads)]
      /\ \A y \in Locks : NoDuplicates(waitq[y])
    BY DEF Inv, Types, DataOK, QueueInv
<1>2. CASE owner[x] = NULL
    <2>1. owner' = [owner EXCEPT ![x] = t] /\ UNCHANGED <<schedVars, waitq>>
        BY <1>2 DEF mutex_lock
    <2>2. SchedInv' /\ state' = state
        BY <1>1, <2>1, SchedStutterInv DEF schedVars
    <2> QED BY <1>1, <1>2, <2>1, <2>2 DEF Got
<1>3. CASE owner[x] # NULL
    <2> DEFINE q == waitq[x]
    <2>1. waitq' = [waitq EXCEPT ![x] = Append(q, t)] /\ owner' = owner
        BY <1>3 DEF mutex_lock
    <2>2. PICK c \in CPUs : cur[c] = t /\ Block(c)
        BY <1>3 DEF mutex_lock
    <2>3. SchedInv' /\ \A u \in Threads : state'[u] = IF u = t THEN "BLOCKED" ELSE state[u]
        BY <1>1, <2>2, BlockStates
    <2>4. /\ Append(q, t) \in Seq(Threads) /\ NoDuplicates(Append(q, t))
          /\ \A u : InQueue(Append(q, t), u) <=> InQueue(q, u) \/ u = t
        BY <1>1, QueueAppend
    <2> HIDE DEF q
    <2>5. waitq' \in [Locks -> Seq(Threads)] /\ \A y \in Locks : waitq'[y] = IF y = x THEN Append(q, t) ELSE waitq[y]
        BY <1>1, <2>1, <2>4
    <2>6. /\ \A y \in Locks : NoDuplicates(waitq'[y]) /\ (y # x => waitq'[y] = waitq[y])
          /\ \A y \in Locks : \A u : InQueue(waitq'[y], u) <=> InQueue(waitq[y], u) \/ (y = x /\ u = t)
        BY <1>1, <2>4, <2>5 DEF q
    <2>7. Queued(t, x)
        BY <1>3, <2>1, <2>3, <2>6 DEF Queued
    <2> QED BY <1>1, <2>1, <2>3, <2>5, <2>7
<1> QED BY <1>2, <1>3

LEMMA UnlockStep ==
    ASSUME Inv, NEW x \in Locks, mutex_unlock(x)
    PROVE  /\ SchedInv'
           /\ owner' \in [Locks -> Threads \cup {NULL}] /\ waitq' \in [Locks -> Seq(Threads)]
           /\ Freed(x) \/ \E h \in Threads : HandedOver(x, h)
<1>1. /\ SchedInv /\ owner \in [Locks -> Threads \cup {NULL}] /\ waitq \in [Locks -> Seq(Threads)]
      /\ \A y \in Locks : NoDuplicates(waitq[y])
    BY DEF Inv, Types, DataOK, QueueInv
<1>2. CASE waitq[x] = <<>>
    <2>1. owner' = [owner EXCEPT ![x] = NULL] /\ UNCHANGED <<schedVars, waitq>>
        BY <1>2 DEF mutex_unlock
    <2>2. SchedInv' /\ state' = state
        BY <1>1, <2>1, SchedStutterInv DEF schedVars
    <2> QED BY <1>1, <1>2, <2>1, <2>2 DEF Freed
<1>3. CASE waitq[x] # <<>>
    <2> DEFINE q == waitq[x]
               h == q[1]
    <2>1. q \in Seq(Threads) /\ q # <<>> /\ NoDuplicates(q)
        BY <1>1, <1>3
    <2>2. /\ Tail(q) \in Seq(Threads) /\ NoDuplicates(Tail(q)) /\ h \in Threads /\ Head(q) = h
          /\ \A u : InQueue(Tail(q), u) <=> InQueue(q, u) /\ u # h
          /\ InQueue(q, h)
        <3> HIDE DEF q
        <3>1. InQueue(q, h)
            BY <2>1, QueueEmpty DEF InQueue
        <3> QED BY <2>1, <3>1, QueueTail
    <2>3. owner' = [owner EXCEPT ![x] = h] /\ waitq' = [waitq EXCEPT ![x] = Tail(q)] /\ Run(h)
        BY <1>3, <2>2 DEF mutex_unlock
    <2> HIDE DEF h
    <2>4. SchedInv' /\ \A u \in Threads : state'[u] = IF u = h THEN "RUNNABEL" ELSE state[u]
        BY <1>1, <2>2, <2>3, RunStates
    <2> HIDE DEF q
    <2>5. waitq' \in [Locks -> Seq(Threads)] /\ \A y \in Locks : waitq'[y] = IF y = x THEN Tail(q) ELSE waitq[y]
        BY <1>1, <2>2, <2>3
    <2>6. /\ owner' \in [Locks -> Threads \cup {NULL}]
          /\ \A y \in Locks : owner'[y] = IF y = x THEN h ELSE owner[y]
        BY <1>1, <2>2, <2>3
    <2>7. /\ \A y \in Locks : NoDuplicates(waitq'[y]) /\ (y # x => waitq'[y] = waitq[y])
          /\ \A y \in Locks : \A u : InQueue(waitq'[y], u) <=> InQueue(waitq[y], u) /\ ~ (y = x /\ u = h)
          /\ InQueue(waitq[x], h)
        BY <1>1, <2>2, <2>5 DEF q
    <2>8. HandedOver(x, h)
        BY <2>4, <2>6, <2>7 DEF HandedOver
    <2> QED BY <2>2, <2>4, <2>5, <2>6, <2>8
<1> QED BY <1>2, <1>3

\* The sets of labels do not overlap, except that msg_send has its message while
\* it locks the box.
LEMMA LabelSets ==
    /\ \A l \in LocksMsg : l \notin EntersMsg \cup HoldsMsg \cup AllBox \cup Waits
    /\ \A l \in EntersMsg : l \notin LocksMsg \cup HoldsMsg \cup AllBox \cup Waits
    /\ \A l \in LocksBox : l \notin LocksMsg \cup EntersMsg \cup EntersBox \cup HoldsBox
    /\ \A l \in EntersBox : l \notin LocksMsg \cup EntersMsg \cup LocksBox \cup HoldsBox
    /\ \A l \in HoldsBox : l \notin LocksMsg \cup EntersMsg \cup LocksBox \cup EntersBox
    /\ \A l \in AllMsg \cup AllBox : l # "out"
    /\ "newmsg_err3" \notin LocksMsg \cup EntersMsg \cup AllBox \cup Waits
    /\ "recv_own" \notin AllMsg \cup Waits
BY DEF LocksMsg, EntersMsg, HoldsMsg, LocksBox, EntersBox, HoldsBox, AllMsg, AllBox, Waits

LEMMA LocksApart == \A m \in Msgs, b \in Boxes : m # b /\ m \in Locks /\ b \in Locks
OBVIOUS

\* mutex_lock of the thread's message
LEMMA LockMsgInv ==
    ASSUME Inv, NEW t \in Threads, NEW l \in EntersMsg, state[t] = "RUNNING",
           pc[t] \in LocksMsg, l = "send_find" => pc[t] = "send_msg",
           Lock(t, arg[t].msg, l)
    PROVE  Inv'
<1> USE DEF Inv
<1> DEFINE x == arg[t].msg
<1>1. /\ x \in Msgs /\ x \in Locks /\ mutex_lock(t, x)
      /\ UNCHANGED <<msg_alct, box_alct, msg, box, arg, irqoff, failed>>
    BY DEF Lock, dataVars, Types, AllMsg
<1>2. ~ InQueue(waitq[x], t)
    BY <1>1 DEF QueueInv
<1>3. /\ SchedInv'
      /\ owner' \in [Locks -> Threads \cup {NULL}] /\ waitq' \in [Locks -> Seq(Threads)]
      /\ Got(t, x) \/ Queued(t, x)
    <2> HIDE DEF x
    <2> QED BY <1>1, <1>2, LockStep
<1>4. pc' \in [Threads -> Labels] /\ \A u \in Threads : pc'[u] = IF u = t THEN l ELSE pc[u]
    BY DEF Lock, Goto, Types, DataOK, Labels, EntersMsg
<1>5. Types'
    <2>1. DataOK'
        BY <1>1, <1>3, <1>4 DEF Types, DataOK
    <2>2. l = "send_find" => arg[t].box \in Boxes
        BY DEF Types
    <2>3. l # "send_msg" /\ l \notin AllBox
        BY LabelSets DEF LocksMsg, EntersMsg
    <2> QED BY <1>1, <1>4, <2>1, <2>2, <2>3 DEF Types, AllBox
<1>6. l \notin HoldsMsg \cup AllBox \cup Waits \cup LocksMsg /\ l # "newmsg_err3"
      /\ pc[t] \notin EntersMsg \cup HoldsMsg \cup AllBox \cup Waits
    BY LabelSets
<1>7. owner[x] # t /\ (x \notin msg_alct => owner[x] # NULL)
    BY <1>1, <1>6 DEF FoundInv
<1>8. \A b \in Boxes : b # x /\ b \in Locks
    BY <1>1, LocksApart
<1>9. \A u \in Threads : \/ state'[u] = state[u]
                         \/ u = t /\ state'[u] = "BLOCKED"
    BY <1>3 DEF Got, Queued
<1>10. WaitInv'
    <2>1. l # "recv_release" /\ l # "recv_block" /\ l # "recv_relock" /\ l # "recv_woken"
        BY <1>6 DEF Waits
    <2>2. pc[t] # "recv_relock"
        BY <1>6 DEF Waits
    <2>3. \A u \in Threads : pc'[u] \in {"recv_release", "recv_block", "recv_relock", "recv_woken"} => pc'[u] = pc[u]
        BY <1>4, <2>1
    <2>4. \A u \in Threads : pc[u] = "recv_relock" => (state'[u] = "BLOCKED" <=> state[u] = "BLOCKED")
        BY <1>9, <2>2
    <2>5. \A u \in Threads : pc'[u] \in Waits <=> pc[u] \in Waits
        BY <1>4, <1>6
    <2>6. box' = box /\ arg' = arg
        BY <1>1
    <2> HIDE DEF Inv
    <2> QED BY <2>3, <2>4, <2>5, <2>6, WaitMoves
<1>11. SentInv' /\ RecieverFindsMessage'
    BY <1>1, <1>4, <1>6 DEF SentInv, RecieverFindsMessage
<1> HIDE DEF x
<1>x. x = arg[t].msg /\ arg' = arg
    BY <1>1 DEF x
<1>12. CASE Got(t, x)
    <2>0. /\ owner[x] = NULL /\ UNCHANGED <<state, waitq>>
          /\ \A y \in Locks : owner'[y] = IF y = x THEN t ELSE owner[y]
        BY <1>12 DEF Got
    <2>t. \A u \in Threads : pc[u] \in AllMsg \cup {"recv_own"} => arg[u].msg \in Locks
        BY DEF Types, AllMsg
    <2>b. \A u \in Threads : pc[u] \in AllBox => arg[u].box \in Locks /\ arg[u].box # x
        BY <1>8 DEF Types, AllBox
    <2>1. \A u \in Threads : ~ InQueue(waitq[x], u)
        <3>1. waitq[x] = <<>>
            BY <1>1, <2>0 DEF QueueInv
        <3> QED BY <3>1, QueueNone
    <2>2. QueueInv'
        <3>1. ASSUME NEW y \in Locks, NEW u \in Threads, InQueue(waitq[y], u)
              PROVE  state'[u] = "BLOCKED" /\ owner'[y] # u /\ pc'[u] = pc[u] /\ arg'[u] = arg[u]
            <4>1. state[u] = "BLOCKED" /\ owner[y] # u
                BY <3>1 DEF QueueInv
            <4>2. u # t /\ y # x
                BY <2>1, <3>1, <4>1
            <4> QED BY <1>4, <1>x, <2>0, <4>1, <4>2
        <3>2. UNCHANGED waitq /\ \A y \in Locks : owner'[y] = NULL => owner[y] = NULL
            BY <2>0
        <3>3. QueueInv
            OBVIOUS
        <3> HIDE DEF Inv
        <3> QED BY <3>1, <3>2, <3>3, QueueKept
    <2>3. HoldInv'
        <3>1. ASSUME NEW u \in Threads, u # t
              PROVE  /\ pc'[u] \in HoldsMsg => owner'[arg'[u].msg] = u
                     /\ pc'[u] \in HoldsBox => owner'[arg'[u].box] = u
                     /\ pc'[u] \in EntersMsg => owner'[arg'[u].msg] = u \/ InQueue(waitq'[arg'[u].msg], u)
                     /\ pc'[u] \in EntersBox => owner'[arg'[u].box] = u \/ InQueue(waitq'[arg'[u].box], u)
            <4>1. pc'[u] = pc[u] /\ arg'[u] = arg[u] /\ waitq' = waitq
                BY <1>4, <1>x, <2>0, <3>1
            <4>2. /\ pc[u] \in HoldsMsg => owner[arg[u].msg] = u
                  /\ pc[u] \in HoldsBox => owner[arg[u].box] = u
                  /\ pc[u] \in EntersMsg => owner[arg[u].msg] = u \/ InQueue(waitq[arg[u].msg], u)
                  /\ pc[u] \in EntersBox => owner[arg[u].box] = u \/ InQueue(waitq[arg[u].box], u)
                BY DEF HoldInv
            <4>3. pc[u] \in HoldsMsg \cup EntersMsg => arg[u].msg \in Locks
                BY <2>t DEF AllMsg
            <4>4. pc[u] \in HoldsBox \cup EntersBox => arg[u].box \in Locks
                BY <2>b DEF AllBox
            <4>5. \A y \in Locks : owner[y] = u => owner'[y] = u
                BY <2>0
            <4> HIDE DEF Inv
            <4> QED BY <4>1, <4>2, <4>3, <4>4, <4>5
        <3>2. pc'[t] = l /\ arg'[t].msg = x /\ owner'[x] = t
            BY <1>1, <1>4, <1>x, <2>0
        <3>3. l \notin HoldsMsg \cup HoldsBox \cup EntersBox
            BY <1>6 DEF AllBox
        <3> HIDE DEF Inv
        <3> QED BY <3>1, <3>2, <3>3 DEF HoldInv
    <2>4. FoundInv'
        <3>0. /\ UNCHANGED <<msg_alct, box_alct, msg, box, arg>>
              /\ pc'[t] = l /\ arg'[t].msg = x /\ owner'[x] = t /\ t # NULL
              /\ msg_alct \subseteq Locks /\ box_alct \subseteq Locks
            BY <1>1, <1>4, <1>x, <2>0 DEF Types, DataOK
        <3>1. \A u \in Threads : u # t => pc'[u] = pc[u] /\ arg'[u] = arg[u]
            BY <1>4, <1>x
        <3>2. /\ \A m \in Msgs : msg[m].state = "new" => owner[m] = NULL /\ m \notin msg_alct
              /\ \A b \in Boxes : box[b].state = "new" => owner[b] = NULL /\ b \notin box_alct
              /\ msg[x].state # "new"
            BY <1>1, <1>7, <2>0 DEF FoundInv
        <3>3. \A m \in Msgs : msg'[m].state = "new" => owner'[m] = NULL /\ m \notin msg_alct'
            BY <2>0, <3>0, <3>2
        <3>4. \A b \in Boxes : box'[b].state = "new" => owner'[b] = NULL /\ b \notin box_alct'
            BY <1>8, <2>0, <3>0, <3>2
        <3>5. \A y \in msg_alct \cup box_alct : owner[y] # t
            BY <1>6 DEF FoundInv, AllBox
        <3>6. \A m \in msg_alct' : owner'[m] = t => pc'[t] \in EntersMsg \cup HoldsMsg /\ arg'[t].msg = m
            BY <2>0, <3>0, <3>5
        <3>7. \A b \in box_alct' : owner'[b] = t => pc'[t] \in EntersBox \cup HoldsBox /\ arg'[t].box = b
            <4>1. \A b \in box_alct' : b \in Locks /\ b # x /\ owner[b] # t
                BY <1>8, <3>0, <3>5 DEF Types, DataOK
            <4> HIDE DEF Inv
            <4> QED BY <2>0, <4>1
        <3>8. x \in msg_alct
            BY <1>7, <2>0
        <3>9. pc'[t] \notin LocksBox \cup EntersBox \cup HoldsBox
            BY <1>6, <3>0 DEF AllBox
        <3>10. /\ \A u \in Threads : u # t => \A m \in msg_alct' : owner'[m] = u => m \in msg_alct /\ owner[m] = u
               /\ \A u \in Threads : u # t => \A b \in box_alct' : owner'[b] = u => b \in box_alct /\ owner[b] = u
            BY <2>0, <3>0
        <3>11. \A u \in Threads : u # t /\ pc[u] \in LocksMsg \cup EntersMsg \cup HoldsMsg /\ arg[u].msg \notin msg_alct' =>
                   owner'[arg[u].msg] \notin {NULL, u}
            <4>1. ASSUME NEW u \in Threads, pc[u] \in LocksMsg \cup EntersMsg \cup HoldsMsg, arg[u].msg \notin msg_alct
                  PROVE  owner'[arg[u].msg] \notin {NULL, u}
                <5>1. owner[arg[u].msg] \notin {NULL, u}
                    BY <4>1 DEF FoundInv
                <5>2. arg[u].msg \in Locks /\ arg[u].msg # x
                    BY <2>t, <3>8, <4>1 DEF AllMsg
                <5> QED BY <2>0, <5>1, <5>2
            <4> QED BY <3>0, <4>1
        <3>12. \A u \in Threads : u # t /\ pc[u] \in LocksBox \cup EntersBox \cup HoldsBox /\ arg[u].box \notin box_alct' =>
                   owner'[arg[u].box] \notin {NULL, u}
            <4>1. ASSUME NEW u \in Threads, pc[u] \in LocksBox \cup EntersBox \cup HoldsBox, arg[u].box \notin box_alct
                  PROVE  owner'[arg[u].box] \notin {NULL, u}
                <5>1. owner[arg[u].box] \notin {NULL, u}
                    BY <4>1 DEF FoundInv
                <5>2. arg[u].box \in Locks /\ arg[u].box # x
                    BY <2>b, <4>1 DEF AllBox
                <5> QED BY <2>0, <5>1, <5>2
            <4> QED BY <3>0, <4>1
        <3>13. FoundInv
            OBVIOUS
        <3> HIDE DEF Inv
        <3> QED BY <3>0, <3>1, <3>3, <3>4, <3>6, <3>7, <3>8, <3>9, <3>10, <3>11, <3>12, <3>13, FoundKept
    <2>5. SleepInv'
        BY <1>1, <1>4, <2>0 DEF SleepInv
    <2> QED BY <1>3, <1>5, <1>10, <1>11, <2>2, <2>3, <2>4, <2>5
<1>13. CASE Queued(t, x)
    <2>0. /\ owner[x] # NULL /\ UNCHANGED owner
          /\ \A y \in Locks : NoDuplicates(waitq'[y]) /\ (y # x => waitq'[y] = waitq[y])
          /\ \A y \in Locks : \A u : InQueue(waitq'[y], u) <=> InQueue(waitq[y], u) \/ (y = x /\ u = t)
          /\ \A u \in Threads : state'[u] = IF u = t THEN "BLOCKED" ELSE state[u]
        BY <1>13 DEF Queued
    <2>t. \A u \in Threads : pc[u] \in AllMsg \cup {"recv_own"} => arg[u].msg \in Locks
        BY DEF Types, AllMsg
    <2>b. \A u \in Threads : pc[u] \in AllBox => arg[u].box \in Locks /\ arg[u].box # x
        BY <1>8 DEF Types, AllBox
    <2>2. QueueInv'
        <3>1. \A y \in Locks : NoDuplicates(waitq'[y]) /\ (owner'[y] = NULL => waitq'[y] = <<>>)
            BY <2>0 DEF QueueInv
        <3>2. ASSUME NEW y \in Locks, NEW u \in Threads, InQueue(waitq'[y], u)
              PROVE  /\ state'[u] = "BLOCKED" /\ owner'[y] # u
                     /\ \/ pc'[u] \in EntersMsg /\ y = arg'[u].msg
                        \/ pc'[u] \in EntersBox /\ y = arg'[u].box
            <4>1. CASE u = t
                <5>1. y = x
                    BY <2>0, <3>2, <4>1 DEF QueueInv
                <5> HIDE DEF Inv
                <5> QED BY <1>4, <1>7, <2>0, <4>1, <5>1, <1>x
            <4>2. CASE u # t
                <5>1. InQueue(waitq[y], u)
                    BY <2>0, <3>2, <4>2
                <5>2. /\ state[u] = "BLOCKED" /\ owner[y] # u
                      /\ \/ pc[u] \in EntersMsg /\ y = arg[u].msg
                         \/ pc[u] \in EntersBox /\ y = arg[u].box
                    BY <5>1 DEF QueueInv
                <5> HIDE DEF Inv
                <5> QED BY <1>4, <1>x, <2>0, <4>2, <5>2
            <4> QED BY <4>1, <4>2
        <3> HIDE DEF Inv
        <3> QED BY <3>1, <3>2 DEF QueueInv
    <2>3. HoldInv'
        <3>1. \A u \in Threads : u # t => 
                /\ pc[u] \in HoldsMsg => owner[arg[u].msg] = u
                /\ pc[u] \in HoldsBox => owner[arg[u].box] = u
                /\ pc[u] \in EntersMsg => owner[arg[u].msg] = u \/ InQueue(waitq'[arg[u].msg], u)
                /\ pc[u] \in EntersBox => owner[arg[u].box] = u \/ InQueue(waitq'[arg[u].box], u)
            BY <2>0, <2>t, <2>b DEF HoldInv, AllMsg, AllBox
        <3>2. InQueue(waitq'[x], t)
            BY <1>1, <2>0
        <3>3. ASSUME NEW u \in Threads, u # t
              PROVE  /\ pc'[u] \in HoldsMsg => owner'[arg'[u].msg] = u
                     /\ pc'[u] \in HoldsBox => owner'[arg'[u].box] = u
                     /\ pc'[u] \in EntersMsg => owner'[arg'[u].msg] = u \/ InQueue(waitq'[arg'[u].msg], u)
                     /\ pc'[u] \in EntersBox => owner'[arg'[u].box] = u \/ InQueue(waitq'[arg'[u].box], u)
            <4>1. pc'[u] = pc[u] /\ arg'[u] = arg[u] /\ owner' = owner
                BY <1>4, <1>x, <2>0, <3>3
            <4> HIDE DEF Inv
            <4> QED BY <3>1, <3>3, <4>1
        <3>4. pc'[t] \in EntersMsg /\ pc'[t] \notin HoldsMsg \cup HoldsBox \cup EntersBox /\ arg'[t].msg = x
            BY <1>4, <1>6, <1>x DEF AllBox
        <3> HIDE DEF Inv
        <3> QED BY <3>2, <3>3, <3>4 DEF HoldInv
    <2>4. FoundInv'
        <3>1. /\ UNCHANGED <<owner, msg_alct, box_alct, msg, box>>
              /\ \A u \in Threads : u # t => pc'[u] = pc[u] /\ arg'[u] = arg[u]
            BY <1>1, <1>4, <1>x, <2>0
        <3>2. /\ \A m \in msg_alct : owner[m] # t
              /\ \A b \in box_alct : owner[b] # t
            BY <1>6 DEF FoundInv, AllBox
        <3>3. arg'[t].msg = x /\ owner[x] \notin {NULL, t} /\ pc'[t] \notin LocksBox \cup EntersBox \cup HoldsBox
            BY <1>4, <1>6, <1>7, <1>x, <2>0 DEF AllBox
        <3>4. FoundInv
            OBVIOUS
        <3> HIDE DEF Inv
        <3> QED BY <3>1, <3>2, <3>3, <3>4, FoundSame
    <2>5. SleepInv'
        <3>1. \A u \in Threads : u # t =>
                /\ pc[u] \in EntersMsg /\ InQueue(waitq[arg[u].msg], u) => InQueue(waitq'[arg[u].msg], u)
                /\ pc[u] \in EntersBox /\ InQueue(waitq[arg[u].box], u) => InQueue(waitq'[arg[u].box], u)
            BY <2>0, <2>t, <2>b DEF AllMsg, AllBox
        <3>2. InQueue(waitq'[x], t)
            BY <1>1, <2>0
        <3> QED BY <1>4, <2>0, <3>1, <3>2, <1>x DEF SleepInv
    <2> QED BY <1>3, <1>5, <1>10, <1>11, <2>2, <2>3, <2>4, <2>5
<1> QED BY <1>3, <1>12, <1>13

\* mutex_lock of the thread's box
LEMMA LockBoxInv ==
    ASSUME Inv, NEW t \in Threads, NEW l, state[t] = "RUNNING",
           \/ pc[t] = "send_box" /\ l = "send"
           \/ pc[t] = "recv_box" /\ l = "recv"
           \/ pc[t] = "recv_relock" /\ l = "recv_woken"
           \/ pc[t] = "delbox_lock" /\ l = "delbox",
           Lock(t, arg[t].box, l)
    PROVE  Inv'
<1> USE DEF Inv
<1> DEFINE x == arg[t].box
<1>0. /\ pc[t] \in LocksBox /\ l \in EntersBox /\ l \in Labels /\ l # "newmsg_err3"
      /\ l \in HoldsMsg <=> pc[t] \in HoldsMsg
      /\ l \notin LocksMsg \cup EntersMsg \cup LocksBox \cup HoldsBox \cup {"recv_own", "send_msg", "send_find"}
      /\ pc[t] \notin LocksMsg \cup EntersMsg \cup EntersBox \cup HoldsBox
      /\ l \in Waits <=> l = "recv_woken"
      /\ l = "recv_woken" <=> pc[t] = "recv_relock"
      /\ pc[t] \in Waits <=> pc[t] = "recv_relock"
    BY DEF LocksMsg, EntersMsg, HoldsMsg, LocksBox, EntersBox, HoldsBox, Waits, Labels
<1>1. /\ x \in Boxes /\ x \in Locks /\ mutex_lock(t, x)
      /\ UNCHANGED <<msg_alct, box_alct, msg, box, arg, irqoff, failed>>
    BY <1>0 DEF Lock, dataVars, Types
<1>2. ~ InQueue(waitq[x], t)
    BY <1>1 DEF QueueInv
<1>3. /\ SchedInv'
      /\ owner' \in [Locks -> Threads \cup {NULL}] /\ waitq' \in [Locks -> Seq(Threads)]
      /\ Got(t, x) \/ Queued(t, x)
    <2> HIDE DEF x
    <2> QED BY <1>1, <1>2, LockStep
<1>4. pc' \in [Threads -> Labels] /\ \A u \in Threads : pc'[u] = IF u = t THEN l ELSE pc[u]
    BY <1>0 DEF Lock, Goto, Types, DataOK
<1>5. Types'
    <2>1. DataOK'
        BY <1>1, <1>3, <1>4 DEF Types, DataOK
    <2> QED BY <1>0, <1>1, <1>4, <2>1 DEF Types
<1>7. owner[x] # t /\ (x \notin box_alct => owner[x] # NULL)
    BY <1>0, <1>1 DEF FoundInv
<1>8. \A m \in Msgs : m # x /\ m \in Locks
    BY <1>1, LocksApart
<1>9. \A u \in Threads : \/ state'[u] = state[u]
                         \/ u = t /\ state'[u] = "BLOCKED"
    BY <1>3 DEF Got, Queued
<1>10. WaitInv'
    <2>1. \A u \in Threads : pc'[u] \in Waits <=> pc[u] \in Waits
        BY <1>0, <1>4
    <2>2. l # "recv_release" /\ l # "recv_block" /\ l # "recv_relock"
        OBVIOUS
    <2>3. \A u \in Threads : pc'[u] \in {"recv_release", "recv_block"} => pc[u] \in {"recv_release", "recv_block"}
        BY <1>4, <2>2
    <2>4. \A u \in Threads : pc'[u] = "recv_relock" =>
              pc[u] = "recv_relock" /\ (state'[u] = "BLOCKED" <=> state[u] = "BLOCKED")
        BY <1>4, <1>9, <2>2
    <2>5. \A u \in Threads : pc'[u] = "recv_woken" =>
              pc[u] = "recv_woken" \/ (pc[u] = "recv_relock" /\ state[u] # "BLOCKED")
        BY <1>0, <1>4
    <2>6. box' = box /\ arg' = arg
        BY <1>1
    <2> HIDE DEF Inv
    <2> QED BY <2>1, <2>3, <2>4, <2>5, <2>6, WaitMoves
<1>11. SentInv' /\ RecieverFindsMessage'
    BY <1>0, <1>1, <1>4 DEF SentInv, RecieverFindsMessage
<1> HIDE DEF x
<1>x. x = arg[t].box /\ arg' = arg
    BY <1>1 DEF x
<1>b. \A u \in Threads : pc[u] \in LocksBox \cup EntersBox \cup HoldsBox => arg[u].box \in Locks
    BY DEF Types
<1>m. \A u \in Threads : pc[u] \in LocksMsg \cup EntersMsg \cup HoldsMsg => arg[u].msg \in Locks /\ arg[u].msg # x
    BY <1>8 DEF Types
<1>12. CASE Got(t, x)
    <2>0. /\ owner[x] = NULL /\ UNCHANGED <<state, waitq>>
          /\ \A y \in Locks : owner'[y] = IF y = x THEN t ELSE owner[y]
        BY <1>12 DEF Got
    <2>1. \A u \in Threads : ~ InQueue(waitq[x], u)
        <3>1. waitq[x] = <<>>
            BY <1>1, <2>0 DEF QueueInv
        <3> QED BY <3>1, QueueNone
    <2>2. QueueInv'
        <3>1. ASSUME NEW y \in Locks, NEW u \in Threads, InQueue(waitq[y], u)
              PROVE  state'[u] = "BLOCKED" /\ owner'[y] # u /\ pc'[u] = pc[u] /\ arg'[u] = arg[u]
            <4>1. state[u] = "BLOCKED" /\ owner[y] # u
                BY <3>1 DEF QueueInv
            <4>2. u # t /\ y # x
                BY <2>1, <3>1, <4>1
            <4> HIDE DEF Inv
            <4> QED BY <1>4, <1>x, <2>0, <4>1, <4>2
        <3>2. UNCHANGED waitq /\ \A y \in Locks : owner'[y] = NULL => owner[y] = NULL
            BY <2>0
        <3>3. QueueInv
            OBVIOUS
        <3> HIDE DEF Inv
        <3> QED BY <3>1, <3>2, <3>3, QueueKept
    <2>3. HoldInv'
        <3>1. ASSUME NEW u \in Threads, u # t
              PROVE  /\ pc'[u] \in HoldsMsg => owner'[arg'[u].msg] = u
                     /\ pc'[u] \in HoldsBox => owner'[arg'[u].box] = u
                     /\ pc'[u] \in EntersMsg => owner'[arg'[u].msg] = u \/ InQueue(waitq'[arg'[u].msg], u)
                     /\ pc'[u] \in EntersBox => owner'[arg'[u].box] = u \/ InQueue(waitq'[arg'[u].box], u)
            <4>1. pc'[u] = pc[u] /\ arg'[u] = arg[u] /\ waitq' = waitq
                BY <1>4, <1>x, <2>0, <3>1
            <4>2. /\ pc[u] \in HoldsMsg => owner[arg[u].msg] = u
                  /\ pc[u] \in HoldsBox => owner[arg[u].box] = u
                  /\ pc[u] \in EntersMsg => owner[arg[u].msg] = u \/ InQueue(waitq[arg[u].msg], u)
                  /\ pc[u] \in EntersBox => owner[arg[u].box] = u \/ InQueue(waitq[arg[u].box], u)
                BY DEF HoldInv
            <4>3. /\ pc[u] \in HoldsMsg \cup EntersMsg => arg[u].msg \in Locks
                  /\ pc[u] \in HoldsBox \cup EntersBox => arg[u].box \in Locks
                BY <1>b, <1>m
            <4>4. \A y \in Locks : owner[y] = u => owner'[y] = u
                BY <2>0
            <4> HIDE DEF Inv
            <4> QED BY <4>1, <4>2, <4>3, <4>4
        <3>2. owner'[x] = t /\ (pc[t] \in HoldsMsg => owner'[arg[t].msg] = t)
            BY <1>1, <1>m, <2>0 DEF HoldInv
        <3>3. /\ pc'[t] \notin HoldsBox \cup EntersMsg /\ arg'[t] = arg[t] /\ arg[t].box = x
              /\ pc'[t] \in HoldsMsg => pc[t] \in HoldsMsg
            BY <1>0, <1>4, <1>x
        <3> HIDE DEF Inv
        <3>4. /\ pc'[t] \in HoldsMsg => owner'[arg'[t].msg] = t
              /\ owner'[arg'[t].box] = t
            BY <3>2, <3>3
        <3> QED BY <3>1, <3>3, <3>4 DEF HoldInv
    <2>4. FoundInv'
        <3>0. /\ UNCHANGED <<msg_alct, box_alct, msg, box, arg>>
              /\ pc'[t] = l /\ arg'[t].box = x /\ owner'[x] = t /\ t # NULL
              /\ msg_alct \subseteq Locks /\ box_alct \subseteq Locks
            BY <1>1, <1>4, <1>x, <2>0 DEF Types, DataOK
        <3>1. \A u \in Threads : u # t => pc'[u] = pc[u] /\ arg'[u] = arg[u]
            BY <1>4, <1>x
        <3>2. /\ \A m \in Msgs : msg[m].state = "new" => owner[m] = NULL /\ m \notin msg_alct
              /\ \A b \in Boxes : box[b].state = "new" => owner[b] = NULL /\ b \notin box_alct
              /\ x \in box_alct
            BY <1>1, <1>7, <2>0 DEF FoundInv
        <3>3. \A m \in Msgs : msg'[m].state = "new" => owner'[m] = NULL /\ m \notin msg_alct'
            BY <1>8, <2>0, <3>0, <3>2
        <3>4. \A b \in Boxes : box'[b].state = "new" => owner'[b] = NULL /\ b \notin box_alct'
            BY <2>0, <3>0, <3>2
        <3>5. /\ \A b \in box_alct : owner[b] # t
              /\ \A m \in msg_alct : owner[m] = t => pc[t] \in HoldsMsg /\ arg[t].msg = m
            BY <1>0 DEF FoundInv
        <3>6. \A m \in msg_alct' : owner'[m] = t => pc'[t] \in EntersMsg \cup HoldsMsg /\ arg'[t].msg = m
            <4>1. \A m \in msg_alct : m \in Locks /\ m # x
                BY <1>8 DEF Types, DataOK
            <4> HIDE DEF Inv
            <4> QED BY <1>0, <2>0, <3>0, <3>5, <4>1
        <3>7. \A b \in box_alct' : owner'[b] = t => pc'[t] \in EntersBox \cup HoldsBox /\ arg'[t].box = b
            BY <1>0, <2>0, <3>0, <3>5
        <3>8. pc'[t] \in LocksMsg \cup EntersMsg \cup HoldsMsg /\ arg'[t].msg \notin msg_alct' =>
                  owner'[arg'[t].msg] \notin {NULL, t}
            <4>1. ASSUME pc[t] \in HoldsMsg, arg[t].msg \notin msg_alct
                  PROVE  owner[arg[t].msg] \notin {NULL, t} /\ arg[t].msg \in Locks /\ arg[t].msg # x
                BY <1>m, <4>1 DEF FoundInv
            <4> HIDE DEF Inv
            <4> QED BY <1>0, <2>0, <3>0, <4>1
        <3>9. /\ \A u \in Threads : u # t => \A m \in msg_alct' : owner'[m] = u => m \in msg_alct /\ owner[m] = u
              /\ \A u \in Threads : u # t => \A b \in box_alct' : owner'[b] = u => b \in box_alct /\ owner[b] = u
            BY <2>0, <3>0
        <3>10. \A u \in Threads : u # t /\ pc[u] \in LocksMsg \cup EntersMsg \cup HoldsMsg /\ arg[u].msg \notin msg_alct' =>
                   owner'[arg[u].msg] \notin {NULL, u}
            <4>1. ASSUME NEW u \in Threads, pc[u] \in LocksMsg \cup EntersMsg \cup HoldsMsg, arg[u].msg \notin msg_alct
                  PROVE  owner'[arg[u].msg] \notin {NULL, u}
                <5>1. owner[arg[u].msg] \notin {NULL, u}
                    BY <4>1 DEF FoundInv
                <5>2. arg[u].msg \in Locks /\ arg[u].msg # x
                    BY <1>m, <4>1
                <5> QED BY <2>0, <5>1, <5>2
            <4> QED BY <3>0, <4>1
        <3>11. \A u \in Threads : u # t /\ pc[u] \in LocksBox \cup EntersBox \cup HoldsBox /\ arg[u].box \notin box_alct' =>
                   owner'[arg[u].box] \notin {NULL, u}
            <4>1. ASSUME NEW u \in Threads, pc[u] \in LocksBox \cup EntersBox \cup HoldsBox, arg[u].box \notin box_alct
                  PROVE  owner'[arg[u].box] \notin {NULL, u}
                <5>1. owner[arg[u].box] \notin {NULL, u}
                    BY <4>1 DEF FoundInv
                <5>2. arg[u].box \in Locks /\ arg[u].box # x
                    BY <1>b, <3>2, <4>1
                <5> QED BY <2>0, <5>1, <5>2
            <4> QED BY <3>0, <4>1
        <3>12. FoundInv
            OBVIOUS
        <3> HIDE DEF Inv
        <3> QED BY <3>0, <3>1, <3>2, <3>3, <3>4, <3>6, <3>7, <3>8, <3>9, <3>10, <3>11, <3>12, FoundKept
    <2>5. SleepInv'
        BY <1>1, <1>4, <2>0 DEF SleepInv
    <2> QED BY <1>3, <1>5, <1>10, <1>11, <2>2, <2>3, <2>4, <2>5
<1>13. CASE Queued(t, x)
    <2>0. /\ owner[x] # NULL /\ UNCHANGED owner
          /\ \A y \in Locks : NoDuplicates(waitq'[y]) /\ (y # x => waitq'[y] = waitq[y])
          /\ \A y \in Locks : \A u : InQueue(waitq'[y], u) <=> InQueue(waitq[y], u) \/ (y = x /\ u = t)
          /\ \A u \in Threads : state'[u] = IF u = t THEN "BLOCKED" ELSE state[u]
        BY <1>13 DEF Queued
    <2>1. InQueue(waitq'[x], t)
        BY <1>1, <2>0
    <2>2. QueueInv'
        <3>1. \A y \in Locks : NoDuplicates(waitq'[y]) /\ (owner'[y] = NULL => waitq'[y] = <<>>)
            BY <2>0 DEF QueueInv
        <3>2. ASSUME NEW y \in Locks, NEW u \in Threads, InQueue(waitq'[y], u)
              PROVE  /\ state'[u] = "BLOCKED" /\ owner'[y] # u
                     /\ \/ pc'[u] \in EntersMsg /\ y = arg'[u].msg
                        \/ pc'[u] \in EntersBox /\ y = arg'[u].box
            <4>1. CASE u = t
                <5>1. y = x
                    BY <2>0, <3>2, <4>1 DEF QueueInv
                <5> HIDE DEF Inv
                <5> QED BY <1>0, <1>4, <1>7, <2>0, <4>1, <5>1, <1>x
            <4>2. CASE u # t
                <5>1. InQueue(waitq[y], u)
                    BY <2>0, <3>2, <4>2
                <5>2. /\ state[u] = "BLOCKED" /\ owner[y] # u
                      /\ \/ pc[u] \in EntersMsg /\ y = arg[u].msg
                         \/ pc[u] \in EntersBox /\ y = arg[u].box
                    BY <5>1 DEF QueueInv
                <5> HIDE DEF Inv
                <5> QED BY <1>4, <1>x, <2>0, <4>2, <5>2
            <4> QED BY <4>1, <4>2
        <3> HIDE DEF Inv
        <3> QED BY <3>1, <3>2 DEF QueueInv
    <2>3. HoldInv'
        <3>1. \A u \in Threads : u # t =>
                /\ pc[u] \in HoldsMsg => owner[arg[u].msg] = u
                /\ pc[u] \in HoldsBox => owner[arg[u].box] = u
                /\ pc[u] \in EntersMsg => owner[arg[u].msg] = u \/ InQueue(waitq'[arg[u].msg], u)
                /\ pc[u] \in EntersBox => owner[arg[u].box] = u \/ InQueue(waitq'[arg[u].box], u)
            BY <1>b, <1>m, <2>0 DEF HoldInv
        <3>2. pc[t] \in HoldsMsg => owner[arg[t].msg] = t
            BY DEF HoldInv
        <3>3. ASSUME NEW u \in Threads, u # t
              PROVE  /\ pc'[u] \in HoldsMsg => owner'[arg'[u].msg] = u
                     /\ pc'[u] \in HoldsBox => owner'[arg'[u].box] = u
                     /\ pc'[u] \in EntersMsg => owner'[arg'[u].msg] = u \/ InQueue(waitq'[arg'[u].msg], u)
                     /\ pc'[u] \in EntersBox => owner'[arg'[u].box] = u \/ InQueue(waitq'[arg'[u].box], u)
            <4>1. pc'[u] = pc[u] /\ arg'[u] = arg[u] /\ owner' = owner
                BY <1>4, <1>x, <2>0, <3>3
            <4> HIDE DEF Inv
            <4> QED BY <3>1, <3>3, <4>1
        <3>4. /\ pc'[t] \notin HoldsBox \cup EntersMsg /\ arg'[t] = arg[t] /\ arg[t].box = x
              /\ pc'[t] \in HoldsMsg => pc[t] \in HoldsMsg
            BY <1>0, <1>4, <1>x
        <3> HIDE DEF Inv
        <3>5. /\ pc'[t] \in HoldsMsg => owner'[arg'[t].msg] = t
              /\ InQueue(waitq'[arg'[t].box], t)
            BY <2>0, <2>1, <3>2, <3>4
        <3> QED BY <3>3, <3>4, <3>5 DEF HoldInv
    <2>4. FoundInv'
        <3>1. /\ UNCHANGED <<owner, msg_alct, box_alct, msg, box>>
              /\ \A u \in Threads : u # t => pc'[u] = pc[u] /\ arg'[u] = arg[u]
              /\ pc'[t] = l /\ arg'[t] = arg[t] /\ arg[t].box = x
            BY <1>1, <1>4, <1>x, <2>0
        <3>2. /\ \A b \in box_alct : owner[b] # t
              /\ \A m \in msg_alct : owner[m] = t => pc[t] \in HoldsMsg /\ arg[t].msg = m
            BY <1>0 DEF FoundInv
        <3>3. pc[t] \in HoldsMsg /\ arg[t].msg \notin msg_alct => owner[arg[t].msg] \notin {NULL, t}
            BY DEF FoundInv
        <3>4. FoundInv
            OBVIOUS
        <3> HIDE DEF Inv
        <3>5. /\ \A m \in msg_alct : owner[m] = t => pc'[t] \in EntersMsg \cup HoldsMsg /\ arg'[t].msg = m
              /\ pc'[t] \in LocksMsg \cup EntersMsg \cup HoldsMsg /\ arg'[t].msg \notin msg_alct =>
                     owner[arg'[t].msg] \notin {NULL, t}
            BY <1>0, <3>1, <3>2, <3>3
        <3>6. owner[arg'[t].box] \notin {NULL, t}
            BY <1>7, <2>0, <3>1
        <3> QED BY <3>1, <3>2, <3>4, <3>5, <3>6, FoundSame
    <2>5. SleepInv'
        <3>1. \A u \in Threads : u # t =>
                /\ pc[u] \in EntersMsg /\ InQueue(waitq[arg[u].msg], u) => InQueue(waitq'[arg[u].msg], u)
                /\ pc[u] \in EntersBox /\ InQueue(waitq[arg[u].box], u) => InQueue(waitq'[arg[u].box], u)
            BY <1>b, <1>m, <2>0
        <3>2. ASSUME NEW u \in Threads, u # t
              PROVE  /\ state'[u] = "BLOCKED" => \/ pc'[u] = "recv_relock"
                                                 \/ pc'[u] \in EntersMsg /\ InQueue(waitq'[arg'[u].msg], u)
                                                 \/ pc'[u] \in EntersBox /\ InQueue(waitq'[arg'[u].box], u)
                     /\ state'[u] = "UNSCHDED" => pc'[u] = "out"
            <4>1. pc'[u] = pc[u] /\ arg'[u] = arg[u] /\ state'[u] = state[u]
                BY <1>4, <1>x, <2>0, <3>2
            <4> QED BY <3>1, <3>2, <4>1 DEF SleepInv
        <3>3. pc'[t] \in EntersBox /\ InQueue(waitq'[arg'[t].box], t) /\ state'[t] = "BLOCKED"
            BY <1>0, <1>4, <1>x, <2>0, <2>1
        <3> HIDE DEF Inv
        <3> QED BY <3>2, <3>3 DEF SleepInv
    <2> QED BY <1>3, <1>5, <1>10, <1>11, <2>2, <2>3, <2>4, <2>5
<1> QED BY <1>3, <1>12, <1>13

\* FoundInv after a step that leaves the messages and boxes alone
LEMMA FoundIntro ==
    ASSUME UNCHANGED <<msg_alct, box_alct, msg, box>>,
           \A m \in Msgs : msg[m].state = "new" => owner'[m] = NULL /\ m \notin msg_alct,
           \A b \in Boxes : box[b].state = "new" => owner'[b] = NULL /\ b \notin box_alct,
           \A u \in Threads : \A m \in msg_alct :
               owner'[m] = u => pc'[u] \in EntersMsg \cup HoldsMsg /\ arg'[u].msg = m,
           \A u \in Threads : \A b \in box_alct :
               owner'[b] = u => pc'[u] \in EntersBox \cup HoldsBox /\ arg'[u].box = b,
           \A u \in Threads : pc'[u] \in LocksMsg \cup EntersMsg \cup HoldsMsg /\ arg'[u].msg \notin msg_alct =>
               owner'[arg'[u].msg] \notin {NULL, u},
           \A u \in Threads : pc'[u] \in LocksBox \cup EntersBox \cup HoldsBox /\ arg'[u].box \notin box_alct =>
               owner'[arg'[u].box] \notin {NULL, u}
    PROVE  FoundInv'
BY DEF FoundInv

\* Thread t may unlock x on its way to label l with the arguments a: it has x,
\* and has afterwards what it needs at l and nothing else that can be found.
MayUnlock(t, l, a, x) ==
    /\ owner[x] = t /\ x \in msg_alct \cup box_alct
    /\ l \notin EntersMsg \cup EntersBox \cup HoldsBox \cup {"newmsg_err3"}
    /\ l \in HoldsMsg => a.msg \in Msgs \ {x} /\ owner[a.msg] = t
    /\ \A m \in msg_alct : owner[m] = t => m = x \/ (l \in HoldsMsg /\ a.msg = m)
    /\ \A b \in box_alct : owner[b] = t => b = x
    /\ l \in LocksMsg \cup HoldsMsg => a.msg \in msg_alct
    /\ l \in LocksBox => a.box \in box_alct
    /\ \/ l \notin Waits /\ pc[t] \notin Waits
       \/ l = "recv_block" /\ pc[t] = "recv_release" /\ a = arg[t]

\* mutex_unlock of a mutex that the thread holds
LEMMA UnlockInv ==
    ASSUME Inv, NEW t \in Threads, state[t] = "RUNNING", NEW l, NEW a, Goes(t, l, a), ArgsFor(l, a),
           NEW x \in Locks, mutex_unlock(x), UNCHANGED <<dataVars, irqoff, failed>>,
           MayUnlock(t, l, a, x)
    PROVE  Inv'
<1> USE DEF Inv
<1>u. /\ owner[x] = t /\ x \in msg_alct \cup box_alct
      /\ \A m \in msg_alct : owner[m] = t => m = x \/ (l \in HoldsMsg /\ a.msg = m)
      /\ \A b \in box_alct : owner[b] = t => b = x
    BY DEF MayUnlock
<1>l. /\ l \notin EntersMsg \cup EntersBox \cup HoldsBox \cup {"newmsg_err3"}
      /\ l \in HoldsMsg => a.msg \in Msgs \ {x} /\ owner[a.msg] = t
      /\ l \in LocksMsg \cup HoldsMsg => a.msg \in msg_alct
      /\ l \in LocksBox => a.box \in box_alct
    BY DEF MayUnlock
<1>w. \/ l \notin Waits /\ pc[t] \notin Waits
      \/ l = "recv_block" /\ pc[t] = "recv_release" /\ a = arg[t]
    BY DEF MayUnlock
<1>1. /\ UNCHANGED <<msg_alct, box_alct, msg, box, irqoff, failed>>
      /\ pc' \in [Threads -> Labels] /\ \A u \in Threads : pc'[u] = IF u = t THEN l ELSE pc[u]
      /\ arg' \in [Threads -> ArgType] /\ \A u \in Threads : arg'[u] = IF u = t THEN a ELSE arg[u]
    BY DEF Goes, dataVars
<1>2. /\ SchedInv'
      /\ owner' \in [Locks -> Threads \cup {NULL}] /\ waitq' \in [Locks -> Seq(Threads)]
      /\ Freed(x) \/ \E h \in Threads : HandedOver(x, h)
    BY UnlockStep
<1>3. Types'
    <2>1. DataOK'
        BY <1>1, <1>2 DEF Types, DataOK
    <2>2. \A u \in Threads :
            /\ pc'[u] \in LocksMsg \cup EntersMsg \cup HoldsMsg \cup {"recv_own"} => arg'[u].msg \in Msgs
            /\ pc'[u] \in LocksBox \cup EntersBox \cup HoldsBox \cup {"send_msg", "send_find"} => arg'[u].box \in Boxes
        BY <1>1 DEF Types, ArgsFor, AllMsg, AllBox
    <2> QED BY <1>1, <2>1, <2>2 DEF Types, ArgType
<1>4. /\ \A u \in Threads : pc[u] \in LocksMsg \cup EntersMsg \cup HoldsMsg => arg[u].msg \in Locks /\ arg[u].msg \in Msgs
      /\ \A u \in Threads : pc[u] \in LocksBox \cup EntersBox \cup HoldsBox => arg[u].box \in Locks /\ arg[u].box \in Boxes
      /\ msg_alct \subseteq Msgs /\ box_alct \subseteq Boxes
      /\ \A m \in Msgs : m \notin Boxes
    BY DEF Types, DataOK
<1>5. SentInv' /\ RecieverFindsMessage'
    BY <1>l, <1>1 DEF SentInv, RecieverFindsMessage
<1>6. \A u \in Threads : \/ state'[u] = state[u]
                         \/ pc[u] # "recv_relock" /\ state'[u] = "RUNNABEL" /\ InQueue(waitq[x], u)
    <2>1. CASE Freed(x)
        BY <2>1 DEF Freed
    <2>2. ASSUME NEW h \in Threads, HandedOver(x, h)
          PROVE  \A u \in Threads : \/ state'[u] = state[u]
                                    \/ pc[u] # "recv_relock" /\ state'[u] = "RUNNABEL" /\ InQueue(waitq[x], u)
        <3>1. pc[h] # "recv_relock"
            BY <2>2 DEF HandedOver, QueueInv, EntersMsg, EntersBox
        <3> QED BY <2>2, <3>1 DEF HandedOver
    <2> QED BY <1>2, <2>1, <2>2
<1>7. WaitInv'
    <2>1. \A u \in Threads : (pc'[u] \in Waits <=> pc[u] \in Waits) /\ (pc'[u] \in Waits => arg'[u] = arg[u])
        BY <1>w, <1>1 DEF Waits
    <2>2. \A u \in Threads : /\ pc'[u] \in {"recv_release", "recv_block"} => pc[u] \in {"recv_release", "recv_block"}
                             /\ pc'[u] = "recv_relock" => pc[u] = "recv_relock" /\ state'[u] = state[u]
                             /\ pc'[u] = "recv_woken" => pc[u] = "recv_woken"
        BY <1>w, <1>1, <1>6 DEF Waits
    <2>3. box' = box
        BY <1>1
    <2> HIDE DEF Inv
    <2> QED BY <2>1, <2>2, <2>3, WaitMoves
<1>8. \A y \in Locks : ~ InQueue(waitq[y], t)
    BY DEF QueueInv
<1>9. /\ \A m \in Msgs : msg[m].state = "new" => m # x
      /\ \A b \in Boxes : box[b].state = "new" => b # x
    BY <1>u DEF FoundInv
<1>m. ASSUME NEW u \in Threads, pc[u] \in LocksMsg \cup EntersMsg \cup HoldsMsg, arg[u].msg \notin msg_alct
      PROVE  arg[u].msg \in Locks /\ arg[u].msg # x /\ owner[arg[u].msg] \notin {NULL, u}
    <2>1. owner[arg[u].msg] \notin {NULL, u}
        BY <1>m DEF FoundInv
    <2>2. arg[u].msg \in Locks /\ arg[u].msg \notin box_alct
        BY <1>4, <1>m
    <2> QED BY <1>u, <1>m, <2>1, <2>2
<1>b. ASSUME NEW u \in Threads, pc[u] \in LocksBox \cup EntersBox \cup HoldsBox, arg[u].box \notin box_alct
      PROVE  arg[u].box \in Locks /\ arg[u].box # x /\ owner[arg[u].box] \notin {NULL, u}
    <2>1. owner[arg[u].box] \notin {NULL, u}
        BY <1>b DEF FoundInv
    <2>2. arg[u].box \in Locks /\ arg[u].box \notin msg_alct
        BY <1>4, <1>b
    <2> QED BY <1>u, <1>b, <2>1, <2>2
<1>10. CASE Freed(x)
    <2>0. /\ waitq[x] = <<>> /\ UNCHANGED <<state, waitq>>
          /\ \A y \in Locks : owner'[y] = IF y = x THEN NULL ELSE owner[y]
        BY <1>10 DEF Freed
    <2>2. QueueInv'
        <3>1. \A y \in Locks : \A u \in Threads : InQueue(waitq[y], u) => u # t
            BY <1>8
        <3>2. \A y \in Locks : NoDuplicates(waitq[y]) /\ (owner'[y] = NULL => waitq[y] = <<>>)
            BY <2>0 DEF QueueInv
        <3>3. \A y \in Locks, u \in Threads : InQueue(waitq[y], u) =>
                /\ state[u] = "BLOCKED" /\ owner'[y] # u
                /\ \/ pc'[u] \in EntersMsg /\ y = arg'[u].msg
                   \/ pc'[u] \in EntersBox /\ y = arg'[u].box
            BY <1>1, <2>0, <3>1 DEF QueueInv
        <3> QED BY <2>0, <3>2, <3>3 DEF QueueInv
    <2>3. HoldInv'
        <3>1. ASSUME NEW u \in Threads, u # t
              PROVE  /\ pc[u] \in HoldsMsg => owner'[arg[u].msg] = u
                     /\ pc[u] \in HoldsBox => owner'[arg[u].box] = u
                     /\ pc[u] \in EntersMsg => owner'[arg[u].msg] = u \/ InQueue(waitq'[arg[u].msg], u)
                     /\ pc[u] \in EntersBox => owner'[arg[u].box] = u \/ InQueue(waitq'[arg[u].box], u)
            <4>1. /\ pc[u] \in HoldsMsg => owner[arg[u].msg] = u
                  /\ pc[u] \in HoldsBox => owner[arg[u].box] = u
                  /\ pc[u] \in EntersMsg => owner[arg[u].msg] = u \/ InQueue(waitq[arg[u].msg], u)
                  /\ pc[u] \in EntersBox => owner[arg[u].box] = u \/ InQueue(waitq[arg[u].box], u)
                BY DEF HoldInv
            <4>2. \A y \in Locks : /\ owner[y] = u => owner'[y] = u
                                   /\ InQueue(waitq[y], u) => owner'[y] = u \/ InQueue(waitq'[y], u)
                BY <1>u, <2>0, <3>1
            <4>3. /\ pc[u] \in EntersMsg \cup HoldsMsg => arg[u].msg \in Locks
                  /\ pc[u] \in EntersBox \cup HoldsBox => arg[u].box \in Locks
                BY <1>4
            <4> HIDE DEF Inv
            <4> QED BY <4>1, <4>2, <4>3
        <3>2. l \in HoldsMsg => owner'[a.msg] = t
            BY <1>l, <2>0
        <3>3. \A u \in Threads : u # t => pc'[u] = pc[u] /\ arg'[u] = arg[u]
            BY <1>1
        <3>4. pc'[t] = l /\ arg'[t] = a
            BY <1>1
        <3> QED BY <1>l, <3>1, <3>2, <3>3, <3>4 DEF HoldInv
    <2>4. FoundInv'
        <3>1. /\ \A m \in Msgs : msg[m].state = "new" => owner'[m] = NULL /\ m \notin msg_alct
              /\ \A b \in Boxes : box[b].state = "new" => owner'[b] = NULL /\ b \notin box_alct
            <4>1. /\ \A m \in Msgs : msg[m].state = "new" => owner[m] = NULL /\ m \notin msg_alct
                  /\ \A b \in Boxes : box[b].state = "new" => owner[b] = NULL /\ b \notin box_alct
                BY DEF FoundInv
            <4> QED BY <2>0, <1>9, <4>1
        <3>2. \A u \in Threads : \A m \in msg_alct :
                  owner'[m] = u => pc'[u] \in EntersMsg \cup HoldsMsg /\ arg'[u].msg = m
            <4> TAKE u \in Threads
            <4> TAKE m \in msg_alct
            <4> HAVE owner'[m] = u
            <4>1. m # x /\ owner[m] = u
                BY <1>4, <2>0
            <4> QED BY <1>u, <1>1, <4>1 DEF FoundInv
        <3>3. \A u \in Threads : \A b \in box_alct :
                  owner'[b] = u => pc'[u] \in EntersBox \cup HoldsBox /\ arg'[u].box = b
            <4> TAKE u \in Threads
            <4> TAKE b \in box_alct
            <4> HAVE owner'[b] = u
            <4>1. b # x /\ owner[b] = u
                BY <1>4, <2>0
            <4> QED BY <1>u, <1>1, <4>1 DEF FoundInv
        <3>4. \A u \in Threads : pc'[u] \in LocksMsg \cup EntersMsg \cup HoldsMsg /\ arg'[u].msg \notin msg_alct =>
                  owner'[arg'[u].msg] \notin {NULL, u}
            <4>1. pc'[t] \in LocksMsg \cup EntersMsg \cup HoldsMsg => arg'[t].msg \in msg_alct
                BY <1>l, <1>1
            <4> QED BY <1>1, <1>m, <2>0, <4>1
        <3>5. \A u \in Threads : pc'[u] \in LocksBox \cup EntersBox \cup HoldsBox /\ arg'[u].box \notin box_alct =>
                  owner'[arg'[u].box] \notin {NULL, u}
            <4>1. pc'[t] \in LocksBox \cup EntersBox \cup HoldsBox => arg'[t].box \in box_alct
                BY <1>l, <1>1
            <4> QED BY <1>1, <1>b, <2>0, <4>1
        <3>6. UNCHANGED <<msg_alct, box_alct, msg, box>>
            BY <1>1
        <3> QED BY <3>1, <3>2, <3>3, <3>4, <3>5, <3>6, FoundIntro
    <2>5. SleepInv'
        BY <1>1, <2>0 DEF SleepInv
    <2> QED BY <1>2, <1>3, <1>5, <1>7, <2>2, <2>3, <2>4, <2>5
<1>11. ASSUME NEW h \in Threads, HandedOver(x, h) PROVE Inv'
    <2>0. /\ InQueue(waitq[x], h)
          /\ \A y \in Locks : owner'[y] = IF y = x THEN h ELSE owner[y]
          /\ \A y \in Locks : NoDuplicates(waitq'[y]) /\ (y # x => waitq'[y] = waitq[y])
          /\ \A y \in Locks : \A u : InQueue(waitq'[y], u) <=> InQueue(waitq[y], u) /\ ~ (y = x /\ u = h)
          /\ \A u \in Threads : state'[u] = IF u = h THEN "RUNNABEL" ELSE state[u]
        BY <1>11 DEF HandedOver
    <2>1. /\ h # t
          /\ \/ pc[h] \in EntersMsg /\ x = arg[h].msg
             \/ pc[h] \in EntersBox /\ x = arg[h].box
          /\ \A y \in Locks : InQueue(waitq[y], h) => y = x
        <3>1. h # t
            BY <1>8, <2>0
        <3>2. \A y \in Locks : InQueue(waitq[y], h) => \/ pc[h] \in EntersMsg /\ y = arg[h].msg
                                                       \/ pc[h] \in EntersBox /\ y = arg[h].box
            BY DEF QueueInv
        <3> QED BY <2>0, <3>1, <3>2, LabelSets
    <2>2. QueueInv'
        <3>1. \A y \in Locks : NoDuplicates(waitq'[y]) /\ (owner'[y] = NULL => waitq'[y] = <<>>)
            <4> TAKE y \in Locks
            <4>1. y # x => owner'[y] = owner[y] /\ waitq'[y] = waitq[y]
                BY <2>0
            <4>2. owner[y] = NULL => waitq[y] = <<>>
                BY DEF QueueInv
            <4>3. y = x => owner'[y] # NULL
                BY <2>0
            <4> QED BY <2>0, <4>1, <4>2, <4>3
        <3>2. \A y \in Locks, u \in Threads : InQueue(waitq'[y], u) =>
                /\ state'[u] = "BLOCKED" /\ owner'[y] # u
                /\ \/ pc'[u] \in EntersMsg /\ y = arg'[u].msg
                   \/ pc'[u] \in EntersBox /\ y = arg'[u].box
            <4> TAKE y \in Locks, u \in Threads
            <4> HAVE InQueue(waitq'[y], u)
            <4>1. InQueue(waitq[y], u) /\ u # t /\ u # h
                BY <1>8, <2>0, <2>1
            <4>2. /\ state[u] = "BLOCKED" /\ owner[y] # u
                  /\ \/ pc[u] \in EntersMsg /\ y = arg[u].msg
                     \/ pc[u] \in EntersBox /\ y = arg[u].box
                BY <4>1 DEF QueueInv
            <4> QED BY <1>1, <2>0, <4>1, <4>2
        <3> QED BY <3>1, <3>2 DEF QueueInv
    <2>3. HoldInv'
        <3>1. ASSUME NEW u \in Threads, u # t
              PROVE  /\ pc[u] \in HoldsMsg => owner'[arg[u].msg] = u
                     /\ pc[u] \in HoldsBox => owner'[arg[u].box] = u
                     /\ pc[u] \in EntersMsg => owner'[arg[u].msg] = u \/ InQueue(waitq'[arg[u].msg], u)
                     /\ pc[u] \in EntersBox => owner'[arg[u].box] = u \/ InQueue(waitq'[arg[u].box], u)
            <4>1. /\ pc[u] \in HoldsMsg => owner[arg[u].msg] = u
                  /\ pc[u] \in HoldsBox => owner[arg[u].box] = u
                  /\ pc[u] \in EntersMsg => owner[arg[u].msg] = u \/ InQueue(waitq[arg[u].msg], u)
                  /\ pc[u] \in EntersBox => owner[arg[u].box] = u \/ InQueue(waitq[arg[u].box], u)
                BY DEF HoldInv
            <4>2. \A y \in Locks : /\ owner[y] = u => owner'[y] = u
                                   /\ InQueue(waitq[y], u) => owner'[y] = u \/ InQueue(waitq'[y], u)
                BY <1>u, <2>0, <3>1
            <4>3. /\ pc[u] \in EntersMsg \cup HoldsMsg => arg[u].msg \in Locks
                  /\ pc[u] \in EntersBox \cup HoldsBox => arg[u].box \in Locks
                BY <1>4
            <4> HIDE DEF Inv
            <4> QED BY <4>1, <4>2, <4>3
        <3>2. l \in HoldsMsg => owner'[a.msg] = t
            BY <1>l, <2>0
        <3>3. \A u \in Threads : u # t => pc'[u] = pc[u] /\ arg'[u] = arg[u]
            BY <1>1
        <3>4. pc'[t] = l /\ arg'[t] = a
            BY <1>1
        <3> QED BY <1>l, <3>1, <3>2, <3>3, <3>4 DEF HoldInv
    <2>4. FoundInv'
        <3>0. /\ owner'[x] = h /\ pc'[h] = pc[h] /\ arg'[h] = arg[h]
              /\ x \in Msgs => pc[h] \in EntersMsg /\ arg[h].msg = x
              /\ x \in Boxes => pc[h] \in EntersBox /\ arg[h].box = x
            <4>1. owner'[x] = h
                BY <2>0
            <4>2. pc'[h] = pc[h] /\ arg'[h] = arg[h]
                BY <1>1, <2>1
            <4>3. /\ x \in Msgs => pc[h] \in EntersMsg /\ arg[h].msg = x
                  /\ x \in Boxes => pc[h] \in EntersBox /\ arg[h].box = x
                BY <1>4, <2>1
            <4> QED BY <4>1, <4>2, <4>3
        <3>1. /\ \A m \in Msgs : msg[m].state = "new" => owner'[m] = NULL /\ m \notin msg_alct
              /\ \A b \in Boxes : box[b].state = "new" => owner'[b] = NULL /\ b \notin box_alct
            <4>1. /\ \A m \in Msgs : msg[m].state = "new" => owner[m] = NULL /\ m \notin msg_alct
                  /\ \A b \in Boxes : box[b].state = "new" => owner[b] = NULL /\ b \notin box_alct
                BY DEF FoundInv
            <4> QED BY <2>0, <1>9, <4>1
        <3>2. \A u \in Threads : \A m \in msg_alct :
                  owner'[m] = u => pc'[u] \in EntersMsg \cup HoldsMsg /\ arg'[u].msg = m
            <4> TAKE u \in Threads
            <4> TAKE m \in msg_alct
            <4> HAVE owner'[m] = u
            <4>1. CASE m = x
                BY <1>4, <3>0, <4>1
            <4>2. CASE m # x
                <5>1. owner[m] = u
                    BY <1>4, <2>0, <4>2
                <5> QED BY <1>u, <1>1, <4>2, <5>1 DEF FoundInv
            <4> QED BY <4>1, <4>2
        <3>3. \A u \in Threads : \A b \in box_alct :
                  owner'[b] = u => pc'[u] \in EntersBox \cup HoldsBox /\ arg'[u].box = b
            <4> TAKE u \in Threads
            <4> TAKE b \in box_alct
            <4> HAVE owner'[b] = u
            <4>1. CASE b = x
                BY <1>4, <3>0, <4>1
            <4>2. CASE b # x
                <5>1. owner[b] = u
                    BY <1>4, <2>0, <4>2
                <5> QED BY <1>u, <1>1, <4>2, <5>1 DEF FoundInv
            <4> QED BY <4>1, <4>2
        <3>4. \A u \in Threads : pc'[u] \in LocksMsg \cup EntersMsg \cup HoldsMsg /\ arg'[u].msg \notin msg_alct =>
                  owner'[arg'[u].msg] \notin {NULL, u}
            <4>1. pc'[t] \in LocksMsg \cup EntersMsg \cup HoldsMsg => arg'[t].msg \in msg_alct
                BY <1>l, <1>1
            <4> QED BY <1>1, <1>m, <2>0, <4>1
        <3>5. \A u \in Threads : pc'[u] \in LocksBox \cup EntersBox \cup HoldsBox /\ arg'[u].box \notin box_alct =>
                  owner'[arg'[u].box] \notin {NULL, u}
            <4>1. pc'[t] \in LocksBox \cup EntersBox \cup HoldsBox => arg'[t].box \in box_alct
                BY <1>l, <1>1
            <4> QED BY <1>1, <1>b, <2>0, <4>1
        <3>6. UNCHANGED <<msg_alct, box_alct, msg, box>>
            BY <1>1
        <3> QED BY <3>1, <3>2, <3>3, <3>4, <3>5, <3>6, FoundIntro
    <2>5. SleepInv'
        <3>1. \A u \in Threads : u # h =>
                /\ pc[u] \in EntersMsg /\ InQueue(waitq[arg[u].msg], u) => InQueue(waitq'[arg[u].msg], u)
                /\ pc[u] \in EntersBox /\ InQueue(waitq[arg[u].box], u) => InQueue(waitq'[arg[u].box], u)
            BY <1>4, <2>0
        <3> QED BY <1>1, <2>0, <2>1, <3>1 DEF SleepInv
    <2> QED BY <1>2, <1>3, <1>5, <1>7, <2>2, <2>3, <2>4, <2>5
<1> QED BY <1>2, <1>10, <1>11

\* A thread that runs at a label at which it has a mutex owns it, and its object
\* can be found; of what can be found it owns nothing else.
LEMMA Owns ==
    ASSUME Inv, NEW t \in Threads, state[t] = "RUNNING"
    PROVE  /\ pc[t] \in EntersMsg \cup HoldsMsg =>
                arg[t].msg \in Msgs /\ arg[t].msg \in Locks /\ arg[t].msg \in msg_alct /\ owner[arg[t].msg] = t
           /\ pc[t] \in EntersBox \cup HoldsBox =>
                arg[t].box \in Boxes /\ arg[t].box \in Locks /\ arg[t].box \in box_alct /\ owner[arg[t].box] = t
           /\ \A m \in msg_alct : owner[m] = t => pc[t] \in EntersMsg \cup HoldsMsg /\ arg[t].msg = m
           /\ \A b \in box_alct : owner[b] = t => pc[t] \in EntersBox \cup HoldsBox /\ arg[t].box = b
<1> USE DEF Inv
<1>1. /\ pc[t] \in EntersMsg \cup HoldsMsg => arg[t].msg \in Msgs /\ arg[t].msg \in Locks
      /\ pc[t] \in EntersBox \cup HoldsBox => arg[t].box \in Boxes /\ arg[t].box \in Locks
    BY DEF Types
<1>2. \A x \in Locks : ~ InQueue(waitq[x], t)
    BY DEF QueueInv
<1>3. /\ pc[t] \in EntersMsg \cup HoldsMsg => owner[arg[t].msg] = t
      /\ pc[t] \in EntersBox \cup HoldsBox => owner[arg[t].box] = t
    BY <1>1, <1>2 DEF HoldInv
<1> QED BY <1>1, <1>3 DEF FoundInv

LEMMA GotoGoes ==
    ASSUME Inv, NEW t \in Threads
    PROVE  /\ \A l \in Labels : Goto(t, l) /\ UNCHANGED arg => Goes(t, l, arg[t])
           /\ Return(t) => Goes(t, "out", NoArg) /\ ArgsFor("out", NoArg)
           /\ arg[t] \in ArgType
<1>1. pc \in [Threads -> Labels] /\ arg \in [Threads -> ArgType]
    BY DEF Inv, Types, DataOK, ArgType
<1>2. NoArg \in ArgType
    BY DEF NoArg, ArgType
<1>3. "out" \in Labels
    BY DEF Labels
<1>4. ASSUME NEW l \in Labels, Goto(t, l), UNCHANGED arg PROVE Goes(t, l, arg[t])
    BY <1>1, <1>4 DEF Goto, Goes
<1>5. Return(t) => Goes(t, "out", NoArg)
    BY <1>1, <1>2, <1>3 DEF Return, Goto, Goes
<1>6. ArgsFor("out", NoArg)
    BY DEF ArgsFor, AllMsg, AllBox, LocksMsg, EntersMsg, HoldsMsg, LocksBox, EntersBox, HoldsBox
<1> QED BY <1>1, <1>4, <1>5, <1>6

\* mutex_unlock at the end of a call that has one mutex
LEMMA UnlockOutInv ==
    ASSUME Inv, NEW t \in Threads, state[t] = "RUNNING",
           NEW x, Unlock(t, x, "out"),
           \/ pc[t] \in {"send_ret2", "read_ret"} /\ x = arg[t].msg
           \/ pc[t] = "recv_ret" /\ x = arg[t].box
    PROVE  Inv'
<1>1. /\ Goes(t, "out", NoArg) /\ ArgsFor("out", NoArg)
      /\ mutex_unlock(x) /\ UNCHANGED <<dataVars, irqoff, failed>>
    BY GotoGoes DEF Unlock
<1>2. /\ "out" \notin LocksMsg \cup EntersMsg \cup HoldsMsg \cup LocksBox \cup EntersBox \cup HoldsBox \cup Waits
      /\ "out" # "newmsg_err3"
      /\ pc[t] \notin Waits
    BY DEF LocksMsg, EntersMsg, HoldsMsg, LocksBox, EntersBox, HoldsBox, Waits
<1>3. /\ x \in Locks /\ owner[x] = t /\ x \in msg_alct \cup box_alct
      /\ \A m \in msg_alct : owner[m] = t => m = x
      /\ \A b \in box_alct : owner[b] = t => b = x
    <2>1. CASE pc[t] \in {"send_ret2", "read_ret"} /\ x = arg[t].msg
        BY <2>1, Owns DEF EntersMsg, HoldsMsg, EntersBox, HoldsBox
    <2>2. CASE pc[t] = "recv_ret" /\ x = arg[t].box
        BY <2>2, Owns DEF EntersMsg, HoldsMsg, EntersBox, HoldsBox
    <2> QED BY <2>1, <2>2
<1>4. MayUnlock(t, "out", NoArg, x)
    BY <1>2, <1>3 DEF MayUnlock
<1> QED BY <1>1, <1>3, <1>4, UnlockInv

\* mutex_unlock(&box->mutex) at the end of the work of msg_send with the box,
\* and at the beginning of the wait of msg_recieve
LEMMA UnlockBoxInv ==
    ASSUME Inv, NEW t \in Threads, state[t] = "RUNNING", NEW l, Unlock(t, arg[t].box, l),
           \/ pc[t] = "send_ret3" /\ l = "send_ret2"
           \/ pc[t] = "recv_release" /\ l = "recv_block"
    PROVE  Inv'
<1> DEFINE x == arg[t].box
           a == arg[t]
<1>0. pc[t] \in HoldsBox /\ l # "out" /\ l \in Labels
    BY DEF HoldsBox, Labels
<1>1. /\ Goes(t, l, a)
      /\ mutex_unlock(x) /\ UNCHANGED <<dataVars, irqoff, failed>>
    BY <1>0, GotoGoes DEF Unlock
<1>2. /\ x \in Locks /\ x \in Boxes /\ owner[x] = t /\ x \in box_alct
      /\ pc[t] \in HoldsMsg => a.msg \in Msgs /\ a.msg \in msg_alct /\ owner[a.msg] = t
      /\ \A m \in msg_alct : owner[m] = t => pc[t] \in EntersMsg \cup HoldsMsg /\ a.msg = m
      /\ \A b \in box_alct : owner[b] = t => b = x
    BY <1>0, Owns
<1>3. /\ l \notin EntersMsg \cup EntersBox \cup HoldsBox \cup {"newmsg_err3"}
      /\ l \notin LocksMsg
      /\ l \in HoldsMsg <=> pc[t] \in HoldsMsg
      /\ pc[t] \notin EntersMsg
      /\ \/ l \notin Waits /\ pc[t] \notin Waits
         \/ l = "recv_block" /\ pc[t] = "recv_release"
    BY DEF LocksMsg, EntersMsg, HoldsMsg, LocksBox, EntersBox, HoldsBox, Waits
<1>4. a.msg \in Msgs => a.msg # x
    BY <1>2
<1>5. ArgsFor(l, a)
    BY <1>2, <1>3 DEF ArgsFor, AllMsg, AllBox, LocksMsg, HoldsMsg, EntersMsg
<1> HIDE DEF x, a
<1>6. x = arg[t].box /\ a = arg[t]
    BY DEF x, a
<1>7. l \in HoldsMsg => a.msg \in Msgs \ {x} /\ owner[a.msg] = t
    BY <1>2, <1>3, <1>4
<1>8. \A m \in msg_alct : owner[m] = t => m = x \/ (l \in HoldsMsg /\ a.msg = m)
    BY <1>2, <1>3
<1>9. l \in LocksMsg \cup HoldsMsg => a.msg \in msg_alct
    BY <1>2, <1>3
<1>10. l \in LocksBox => a.box \in box_alct
    BY <1>2, <1>6
<1>11. \/ l \notin Waits /\ pc[t] \notin Waits
       \/ l = "recv_block" /\ pc[t] = "recv_release" /\ a = arg[t]
    BY <1>3, <1>6
<1>12. /\ x \in msg_alct \cup box_alct /\ x \in Locks /\ owner[x] = t
       /\ \A b \in box_alct : owner[b] = t => b = x
    BY <1>2
<1>13. MayUnlock(t, l, a, x)
    BY <1>3, <1>7, <1>8, <1>9, <1>10, <1>11, <1>12 DEF MayUnlock
<1> QED BY <1>1, <1>5, <1>12, <1>13, UnlockInv

-----------------------------------------------------------------------------
(***************************************************************************)
(* The system calls                                                        *)
(***************************************************************************)

LEMMA EnterInv ==
    ASSUME Inv, NEW t \in Threads, NEW l, NEW m, NEW b, NEW block \in BOOLEAN, Enter(t, l, m, b, block),
           \/ l = "send_msg" /\ m \in msg_alct /\ b \in Boxes
           \/ l \in {"read", "delmsg_lock"} /\ m \in msg_alct /\ b = NULL
           \/ l \in {"recv_box", "delbox_lock"} /\ b \in box_alct /\ m = NULL
    PROVE  Inv'
<1> DEFINE a == [msg |-> m, box |-> b, block |-> block]
<1>1. /\ state[t] = "RUNNING" /\ pc[t] = "out"
      /\ UNCHANGED <<schedVars, mutexesVars, dataVars, irqoff, failed>>
      /\ pc' = [pc EXCEPT ![t] = l] /\ arg' = [arg EXCEPT ![t] = a]
    BY DEF Enter, At, Goto
<1>2. /\ msg_alct \subseteq Msgs /\ box_alct \subseteq Boxes /\ irqoff \in [Threads -> BOOLEAN]
      /\ pc \in [Threads -> Labels] /\ arg \in [Threads -> ArgType]
    BY DEF Inv, Types, DataOK, ArgType
<1>3. /\ l \in Labels /\ l \notin EntersMsg \cup HoldsMsg \cup EntersBox \cup HoldsBox \cup Waits /\ l # "newmsg_err3"
      /\ l \in AllMsg => m \in msg_alct
      /\ l \in AllBox => b \in box_alct
      /\ l \in {"recv_own", "send_msg", "send_find"} => l = "send_msg"
      /\ pc[t] \notin EntersMsg \cup HoldsMsg \cup EntersBox \cup HoldsBox \cup Waits
    BY <1>1 DEF Labels, LocksMsg, EntersMsg, HoldsMsg, LocksBox, EntersBox, HoldsBox, AllMsg, AllBox, Waits
<1>4. a.msg = m /\ a.box = b /\ a \in ArgType
    BY <1>2 DEF ArgType
<1> HIDE DEF a
<1>5. Goes(t, l, a)
    BY <1>1, <1>2, <1>3, <1>4 DEF Goes
<1>6. ArgsFor(l, a)
    BY <1>2, <1>3, <1>4 DEF ArgsFor
<1>7. MayGo(t, l, a)
    BY <1>1, <1>3, <1>4, Owns DEF MayGo
<1>8. irqoff' \in [Threads -> BOOLEAN]
    BY <1>1, <1>2
<1> QED BY <1>1, <1>5, <1>6, <1>7, <1>8, ControlInv

\* A thread goes on with the mutexes it has.
LEMMA GoOnInv ==
    ASSUME Inv, NEW t \in Threads, NEW l, state[t] = "RUNNING", Goto(t, l),
           UNCHANGED <<schedVars, mutexesVars, dataVars, arg, irqoff, failed>>,
           \/ pc[t] = "send_find" /\ l = "send_box" /\ arg[t].box \in box_alct
           \/ pc[t] = "send_find" /\ l = "send_ret2"
           \/ pc[t] = "send" /\ l = "send_ret3"
           \/ pc[t] \in {"recv", "delbox"} /\ l = "recv_ret"
           \/ pc[t] = "delmsg" /\ l = "read_ret"
    PROVE  Inv'
<1>1. l \in Labels /\ irqoff' \in [Threads -> BOOLEAN] /\ box_alct \subseteq Boxes
    BY DEF Labels, Inv, Types, DataOK
<1>2. Goes(t, l, arg[t])
    BY <1>1, GotoGoes
<1>3. /\ pc[t] \in EntersMsg \cup HoldsMsg <=> l \in EntersMsg \cup HoldsMsg
      /\ pc[t] \in EntersBox \cup HoldsBox <=> l \in HoldsBox
      /\ l \notin LocksMsg \cup EntersBox /\ l \notin {"recv_own", "send_msg", "send_find", "newmsg_err3"}
      /\ l \in LocksBox => arg[t].box \in box_alct
      /\ l \notin Waits /\ pc[t] \notin Waits
    BY DEF LocksMsg, EntersMsg, HoldsMsg, LocksBox, EntersBox, HoldsBox, Waits
<1>4. ArgsFor(l, arg[t])
    BY <1>1, <1>3, Owns DEF ArgsFor, AllMsg, AllBox
<1>5. MayGo(t, l, arg[t])
    BY <1>3, Owns DEF MayGo, AllMsg, AllBox
<1> QED BY <1>1, <1>2, <1>4, <1>5, ControlInv

\* WaitInv after a step of threads that do not wait
LEMMA WaitKept ==
    ASSUME Inv,
           \A u \in Threads : pc'[u] # pc[u] => pc[u] \notin Waits /\ pc'[u] \notin Waits,
           \A u \in Threads : pc[u] \in Waits => arg'[u].box = arg[u].box,
           \A u \in Threads : state'[u] = "BLOCKED" <=> state[u] = "BLOCKED",
           \A b \in Boxes : /\ box'[b].state = "RCV_BLK" <=> box[b].state = "RCV_BLK"
                            /\ box'[b].blk = box[b].blk /\ box'[b].msg_ls = box[b].msg_ls
    PROVE  WaitInv'
<1>1. \A u \in Threads : pc[u] \in Waits \/ pc'[u] \in Waits => pc'[u] = pc[u]
    OBVIOUS
<1>2. \A u \in Threads : pc'[u] \in {"recv_release", "recv_block", "recv_relock", "recv_woken"} => pc'[u] = pc[u]
    BY <1>1 DEF Waits
<1>3. /\ \A u \in Threads : pc'[u] \in Waits <=> pc[u] \in Waits
      /\ \A u \in Threads : pc'[u] \in {"recv_release", "recv_block"} => pc[u] \in {"recv_release", "recv_block"}
      /\ \A u \in Threads : pc'[u] = "recv_relock" =>
             pc[u] = "recv_relock" /\ (state'[u] = "BLOCKED" <=> state[u] = "BLOCKED")
      /\ \A u \in Threads : pc'[u] = "recv_woken" =>
             pc[u] = "recv_woken" \/ (pc[u] = "recv_relock" /\ state[u] # "BLOCKED")
    BY <1>1, <1>2
<1> QED BY <1>3, WaitMoves

\* A thread leaves, and what it has cannot be found any more.
LEMMA DeleteInv ==
    ASSUME Inv, NEW t \in Threads, state[t] = "RUNNING", pc[t] \notin Waits, Return(t),
           UNCHANGED <<schedVars, mutexesVars, msg, box, irqoff, failed>>,
           msg_alct' \subseteq msg_alct, box_alct' \subseteq box_alct,
           \A m \in msg_alct' : owner[m] # t,
           \A b \in box_alct' : owner[b] # t,
           \A m \in msg_alct : m \notin msg_alct' => owner[m] = t /\ msg[m].state # "SENDED",
           \A b \in box_alct : b \notin box_alct' => owner[b] = t /\ box[b].msg_ls = <<>>
    PROVE  Inv'
<1>1. /\ pc' \in [Threads -> Labels] /\ \A u \in Threads : pc'[u] = IF u = t THEN "out" ELSE pc[u]
      /\ arg' \in [Threads -> ArgType] /\ \A u \in Threads : arg'[u] = IF u = t THEN NoArg ELSE arg[u]
    BY GotoGoes DEF Goes
<1>2. "out" \notin LocksMsg \cup EntersMsg \cup HoldsMsg \cup LocksBox \cup EntersBox \cup HoldsBox \cup Waits
    BY DEF LocksMsg, EntersMsg, HoldsMsg, LocksBox, EntersBox, HoldsBox, Waits
<1>3. SchedInv' /\ state' = state /\ owner' = owner /\ waitq' = waitq
    BY SchedStutterInv DEF Inv, schedVars, mutexesVars
<1>4. Types'
    <2>1. DataOK'
        BY <1>1, <1>3 DEF Inv, Types, DataOK
    <2>2. ASSUME NEW u \in Threads
          PROVE  /\ pc'[u] \in LocksMsg \cup EntersMsg \cup HoldsMsg \cup {"recv_own"} => arg'[u].msg \in Msgs
                 /\ pc'[u] \in LocksBox \cup EntersBox \cup HoldsBox \cup {"send_msg", "send_find"} => arg'[u].box \in Boxes
        <3>1. CASE u = t
            BY <1>1, <1>2, <3>1
        <3>2. CASE u # t
            <4>1. pc'[u] = pc[u] /\ arg'[u] = arg[u]
                BY <1>1, <3>2
            <4> QED BY <4>1 DEF Inv, Types
        <3> QED BY <3>1, <3>2
    <2> QED BY <1>1, <2>1, <2>2 DEF Inv, Types, ArgType
<1>5. QueueInv'
    <2>1. \A x \in Locks : ~ InQueue(waitq[x], t)
        BY DEF Inv, QueueInv
    <2>2. ASSUME NEW x \in Locks, NEW u \in Threads, InQueue(waitq[x], u)
          PROVE  state'[u] = "BLOCKED" /\ owner'[x] # u /\ pc'[u] = pc[u] /\ arg'[u] = arg[u]
        <3>1. state[u] = "BLOCKED" /\ owner[x] # u /\ u # t
            BY <2>1, <2>2 DEF Inv, QueueInv
        <3> QED BY <1>1, <1>3, <3>1
    <2>3. QueueInv
        BY DEF Inv
    <2> QED BY <1>3, <2>2, <2>3, QueueKept
<1>6. HoldInv'
    <2>1. ASSUME NEW u \in Threads
          PROVE  /\ pc'[u] \in HoldsMsg => owner'[arg'[u].msg] = u
                 /\ pc'[u] \in HoldsBox => owner'[arg'[u].box] = u
                 /\ pc'[u] \in EntersMsg => owner'[arg'[u].msg] = u \/ InQueue(waitq'[arg'[u].msg], u)
                 /\ pc'[u] \in EntersBox => owner'[arg'[u].box] = u \/ InQueue(waitq'[arg'[u].box], u)
        <3>1. CASE u = t
            BY <1>1, <1>2, <3>1
        <3>2. CASE u # t
            <4>1. pc'[u] = pc[u] /\ arg'[u] = arg[u] /\ owner' = owner /\ waitq' = waitq
                BY <1>1, <1>3, <3>2
            <4> QED BY <4>1 DEF Inv, HoldInv
        <3> QED BY <3>1, <3>2
    <2> QED BY <2>1 DEF HoldInv
<1>7. FoundInv'
    <2>1. FoundInv
        BY DEF Inv
    <2>2. /\ \A m \in Msgs : msg[m].state = "new" => owner[m] = NULL /\ m \notin msg_alct'
          /\ \A b \in Boxes : box[b].state = "new" => owner[b] = NULL /\ b \notin box_alct'
        BY <2>1 DEF FoundInv
    <2>3. \A u \in Threads : \A m \in msg_alct' :
              owner[m] = u => pc'[u] \in EntersMsg \cup HoldsMsg /\ arg'[u].msg = m
        BY <1>1, <2>1 DEF FoundInv
    <2>4. \A u \in Threads : \A b \in box_alct' :
              owner[b] = u => pc'[u] \in EntersBox \cup HoldsBox /\ arg'[u].box = b
        BY <1>1, <2>1 DEF FoundInv
    <2>5. \A u \in Threads : pc'[u] \in LocksMsg \cup EntersMsg \cup HoldsMsg /\ arg'[u].msg \notin msg_alct' =>
              owner[arg'[u].msg] \notin {NULL, u}
        BY <1>1, <1>2, <2>1 DEF FoundInv
    <2>6. \A u \in Threads : pc'[u] \in LocksBox \cup EntersBox \cup HoldsBox /\ arg'[u].box \notin box_alct' =>
              owner[arg'[u].box] \notin {NULL, u}
        BY <1>1, <1>2, <2>1 DEF FoundInv
    <2> QED BY <1>3, <2>2, <2>3, <2>4, <2>5, <2>6 DEF FoundInv
<1>8. SleepInv'
    BY <1>1, <1>3 DEF Inv, SleepInv
<1>9. WaitInv'
    BY <1>1, <1>2, <1>3, WaitKept
<1>10. SentInv' /\ RecieverFindsMessage'
    <2>1. SentInv /\ RecieverFindsMessage
        BY DEF Inv
    <2>2. \A b \in Boxes : \A m \in Msgs : InQueue(box[b].msg_ls, m) =>
            b \in box_alct' /\ m \in msg_alct' /\ msg[m].state = "SENDED"
        BY <2>1 DEF SentInv, InQueue
    <2>3. \A u \in Threads : pc'[u] = "newmsg_err3" => msg[arg'[u].msg].state # "SENDED"
        BY <1>1, <2>1 DEF SentInv
    <2> QED BY <2>1, <2>2, <2>3 DEF SentInv, RecieverFindsMessage
<1> QED BY <1>3, <1>4, <1>5, <1>6, <1>7, <1>8, <1>9, <1>10 DEF Inv

LEMMA newmsg_err3Inv ==
    ASSUME Inv, NEW t \in Threads, newmsg_err3(t) PROVE Inv'
<1>1. /\ state[t] = "RUNNING" /\ pc[t] = "newmsg_err3" /\ Return(t) /\ msg_alct' = msg_alct \ {arg[t].msg}
      /\ box_alct' = box_alct /\ UNCHANGED <<schedVars, mutexesVars, msg, box, irqoff, failed>>
    BY DEF newmsg_err3, At
<1>2. pc[t] \in HoldsMsg /\ pc[t] \notin EntersBox \cup HoldsBox \cup Waits
    BY <1>1 DEF HoldsMsg, EntersBox, HoldsBox, Waits
<1>3. msg[arg[t].msg].state # "SENDED"
    BY <1>1 DEF Inv, SentInv
<1> QED BY <1>1, <1>2, <1>3, Owns, DeleteInv

LEMMA delmsgInv ==
    ASSUME Inv, NEW t \in Threads, delmsg(t) PROVE Inv'
<1>1. state[t] = "RUNNING" /\ pc[t] = "delmsg"
    BY DEF delmsg, At
<1>2. CASE Goto(t, "read_ret") /\ UNCHANGED <<schedVars, mutexesVars, dataVars, arg, irqoff, failed>>
    BY <1>1, <1>2, GoOnInv
<1>3. CASE ~ (Goto(t, "read_ret") /\ UNCHANGED <<schedVars, mutexesVars, dataVars, arg, irqoff, failed>>)
    <2>1. /\ Return(t) /\ msg_alct' = msg_alct \ {arg[t].msg} /\ msg[arg[t].msg].state # "SENDED"
          /\ box_alct' = box_alct /\ UNCHANGED <<schedVars, mutexesVars, msg, box, irqoff, failed>>
        BY <1>3 DEF delmsg
    <2>2. pc[t] \in EntersMsg /\ pc[t] \notin EntersBox \cup HoldsBox \cup Waits
        BY <1>1 DEF EntersMsg, EntersBox, HoldsBox, Waits
    <2> QED BY <1>1, <2>1, <2>2, Owns, DeleteInv
<1> QED BY <1>2, <1>3

LEMMA delboxInv ==
    ASSUME Inv, NEW t \in Threads, delbox(t) PROVE Inv'
<1>1. state[t] = "RUNNING" /\ pc[t] = "delbox"
    BY DEF delbox, At
<1>2. CASE Goto(t, "recv_ret") /\ UNCHANGED <<schedVars, mutexesVars, dataVars, arg, irqoff, failed>>
    BY <1>1, <1>2, GoOnInv
<1>3. CASE ~ (Goto(t, "recv_ret") /\ UNCHANGED <<schedVars, mutexesVars, dataVars, arg, irqoff, failed>>)
    <2>1. /\ Return(t) /\ box_alct' = box_alct \ {arg[t].box} /\ ~ (box[arg[t].box].nmsg > 0)
          /\ msg_alct' = msg_alct /\ UNCHANGED <<schedVars, mutexesVars, msg, box, irqoff, failed>>
        BY <1>3 DEF delbox
    <2>2. pc[t] \in EntersBox /\ pc[t] \notin EntersMsg \cup HoldsMsg \cup Waits
        BY <1>1 DEF EntersMsg, HoldsMsg, EntersBox, Waits
    <2>3. arg[t].box \in Boxes /\ box[arg[t].box].msg_ls \in Seq(Msgs)
          /\ box[arg[t].box].nmsg = Len(box[arg[t].box].msg_ls)
        BY <1>1, <2>2, Owns DEF Inv, Types, DataOK
    <2>4. box[arg[t].box].msg_ls = <<>>
        BY <2>1, <2>3, QueueEmpty, QueueIs
    <2> QED BY <1>1, <2>1, <2>2, <2>4, Owns, DeleteInv
<1> QED BY <1>2, <1>3

\* msg_newmsg makes a message, or fails to and is left with its mutex.
LEMMA msg_newmsgInv ==
    ASSUME Inv, NEW t \in Threads, msg_newmsg(t) PROVE Inv'
<1>1. PICK m \in Msgs :
        /\ state[t] = "RUNNING" /\ pc[t] = "out" /\ msg[m].state = "new" /\ msg_alct' = msg_alct \cup {m}
        /\ \/ /\ msg' = [msg EXCEPT ![m] = [state |-> "UNSEND", owner |-> ProcOf[t]]]
              /\ UNCHANGED <<owner, pc, arg>>
           \/ /\ msg' = [msg EXCEPT ![m].state = "blank"] /\ owner' = [owner EXCEPT ![m] = t]
              /\ arg' = [arg EXCEPT ![t].msg = m] /\ pc' = [pc EXCEPT ![t] = "newmsg_err3"]
        /\ UNCHANGED <<schedVars, waitq, box_alct, box, irqoff, failed>>
    BY DEF msg_newmsg, At, Goto
<1>2. /\ owner \in [Locks -> Threads \cup {NULL}] /\ pc \in [Threads -> Labels] /\ arg \in [Threads -> ArgType]
      /\ msg_alct \subseteq Msgs /\ box_alct \subseteq Boxes
      /\ msg \in [Msgs -> [state : {"new", "blank", "UNSEND", "SENDED", "RECIEVED"}, owner : Procs \cup {NULL}]]
    BY DEF Inv, Types, DataOK, ArgType
<1>3. SchedInv' /\ state' = state /\ waitq' = waitq /\ box_alct' = box_alct /\ box' = box /\ failed' = failed
    BY <1>1, SchedStutterInv DEF Inv, schedVars
<1>4. /\ msg' \in [Msgs -> [state : {"new", "blank", "UNSEND", "SENDED", "RECIEVED"}, owner : Procs \cup {NULL}]]
      /\ msg'[m].state \in {"blank", "UNSEND"}
      /\ \A n \in Msgs : n # m => msg'[n] = msg[n]
    BY <1>1, <1>2
<1>5. /\ \A u \in Threads : u # t => pc'[u] = pc[u] /\ arg'[u] = arg[u]
      /\ owner' \in [Locks -> Threads \cup {NULL}]
      /\ \A x \in Locks : x # m => owner'[x] = owner[x]
      /\ pc' \in [Threads -> Labels] /\ arg' \in [Threads -> ArgType]
      /\ \/ pc'[t] = "out" /\ owner'[m] = owner[m]
         \/ pc'[t] = "newmsg_err3" /\ owner'[m] = t /\ arg'[t].msg = m
    <2>1. "newmsg_err3" \in Labels
        BY DEF Labels
    <2>2. CASE UNCHANGED <<owner, pc, arg>>
        BY <1>1, <1>2, <2>2
    <2>3. CASE /\ owner' = [owner EXCEPT ![m] = t] /\ arg' = [arg EXCEPT ![t].msg = m]
               /\ pc' = [pc EXCEPT ![t] = "newmsg_err3"]
        <3>1. [arg[t] EXCEPT !.msg = m] \in ArgType /\ [arg[t] EXCEPT !.msg = m].msg = m
            <4>1. arg[t] \in ArgType
                BY <1>2
            <4> QED BY <4>1 DEF ArgType
        <3>2. arg' = [arg EXCEPT ![t] = [arg[t] EXCEPT !.msg = m]]
            BY <2>3
        <3>3. arg' \in [Threads -> ArgType] /\ arg'[t].msg = m /\ \A u \in Threads : u # t => arg'[u] = arg[u]
            BY <1>2, <3>1, <3>2
        <3> QED BY <1>2, <2>1, <2>3, <3>3
    <2> QED BY <1>1, <2>2, <2>3
<1>6. /\ "out" \notin LocksMsg \cup EntersMsg \cup HoldsMsg \cup LocksBox \cup EntersBox \cup HoldsBox \cup Waits
      /\ "newmsg_err3" \in HoldsMsg
      /\ "newmsg_err3" \notin LocksMsg \cup EntersMsg \cup LocksBox \cup EntersBox \cup HoldsBox \cup Waits
    BY DEF LocksMsg, EntersMsg, HoldsMsg, LocksBox, EntersBox, HoldsBox, Waits
<1>7. /\ m \in Locks /\ owner[m] = NULL /\ m \notin msg_alct /\ m \notin Boxes
      /\ \A u \in Threads : pc[u] \in LocksMsg \cup EntersMsg \cup HoldsMsg => arg[u].msg # m
    BY <1>1 DEF Inv, FoundInv
<1>8. Types'
    <2>1. DataOK'
        BY <1>1, <1>2, <1>3, <1>4, <1>5 DEF Inv, Types, DataOK
    <2>2. /\ pc'[t] \notin LocksBox \cup EntersBox \cup HoldsBox \cup {"recv_own", "send_msg", "send_find"}
          /\ pc'[t] \in LocksMsg \cup EntersMsg \cup HoldsMsg => arg'[t].msg \in Msgs
        BY <1>5, <1>6
    <2>3. \A u \in Threads :
            /\ pc'[u] \in LocksMsg \cup EntersMsg \cup HoldsMsg \cup {"recv_own"} => arg'[u].msg \in Msgs
            /\ pc'[u] \in LocksBox \cup EntersBox \cup HoldsBox \cup {"send_msg", "send_find"} => arg'[u].box \in Boxes
        BY <1>5, <2>2 DEF Inv, Types
    <2> QED BY <1>3, <1>5, <2>1, <2>3 DEF Inv, Types, ArgType
<1>9. QueueInv'
    <2>1. \A x \in Locks : ~ InQueue(waitq[x], t) /\ (x = m => waitq[x] = <<>>)
        BY <1>1, <1>7 DEF Inv, QueueInv
    <2>2. \A u : ~ InQueue(waitq[m], u)
        BY <1>7, <2>1 DEF InQueue
    <2>3. \A x \in Locks, u \in Threads : InQueue(waitq[x], u) => x # m /\ u # t
        BY <2>1, <2>2
    <2>4. \A x \in Locks : NoDuplicates(waitq[x]) /\ (owner'[x] = NULL => waitq[x] = <<>>)
        BY <1>5, <2>1 DEF Inv, QueueInv
    <2>5. \A x \in Locks, u \in Threads : InQueue(waitq[x], u) =>
            /\ state[u] = "BLOCKED" /\ owner'[x] # u
            /\ \/ pc'[u] \in EntersMsg /\ x = arg'[u].msg
               \/ pc'[u] \in EntersBox /\ x = arg'[u].box
        BY <1>5, <2>3 DEF Inv, QueueInv
    <2> QED BY <1>3, <2>4, <2>5 DEF QueueInv
<1>10. HoldInv'
    <2>1. ASSUME NEW u \in Threads, u # t
          PROVE  /\ pc'[u] \in HoldsMsg \cup EntersMsg => owner'[arg'[u].msg] = owner[arg[u].msg]
                 /\ pc'[u] \in HoldsBox \cup EntersBox => owner'[arg'[u].box] = owner[arg[u].box]
        <3>1. pc'[u] = pc[u] /\ arg'[u] = arg[u]
            BY <1>5, <2>1
        <3>2. pc[u] \in HoldsMsg \cup EntersMsg => arg[u].msg \in Locks /\ arg[u].msg # m
            BY <1>7 DEF Inv, Types
        <3>3. pc[u] \in HoldsBox \cup EntersBox => arg[u].box \in Locks /\ arg[u].box # m
            BY <1>7 DEF Inv, Types
        <3>4. \A x \in Locks : x # m => owner'[x] = owner[x]
            BY <1>5
        <3> QED BY <3>1, <3>2, <3>3, <3>4
    <2>2. /\ pc'[t] \notin EntersMsg \cup HoldsBox \cup EntersBox
          /\ pc'[t] \in HoldsMsg => owner'[arg'[t].msg] = t
        BY <1>5, <1>6
    <2> QED BY <1>3, <1>5, <2>1, <2>2 DEF Inv, HoldInv
<1>11. FoundInv'
    <2>1. FoundInv
        BY DEF Inv
    <2>2. /\ \A n \in Msgs : msg'[n].state = "new" => owner'[n] = NULL /\ n \notin msg_alct'
          /\ \A b \in Boxes : box[b].state = "new" => owner'[b] = NULL /\ b \notin box_alct
        BY <1>1, <1>4, <1>5, <1>7, <2>1 DEF FoundInv
    <2>3. \A n \in msg_alct : n \in Locks /\ n # m /\ owner[n] # t
        BY <1>1, <1>2, <1>6, <1>7, <2>1 DEF FoundInv
    <2>4. \A u \in Threads : \A n \in msg_alct' :
              owner'[n] = u => pc'[u] \in EntersMsg \cup HoldsMsg /\ arg'[u].msg = n
        <3>1. ASSUME NEW u \in Threads, NEW n \in msg_alct, owner'[n] = u
              PROVE  pc'[u] \in EntersMsg \cup HoldsMsg /\ arg'[u].msg = n
            BY <1>5, <2>1, <2>3, <3>1 DEF FoundInv
        <3>2. ASSUME NEW u \in Threads, owner'[m] = u
              PROVE  pc'[u] \in EntersMsg \cup HoldsMsg /\ arg'[u].msg = m
            BY <1>5, <1>6, <1>7, <3>2
        <3> QED BY <1>1, <3>1, <3>2
    <2>5. \A b \in box_alct : b \in Locks /\ b # m /\ owner[b] # t
        BY <1>1, <1>2, <1>6, <1>7, <2>1 DEF FoundInv
    <2>6. \A u \in Threads : \A b \in box_alct :
              owner'[b] = u => pc'[u] \in EntersBox \cup HoldsBox /\ arg'[u].box = b
        BY <1>5, <2>1, <2>5 DEF FoundInv
    <2>7. ASSUME NEW u \in Threads, pc'[u] \in LocksMsg \cup EntersMsg \cup HoldsMsg, arg'[u].msg \notin msg_alct'
          PROVE  owner'[arg'[u].msg] \notin {NULL, u}
        <3>1. u # t
            BY <1>1, <1>5, <1>6, <2>7
        <3>2. pc'[u] = pc[u] /\ arg'[u] = arg[u] /\ arg[u].msg \in Locks
            BY <1>5, <2>7, <3>1 DEF Inv, Types
        <3> QED BY <1>1, <1>5, <1>7, <2>1, <2>7, <3>2 DEF FoundInv
    <2>8. ASSUME NEW u \in Threads, pc'[u] \in LocksBox \cup EntersBox \cup HoldsBox, arg'[u].box \notin box_alct
          PROVE  owner'[arg'[u].box] \notin {NULL, u}
        <3>1. u # t
            BY <1>5, <1>6, <2>8
        <3>2. pc'[u] = pc[u] /\ arg'[u] = arg[u] /\ arg[u].box \in Locks /\ arg[u].box # m
            BY <1>5, <1>7, <2>8, <3>1 DEF Inv, Types
        <3> QED BY <1>5, <2>1, <2>8, <3>2 DEF FoundInv
    <2> QED BY <1>3, <2>2, <2>4, <2>6, <2>7, <2>8 DEF FoundInv
<1>12. SleepInv'
    BY <1>1, <1>3, <1>5 DEF Inv, SleepInv
<1>13. WaitInv'
    BY <1>1, <1>3, <1>5, <1>6, WaitKept
<1>14. SentInv' /\ RecieverFindsMessage'
    <2>1. SentInv /\ RecieverFindsMessage
        BY DEF Inv
    <2>2. \A b \in Boxes : \A n \in Msgs : InQueue(box[b].msg_ls, n) =>
            b \in box_alct /\ n \in msg_alct' /\ msg'[n].state = "SENDED"
        BY <1>1, <1>4, <2>1 DEF SentInv
    <2>3. \A u \in Threads : pc'[u] = "newmsg_err3" => msg'[arg'[u].msg].state # "SENDED"
        <3>1. \A u \in Threads : u # t /\ pc[u] = "newmsg_err3" => arg[u].msg \in Msgs /\ arg[u].msg # m
            BY <1>6, <1>7 DEF Inv, Types
        <3>2. \A u \in Threads : u # t /\ pc[u] = "newmsg_err3" => msg[arg[u].msg].state # "SENDED"
            BY <2>1 DEF SentInv
        <3>3. pc'[t] = "newmsg_err3" => msg'[arg'[t].msg].state # "SENDED"
            BY <1>4, <1>5
        <3>4. ASSUME NEW u \in Threads, u # t, pc'[u] = "newmsg_err3"
              PROVE  msg'[arg'[u].msg].state # "SENDED"
            BY <1>4, <1>5, <3>1, <3>2, <3>4
        <3> QED BY <3>3, <3>4
    <2> QED BY <1>3, <2>1, <2>2, <2>3 DEF SentInv, RecieverFindsMessage
<1> QED BY <1>3, <1>8, <1>9, <1>10, <1>11, <1>12, <1>13, <1>14 DEF Inv

LEMMA msg_newboxInv ==
    ASSUME Inv, NEW t \in Threads, msg_newbox(t) PROVE Inv'
<1>1. PICK b \in Boxes :
        /\ box[b].state = "new" /\ box' = [box EXCEPT ![b].state = "RCVABLE", ![b].owner = ProcOf[t]]
        /\ box_alct' = box_alct \cup {b}
        /\ UNCHANGED <<schedVars, mutexesVars, msg_alct, msg, pc, arg, irqoff, failed>>
    BY DEF msg_newbox
<1>2. /\ SchedInv' /\ state' = state
      /\ UNCHANGED <<owner, waitq, msg_alct, msg, pc, arg, irqoff, failed>>
    BY <1>1, SchedStutterInv DEF Inv, schedVars, mutexesVars
<1>3. /\ box' \in [Boxes -> [state : {"new", "RCVABLE", "RCV_BLK"}, owner : Procs \cup {NULL}, nmsg : Nat,
                             blk : Threads \cup {NULL}, msg_ls : Seq(Msgs)]]
      /\ box'[b].state = "RCVABLE"
      /\ \A d \in Boxes : /\ d # b => box'[d] = box[d]
                          /\ box'[d].blk = box[d].blk /\ box'[d].msg_ls = box[d].msg_ls /\ box'[d].nmsg = box[d].nmsg
    <2> DEFINE R == [state : {"new", "RCVABLE", "RCV_BLK"}, owner : Procs \cup {NULL}, nmsg : Nat,
                     blk : Threads \cup {NULL}, msg_ls : Seq(Msgs)]
               r == [[box[b] EXCEPT !.state = "RCVABLE"] EXCEPT !.owner = ProcOf[t]]
    <2>1. box \in [Boxes -> R] /\ ProcOf[t] \in Procs
        BY DEF Inv, Types
    <2>2. r \in R
        BY <2>1
    <2>3. r.state = "RCVABLE" /\ r.blk = box[b].blk /\ r.msg_ls = box[b].msg_ls /\ r.nmsg = box[b].nmsg
        BY <2>1
    <2> HIDE DEF R
    <2>4. \A d \in Boxes : box'[d] = IF d = b THEN r ELSE box[d]
        BY <1>1, <2>1
    <2>5. box' \in [Boxes -> R]
        <3>1. box' = [d \in Boxes |-> box'[d]]
            BY <1>1, <2>1
        <3> HIDE DEF r
        <3> QED BY <2>1, <2>2, <2>4, <3>1
    <2> HIDE DEF r
    <2>6. box'[b].state = "RCVABLE"
          /\ \A d \in Boxes : /\ d # b => box'[d] = box[d]
                              /\ box'[d].blk = box[d].blk /\ box'[d].msg_ls = box[d].msg_ls /\ box'[d].nmsg = box[d].nmsg
        BY <2>3, <2>4
    <2> QED BY <2>5, <2>6 DEF R
<1>4. Types'
    <2>1. \A d \in Boxes : box'[d].nmsg = Len(box'[d].msg_ls)
        BY <1>3 DEF Inv, Types, DataOK
    <2>2. DataOK'
        BY <1>1, <1>2, <1>3, <2>1 DEF Inv, Types, DataOK
    <2> QED BY <1>2, <1>3, <2>2 DEF Inv, Types
<1>5. QueueInv' /\ HoldInv' /\ SleepInv'
    BY <1>2 DEF Inv, QueueInv, HoldInv, SleepInv
<1>6. FoundInv'
    <2>1. owner[b] = NULL /\ FoundInv
        BY <1>1 DEF Inv, FoundInv
    <2>2. \A d \in Boxes : box'[d].state = "new" => owner[d] = NULL /\ d \notin box_alct'
        BY <1>1, <1>3, <2>1 DEF FoundInv
    <2>3. \A u \in Threads : \A d \in box_alct' :
              owner[d] = u => pc[u] \in EntersBox \cup HoldsBox /\ arg[u].box = d
        BY <1>1, <2>1 DEF FoundInv
    <2>4. \A u \in Threads : pc[u] \in LocksBox \cup EntersBox \cup HoldsBox /\ arg[u].box \notin box_alct' =>
              owner[arg[u].box] \notin {NULL, u}
        BY <1>1, <2>1 DEF FoundInv
    <2> QED BY <1>2, <2>1, <2>2, <2>3, <2>4 DEF FoundInv
<1>7. WaitInv'
    <2>1. \A d \in Boxes : box'[d].state = "RCV_BLK" <=> box[d].state = "RCV_BLK"
        BY <1>1, <1>3
    <2> QED BY <1>2, <1>3, <2>1, WaitKept
<1>8. SentInv' /\ RecieverFindsMessage'
    BY <1>1, <1>2, <1>3 DEF Inv, SentInv, RecieverFindsMessage
<1> QED BY <1>2, <1>4, <1>5, <1>6, <1>7, <1>8 DEF Inv

-----------------------------------------------------------------------------
(***************************************************************************)
(* Work on a box with its mutex                                            *)
(***************************************************************************)

BoxType == [state : {"new", "RCVABLE", "RCV_BLK"}, owner : Procs \cup {NULL}, nmsg : Nat,
            blk : Threads \cup {NULL}, msg_ls : Seq(Msgs)]

\* At label l with the arguments a, thread t has what it has now.
SameHolds(t, l, a) ==
    /\ l \in EntersMsg \cup HoldsMsg <=> pc[t] \in EntersMsg \cup HoldsMsg
    /\ l \in EntersBox \cup HoldsBox <=> pc[t] \in EntersBox \cup HoldsBox
    /\ l \notin LocksMsg /\ (l \in LocksBox => pc[t] \in LocksBox)
    /\ l \in EntersMsg \cup HoldsMsg => a.msg = arg[t].msg
    /\ a.box = arg[t].box

\* What a step with unchanged mutexes, made with the mutexes it needs, keeps
LEMMA WorkInv ==
    ASSUME Inv, NEW t \in Threads, state[t] = "RUNNING", NEW l, NEW a, Goes(t, l, a), SameHolds(t, l, a),
           UNCHANGED <<owner, waitq, msg_alct, box_alct>>,
           \A x \in Locks, u \in Threads : InQueue(waitq[x], u) => state'[u] = "BLOCKED",
           \A m \in Msgs : msg'[m].state = "new" => msg[m].state = "new",
           \A b \in Boxes : box'[b].state = "new" => box[b].state = "new"
    PROVE  QueueInv' /\ HoldInv' /\ FoundInv'
<1>1. pc'[t] = l /\ arg'[t] = a /\ \A u \in Threads : u # t => pc'[u] = pc[u] /\ arg'[u] = arg[u]
    BY DEF Goes
<1>2. /\ l \in EntersMsg \cup HoldsMsg => pc[t] \in EntersMsg \cup HoldsMsg /\ a.msg = arg[t].msg
      /\ l \in EntersBox \cup HoldsBox => pc[t] \in EntersBox \cup HoldsBox
      /\ pc[t] \in EntersMsg \cup HoldsMsg => l \in EntersMsg \cup HoldsMsg
      /\ pc[t] \in EntersBox \cup HoldsBox => l \in EntersBox \cup HoldsBox
      /\ l \notin LocksMsg /\ (l \in LocksBox => pc[t] \in LocksBox) /\ a.box = arg[t].box
    BY DEF SameHolds
<1>3. /\ l \in EntersMsg \cup HoldsMsg => owner[a.msg] = t /\ a.msg \in msg_alct
      /\ l \in EntersBox \cup HoldsBox => owner[a.box] = t /\ a.box \in box_alct
    BY <1>2, Owns
<1>4. \A m \in msg_alct : owner[m] = t => l \in EntersMsg \cup HoldsMsg /\ a.msg = m
    BY <1>2, Owns
<1>5. \A b \in box_alct : owner[b] = t => l \in EntersBox \cup HoldsBox /\ a.box = b
    BY <1>2, Owns
<1>6. l \in LocksBox /\ a.box \notin box_alct => owner[a.box] \notin {NULL, t}
    <2>1. pc[t] \in LocksBox /\ arg[t].box \notin box_alct => owner[arg[t].box] \notin {NULL, t}
        BY DEF Inv, FoundInv
    <2> QED BY <1>2, <2>1
<1>7. QueueInv'
    <2>1. ASSUME NEW x \in Locks, NEW u \in Threads, InQueue(waitq[x], u)
          PROVE  state'[u] = "BLOCKED" /\ owner'[x] # u /\ pc'[u] = pc[u] /\ arg'[u] = arg[u]
        <3>1. state[u] = "BLOCKED" /\ owner[x] # u
            BY <2>1 DEF Inv, QueueInv
        <3>2. u # t
            BY <3>1
        <3> QED BY <1>1, <2>1, <3>1, <3>2
    <2>2. QueueInv
        BY DEF Inv
    <2> QED BY <2>1, <2>2, QueueKept
<1>8. HoldInv'
    <2>1. ASSUME NEW u \in Threads
          PROVE  /\ pc'[u] \in HoldsMsg => owner'[arg'[u].msg] = u
                 /\ pc'[u] \in HoldsBox => owner'[arg'[u].box] = u
                 /\ pc'[u] \in EntersMsg => owner'[arg'[u].msg] = u \/ InQueue(waitq'[arg'[u].msg], u)
                 /\ pc'[u] \in EntersBox => owner'[arg'[u].box] = u \/ InQueue(waitq'[arg'[u].box], u)
        <3>1. CASE u = t
            BY <1>1, <1>3, <3>1
        <3>2. CASE u # t
            <4>1. pc'[u] = pc[u] /\ arg'[u] = arg[u]
                BY <1>1, <3>2
            <4> QED BY <4>1 DEF Inv, HoldInv
        <3> QED BY <3>1, <3>2
    <2> QED BY <2>1 DEF HoldInv
<1>9. FoundInv'
    <2>1. FoundInv
        BY DEF Inv
    <2>2. pc'[t] \in LocksMsg \cup EntersMsg \cup HoldsMsg /\ arg'[t].msg \notin msg_alct =>
              owner[arg'[t].msg] \notin {NULL, t}
        BY <1>1, <1>2, <1>3
    <2>3. pc'[t] \in LocksBox \cup EntersBox \cup HoldsBox /\ arg'[t].box \notin box_alct =>
              owner[arg'[t].box] \notin {NULL, t}
        BY <1>1, <1>3, <1>6
    <2>4. /\ \A m \in msg_alct : owner[m] = t => pc'[t] \in EntersMsg \cup HoldsMsg /\ arg'[t].msg = m
          /\ \A b \in box_alct : owner[b] = t => pc'[t] \in EntersBox \cup HoldsBox /\ arg'[t].box = b
        BY <1>1, <1>4, <1>5
    <2> QED BY <1>1, <2>1, <2>2, <2>3, <2>4, FoundSame
<1> QED BY <1>7, <1>8, <1>9

\* The types, after a step that changes messages and boxes
LEMMA WorkTypes ==
    ASSUME Types, NEW t \in Threads, NEW l, NEW a, Goes(t, l, a), ArgsFor(l, a),
           UNCHANGED <<owner, waitq, msg_alct, box_alct>>,
           msg' \in [Msgs -> [state : {"new", "blank", "UNSEND", "SENDED", "RECIEVED"}, owner : Procs \cup {NULL}]],
           box' \in [Boxes -> BoxType], \A b \in Boxes : box'[b].nmsg = Len(box'[b].msg_ls),
           irqoff' \in [Threads -> BOOLEAN]
    PROVE  Types'
<1>1. /\ pc' \in [Threads -> Labels] /\ \A u \in Threads : pc'[u] = IF u = t THEN l ELSE pc[u]
      /\ arg' \in [Threads -> ArgType] /\ \A u \in Threads : arg'[u] = IF u = t THEN a ELSE arg[u]
    BY DEF Goes
<1>2. \A b \in Boxes : /\ box'[b].state \in {"new", "RCVABLE", "RCV_BLK"} /\ box'[b].owner \in Procs \cup {NULL}
                       /\ box'[b].blk \in Threads \cup {NULL} /\ box'[b].msg_ls \in Seq(Msgs)
    BY DEF BoxType
<1>3. DataOK'
    BY <1>1, <1>2 DEF Types, DataOK
<1>4. \A u \in Threads :
        /\ pc'[u] \in LocksMsg \cup EntersMsg \cup HoldsMsg \cup {"recv_own"} => arg'[u].msg \in Msgs
        /\ pc'[u] \in LocksBox \cup EntersBox \cup HoldsBox \cup {"send_msg", "send_find"} => arg'[u].box \in Boxes
    BY <1>1 DEF Types, ArgsFor, AllMsg, AllBox
<1> QED BY <1>1, <1>3, <1>4 DEF Types, ArgType, BoxType

\* msg->owner = proc_now() of msg_recieve
LEMMA recv_ownInv ==
    ASSUME Inv, NEW t \in Threads, recv_own(t) PROVE Inv'
<1>1. /\ state[t] = "RUNNING" /\ pc[t] = "recv_own" /\ Goto(t, "recv_ret") /\ arg' = arg
      /\ msg' = [msg EXCEPT ![arg[t].msg].owner = ProcOf[t]]
      /\ UNCHANGED <<schedVars, owner, waitq, msg_alct, box_alct, box, irqoff, failed>>
    BY DEF recv_own, At, mutexesVars
<1>2. SchedInv' /\ state' = state
    BY <1>1, SchedStutterInv DEF Inv, schedVars
<1>3. /\ pc[t] \in HoldsBox /\ "recv_ret" \in HoldsBox /\ pc[t] # "newmsg_err3"
      /\ "recv_ret" \notin AllMsg \cup LocksBox \cup EntersBox \cup Waits \cup {"recv_own", "send_msg", "send_find"}
      /\ pc[t] \notin AllMsg \cup LocksBox \cup EntersBox \cup Waits
      /\ "recv_ret" \in Labels
    BY <1>1 DEF AllMsg, LocksMsg, EntersMsg, HoldsMsg, LocksBox, EntersBox, HoldsBox, Waits, Labels
<1>4. Goes(t, "recv_ret", arg[t]) /\ arg[t].box \in Boxes /\ arg[t].msg \in Msgs
    BY <1>1, <1>3, GotoGoes DEF Inv, Types
<1>5. /\ msg' \in [Msgs -> [state : {"new", "blank", "UNSEND", "SENDED", "RECIEVED"}, owner : Procs \cup {NULL}]]
      /\ \A m \in Msgs : msg'[m].state = msg[m].state
    <2>1. msg \in [Msgs -> [state : {"new", "blank", "UNSEND", "SENDED", "RECIEVED"}, owner : Procs \cup {NULL}]]
        BY DEF Inv, Types, DataOK
    <2>2. ProcOf[t] \in Procs
        OBVIOUS
    <2> QED BY <1>1, <1>4, <2>1, <2>2
<1>6. Types'
    <2>1. ArgsFor("recv_ret", arg[t])
        BY <1>3, <1>4 DEF ArgsFor
    <2>2. box' \in [Boxes -> BoxType] /\ (\A b \in Boxes : box'[b].nmsg = Len(box'[b].msg_ls)) /\ irqoff' \in [Threads -> BOOLEAN]
        BY <1>1 DEF Inv, Types, DataOK, BoxType
    <2> QED BY <1>1, <1>4, <1>5, <2>1, <2>2, WorkTypes DEF Inv
<1>7. QueueInv' /\ HoldInv' /\ FoundInv'
    <2>1. SameHolds(t, "recv_ret", arg[t])
        BY <1>3 DEF SameHolds, AllMsg
    <2>2. \A x \in Locks, u \in Threads : InQueue(waitq[x], u) => state'[u] = "BLOCKED"
        BY <1>2 DEF Inv, QueueInv
    <2> QED BY <1>1, <1>4, <1>5, <2>1, <2>2, WorkInv
<1>8. \A u \in Threads : pc'[u] = IF u = t THEN "recv_ret" ELSE pc[u]
    BY <1>4 DEF Goes
<1>9. SleepInv'
    BY <1>1, <1>2, <1>8 DEF Inv, SleepInv
<1>10. WaitInv'
    BY <1>1, <1>2, <1>3, <1>8, WaitKept
<1>11. SentInv' /\ RecieverFindsMessage'
    <2>1. SentInv /\ RecieverFindsMessage
        BY DEF Inv
    <2>2. \A u \in Threads : pc'[u] = "newmsg_err3" => pc[u] = "newmsg_err3" /\ arg[u].msg \in Msgs
        BY <1>8 DEF Inv, Types, HoldsMsg
    <2>3. \A u \in Threads : pc'[u] = "newmsg_err3" => msg'[arg[u].msg].state # "SENDED"
        BY <1>5, <2>1, <2>2 DEF SentInv
    <2> QED BY <1>1, <1>5, <2>1, <2>3 DEF SentInv, RecieverFindsMessage
<1> QED BY <1>2, <1>6, <1>7, <1>9, <1>10, <1>11 DEF Inv

\* The wait begins: the box knows its thread.
LEMMA WaitBegins ==
    ASSUME Inv, NEW t \in Threads, state[t] = "RUNNING", pc[t] = "recv",
           box[arg[t].box].state # "RCV_BLK", Wait(t, arg[t].box)
    PROVE  Inv'
<1> DEFINE b == arg[t].box
<1>1. /\ box[b].nmsg = 0 /\ box' = [box EXCEPT ![b].state = "RCV_BLK", ![b].blk = t]
      /\ irqoff' = [irqoff EXCEPT ![t] = TRUE] /\ Goto(t, "recv_release") /\ arg' = arg
      /\ UNCHANGED <<schedVars, owner, waitq, msg_alct, box_alct, msg, failed>>
    BY DEF Wait, mutexesVars
<1>2. SchedInv' /\ state' = state
    BY <1>1, SchedStutterInv DEF Inv, schedVars
<1>3. /\ pc[t] \in EntersBox /\ "recv_release" \in HoldsBox /\ "recv_release" \in Waits /\ pc[t] \notin Waits
      /\ "recv_release" \notin AllMsg \cup LocksBox \cup EntersBox \cup {"recv_own", "send_msg", "send_find"}
      /\ pc[t] \notin AllMsg \cup LocksBox \cup HoldsBox
      /\ "recv_release" \in Labels
    BY DEF AllMsg, LocksMsg, EntersMsg, HoldsMsg, LocksBox, EntersBox, HoldsBox, Waits, Labels
<1>4. Goes(t, "recv_release", arg[t]) /\ b \in Boxes
    BY <1>1, <1>3, GotoGoes, Owns
<1>5. /\ \A u \in Threads : pc'[u] = IF u = t THEN "recv_release" ELSE pc[u]
    BY <1>4 DEF Goes
<1> HIDE DEF b
<1>6. /\ box' \in [Boxes -> BoxType]
      /\ box'[b].state = "RCV_BLK" /\ box'[b].blk = t
      /\ \A d \in Boxes : /\ d # b => box'[d] = box[d]
                          /\ box'[d].msg_ls = box[d].msg_ls /\ box'[d].nmsg = box[d].nmsg
    <2> DEFINE r == [[box[b] EXCEPT !.state = "RCV_BLK"] EXCEPT !.blk = t]
    <2>1. box \in [Boxes -> BoxType]
        BY DEF Inv, Types, BoxType
    <2>a. box[b] \in BoxType
        BY <1>4, <2>1
    <2>b. r \in BoxType
        BY <2>a DEF BoxType
    <2>c. r.state = "RCV_BLK" /\ r.blk = t /\ r.msg_ls = box[b].msg_ls /\ r.nmsg = box[b].nmsg
        BY <2>a DEF BoxType
    <2>2. r \in BoxType /\ r.state = "RCV_BLK" /\ r.blk = t /\ r.msg_ls = box[b].msg_ls /\ r.nmsg = box[b].nmsg
        BY <2>b, <2>c
    <2>3. \A d \in Boxes : box'[d] = IF d = b THEN r ELSE box[d]
        BY <1>1, <1>4, <2>1
    <2>4. box' = [d \in Boxes |-> box'[d]]
        BY <1>1, <2>1
    <2> HIDE DEF r
    <2>5. box' \in [Boxes -> BoxType]
        BY <2>1, <2>2, <2>3, <2>4
    <2> QED BY <1>4, <2>2, <2>3, <2>5
<1>7. box[b].msg_ls = <<>> /\ \A d \in Boxes : box[d].nmsg = Len(box[d].msg_ls)
    <2>1. \A d \in Boxes : box[d].nmsg = Len(box[d].msg_ls) /\ box[d].msg_ls \in Seq(Msgs)
        BY DEF Inv, Types, DataOK
    <2> QED BY <1>1, <1>4, <2>1, QueueEmpty
<1>8. Types'
    <2>1. ArgsFor("recv_release", arg[t])
        BY <1>3, <1>4 DEF ArgsFor, b
    <2>2. /\ irqoff' \in [Threads -> BOOLEAN]
          /\ msg' \in [Msgs -> [state : {"new", "blank", "UNSEND", "SENDED", "RECIEVED"}, owner : Procs \cup {NULL}]]
        BY <1>1 DEF Inv, Types, DataOK
    <2>3. \A d \in Boxes : box'[d].nmsg = Len(box'[d].msg_ls)
        BY <1>6, <1>7
    <2> QED BY <1>1, <1>4, <1>6, <2>1, <2>2, <2>3, WorkTypes DEF Inv
<1>9. QueueInv' /\ HoldInv' /\ FoundInv'
    <2>1. SameHolds(t, "recv_release", arg[t])
        BY <1>3 DEF SameHolds, AllMsg
    <2>2. \A x \in Locks, u \in Threads : InQueue(waitq[x], u) => state'[u] = "BLOCKED"
        BY <1>2 DEF Inv, QueueInv
    <2>3. \A d \in Boxes : box'[d].state = "new" => box[d].state = "new"
        BY <1>6
    <2> QED BY <1>1, <1>4, <2>1, <2>2, <2>3, WorkInv
<1>10. SleepInv'
    BY <1>1, <1>2, <1>5 DEF Inv, SleepInv
<1>11. WaitInv'
    <2>1. WaitInv /\ \A u \in Threads : pc[u] \in Waits => arg[u].box \in Boxes
        BY DEF Inv, Types, Waits, LocksBox, EntersBox, HoldsBox
    <2>2. \A u \in Threads : pc[u] \in Waits => arg[u].box # b /\ box'[arg[u].box] = box[arg[u].box]
        BY <1>6, <2>1 DEF WaitInv, b
    <2>3. arg[t].box = b /\ box'[b].blk = t /\ box'[b].msg_ls = <<>>
        BY <1>4, <1>6, <1>7 DEF b
    <2>4. \A u, w \in Threads : pc'[u] \in Waits /\ pc'[w] \in Waits /\ arg'[u].box = arg'[w].box => u = w
        <3>1. ASSUME NEW u \in Threads, pc'[u] \in Waits
              PROVE  \/ u = t /\ arg'[u].box = b
                     \/ u # t /\ pc[u] \in Waits /\ arg'[u].box = arg[u].box /\ arg[u].box # b
            <4>1. CASE u = t
                BY <1>1, <1>5, <2>3, <4>1
            <4>2. CASE u # t
                BY <1>1, <1>5, <2>2, <3>1, <4>2
            <4> QED BY <4>1, <4>2
        <3> QED BY <2>1, <3>1 DEF WaitInv
    <2>5. \A d \in Boxes : box'[d].state = "RCV_BLK" /\ box'[d].blk # NULL =>
            pc'[box'[d].blk] \in Waits /\ arg'[box'[d].blk].box = d
        <3>1. pc'[box'[b].blk] \in Waits /\ arg'[box'[b].blk].box = b
            BY <1>1, <1>3, <1>5, <1>6, <2>3
        <3>2. ASSUME NEW d \in Boxes, d # b, box'[d].state = "RCV_BLK", box'[d].blk # NULL
              PROVE  pc'[box'[d].blk] \in Waits /\ arg'[box'[d].blk].box = d
            <4>1. box[d].blk \in Threads /\ box'[d] = box[d]
                BY <1>6, <3>2 DEF Inv, Types, DataOK
            <4>2. pc[box[d].blk] \in Waits /\ arg[box[d].blk].box = d
                BY <2>1, <3>2, <4>1 DEF WaitInv
            <4> QED BY <1>1, <1>3, <1>5, <4>1, <4>2
        <3> QED BY <3>1, <3>2
    <2>6. ASSUME NEW u \in Threads, u # t
          PROVE  /\ pc'[u] \in Waits => box'[arg'[u].box].state = "RCV_BLK"
                 /\ pc'[u] \in {"recv_release", "recv_block"} => Known(u, arg[u].box)'
                 /\ pc'[u] = "recv_relock" => IF state'[u] = "BLOCKED" THEN Known(u, arg[u].box)' ELSE Woken(arg[u].box)'
                 /\ pc'[u] = "recv_woken" => Woken(arg[u].box)'
        <3>1. /\ pc[u] \in Waits => box[arg[u].box].state = "RCV_BLK"
              /\ pc[u] \in {"recv_release", "recv_block"} => Known(u, arg[u].box)
              /\ pc[u] = "recv_relock" => IF state[u] = "BLOCKED" THEN Known(u, arg[u].box) ELSE Woken(arg[u].box)
              /\ pc[u] = "recv_woken" => Woken(arg[u].box)
            BY <2>1 DEF WaitInv
        <3>2. pc'[u] = pc[u] /\ arg'[u] = arg[u] /\ state'[u] = state[u]
            BY <1>1, <1>2, <1>5, <2>6
        <3>3. pc[u] \in Waits => (Known(u, arg[u].box)' <=> Known(u, arg[u].box)) /\ (Woken(arg[u].box)' <=> Woken(arg[u].box))
            BY <2>2, <3>2 DEF Known, Woken
        <3>4. pc[u] \in {"recv_release", "recv_block", "recv_relock", "recv_woken"} => pc[u] \in Waits
            BY DEF Waits
        <3> QED BY <2>2, <3>1, <3>2, <3>3, <3>4
    <2>7. box'[arg'[t].box].state = "RCV_BLK" /\ Known(t, arg[t].box)' /\ pc'[t] = "recv_release"
        BY <1>1, <1>5, <1>6, <2>3 DEF Known
    <2> QED BY <2>4, <2>5, <2>6, <2>7 DEF WaitInv
<1>12. SentInv' /\ RecieverFindsMessage'
    <2>1. SentInv /\ RecieverFindsMessage
        BY DEF Inv
    <2>2. \A u \in Threads : pc'[u] = "newmsg_err3" => pc[u] = "newmsg_err3"
        BY <1>5
    <2> QED BY <1>1, <1>6, <2>1, <2>2 DEF SentInv, RecieverFindsMessage
<1> QED BY <1>2, <1>8, <1>9, <1>10, <1>11, <1>12 DEF Inv

\* schd_block of the thread that waits
LEMMA recv_blockInv ==
    ASSUME Inv, NEW t \in Threads, recv_block(t) PROVE Inv'
<1>1. /\ state[t] = "RUNNING" /\ pc[t] = "recv_block" /\ Goto(t, "recv_relock") /\ arg' = arg
      /\ UNCHANGED <<owner, waitq, msg_alct, box_alct, msg, box, irqoff, failed, mutexesVars, dataVars>>
    BY DEF recv_block, At, mutexesVars, dataVars
<1>2. SchedInv' /\ \A u \in Threads : state'[u] = IF u = t THEN "BLOCKED" ELSE state[u]
    <2>1. PICK c \in CPUs : cur[c] = t /\ Block(c)
        BY DEF recv_block
    <2>2. SchedInv' /\ Moves(t, {"RUNNING"}, "BLOCKED")
        BY <2>1, BlockInv DEF Inv
    <2> QED BY <2>2 DEF Moves, Inv, SchedInv, SchedTypeOK
<1>3. /\ pc[t] \in LocksBox /\ "recv_relock" \in LocksBox /\ "recv_relock" \in Waits /\ pc[t] \in Waits
      /\ "recv_relock" \notin AllMsg \cup HoldsBox \cup EntersBox \cup {"recv_own", "send_msg", "send_find"}
      /\ pc[t] \notin AllMsg \cup HoldsBox \cup EntersBox
      /\ "recv_relock" \in Labels
    BY <1>1 DEF AllMsg, LocksMsg, EntersMsg, HoldsMsg, LocksBox, EntersBox, HoldsBox, Waits, Labels
<1>4. Goes(t, "recv_relock", arg[t]) /\ arg[t].box \in Boxes
    BY <1>1, <1>3, GotoGoes DEF Inv, Types
<1>5. \A u \in Threads : pc'[u] = IF u = t THEN "recv_relock" ELSE pc[u]
    BY <1>4 DEF Goes
<1>6. Types'
    <2>1. ArgsFor("recv_relock", arg[t])
        BY <1>3, <1>4 DEF ArgsFor
    <2>2. irqoff' \in [Threads -> BOOLEAN]
        BY <1>1 DEF Inv, Types, DataOK
    <2> QED BY <1>1, <1>4, <2>1, <2>2, GoesArgs DEF Inv
<1>7. QueueInv' /\ HoldInv' /\ FoundInv'
    <2>1. SameHolds(t, "recv_relock", arg[t])
        BY <1>3 DEF SameHolds, AllMsg
    <2>2. \A x \in Locks, u \in Threads : InQueue(waitq[x], u) => state'[u] = "BLOCKED"
        BY <1>2 DEF Inv, QueueInv
    <2> QED BY <1>1, <1>4, <2>1, <2>2, WorkInv
<1>8. SleepInv'
    BY <1>1, <1>2, <1>5 DEF Inv, SleepInv
<1>9. WaitInv'
    <2>1. WaitInv /\ \A d \in Boxes : box[d].blk # NULL => box[d].blk \in Threads
        BY DEF Inv, Types, DataOK
    <2>2. \A u \in Threads : pc'[u] \in Waits <=> pc[u] \in Waits
        BY <1>3, <1>5
    <2>3. /\ \A u, w \in Threads : pc'[u] \in Waits /\ pc'[w] \in Waits /\ arg'[u].box = arg'[w].box => u = w
          /\ \A d \in Boxes : box'[d].state = "RCV_BLK" /\ box'[d].blk # NULL =>
                pc'[box'[d].blk] \in Waits /\ arg'[box'[d].blk].box = d
          /\ \A u \in Threads : pc'[u] \in Waits => box'[arg'[u].box].state = "RCV_BLK"
        BY <1>1, <2>1, <2>2 DEF WaitInv
    <2>4. \A u \in Threads :
            /\ pc'[u] \in {"recv_release", "recv_block"} => Known(u, arg[u].box)
            /\ pc'[u] = "recv_relock" => IF state'[u] = "BLOCKED" THEN Known(u, arg[u].box) ELSE Woken(arg[u].box)
            /\ pc'[u] = "recv_woken" => Woken(arg[u].box)
        BY <1>1, <1>2, <1>5, <2>1 DEF WaitInv
    <2>5. \A u \in Threads : (Known(u, arg[u].box)' <=> Known(u, arg[u].box)) /\ (Woken(arg[u].box)' <=> Woken(arg[u].box))
        BY <1>1 DEF Known, Woken
    <2> QED BY <2>3, <2>4, <2>5 DEF WaitInv
<1>10. SentInv' /\ RecieverFindsMessage'
    BY <1>1, <1>5 DEF Inv, SentInv, RecieverFindsMessage
<1> QED BY <1>2, <1>6, <1>7, <1>8, <1>9, <1>10 DEF Inv

\* msg_recieve takes the first message: nobody else waits for the box.
LEMMA PopInv ==
    ASSUME Inv, NEW t \in Threads, state[t] = "RUNNING",
           \/ pc[t] = "recv" /\ box[arg[t].box].state # "RCV_BLK" /\ box[arg[t].box].nmsg > 0
           \/ pc[t] = "recv_woken",
           Take(t, arg[t].box)
    PROVE  Inv'
<1> DEFINE b == arg[t].box
           h == Head(box[b].msg_ls)
<1>1. /\ pc[t] \in EntersBox /\ "recv_own" \in HoldsBox /\ pc[t] # "newmsg_err3"
      /\ "recv_own" \notin AllMsg \cup LocksBox \cup EntersBox \cup Waits \cup {"send_msg", "send_find"}
      /\ pc[t] \notin AllMsg \cup LocksBox \cup HoldsBox
      /\ "recv_own" \in Labels
    BY DEF AllMsg, LocksMsg, EntersMsg, HoldsMsg, LocksBox, EntersBox, HoldsBox, Waits, Labels
<1>2. b \in Boxes /\ box[b] \in BoxType /\ box[b].msg_ls \in Seq(Msgs) /\ box[b].nmsg = Len(box[b].msg_ls)
    BY <1>1, Owns DEF Inv, Types, DataOK, BoxType
<1>3. \A u \in Threads : u # t /\ pc[u] \in Waits => arg[u].box # b
    <2>0. /\ \A u \in Threads : pc[u] \in Waits => box[arg[u].box].state = "RCV_BLK"
          /\ \A u, w \in Threads : pc[u] \in Waits /\ pc[w] \in Waits /\ arg[u].box = arg[w].box => u = w
        BY DEF Inv, WaitInv
    <2>1. CASE pc[t] = "recv"
        <3>1. box[arg[t].box].state # "RCV_BLK"
            BY <2>1
        <3> QED BY <2>0, <3>1
    <2>2. CASE pc[t] = "recv_woken"
        <3>1. pc[t] \in Waits
            BY <2>2 DEF Waits
        <3> QED BY <2>0, <3>1
    <2> QED BY <2>1, <2>2
<1>4. box[b].msg_ls # <<>>
    <2>1. CASE pc[t] = "recv"
        BY <1>2, <2>1, QueueEmpty
    <2>2. CASE pc[t] = "recv_woken"
        BY <2>2 DEF Inv, WaitInv, Woken
    <2> QED BY <2>1, <2>2
<1> HIDE DEF b
<1>5. /\ h \in Msgs /\ InQueue(box[b].msg_ls, h) /\ msg[h].state = "SENDED"
      /\ Tail(box[b].msg_ls) \in Seq(Msgs) /\ NoDuplicates(Tail(box[b].msg_ls))
      /\ \A y : InQueue(Tail(box[b].msg_ls), y) <=> InQueue(box[b].msg_ls, y) /\ y # h
      /\ Len(Tail(box[b].msg_ls)) = Len(box[b].msg_ls) - 1
    <2>1. NoDuplicates(box[b].msg_ls)
        BY <1>2 DEF Inv, SentInv
    <2>2. /\ Tail(box[b].msg_ls) \in Seq(Msgs) /\ NoDuplicates(Tail(box[b].msg_ls))
          /\ box[b].msg_ls[1] \in Msgs /\ h = box[b].msg_ls[1]
          /\ \A y : InQueue(Tail(box[b].msg_ls), y) <=> InQueue(box[b].msg_ls, y) /\ y # box[b].msg_ls[1]
          /\ Len(Tail(box[b].msg_ls)) = Len(box[b].msg_ls) - 1
        BY <1>2, <1>4, <2>1, QueueTail
    <2>3. InQueue(box[b].msg_ls, h)
        BY <1>2, <1>4, QueueHead
    <2>4. msg[h].state = "SENDED"
        BY <1>2, <2>2, <2>3 DEF Inv, SentInv
    <2> QED BY <2>2, <2>3, <2>4
<1>6. /\ msg' = [msg EXCEPT ![h].state = "RECIEVED"]
      /\ box' = [box EXCEPT ![b].state = "RCVABLE", ![b].msg_ls = Tail(@), ![b].nmsg = box[b].nmsg - 1]
      /\ arg' = [arg EXCEPT ![t].msg = h] /\ pc' = [pc EXCEPT ![t] = "recv_own"]
      /\ irqoff' = [irqoff EXCEPT ![t] = FALSE]
      /\ UNCHANGED <<schedVars, owner, waitq, msg_alct, box_alct, failed>>
    <2>1. Len(box[b].msg_ls) # 0
        BY <1>2, <1>4, QueueEmpty
    <2>2. Pop(t, b, box[b].nmsg - 1)
        BY <1>2, <1>5, <2>1 DEF Take, b
    <2> QED BY <2>2 DEF Pop, Goto, mutexesVars, b
<1>7. SchedInv' /\ state' = state
    BY <1>6, SchedStutterInv DEF Inv, schedVars
<1> DEFINE a == [arg[t] EXCEPT !.msg = h]
<1>8. Goes(t, "recv_own", a) /\ a.box = b /\ a.msg = h
    <2>1. pc \in [Threads -> Labels] /\ arg \in [Threads -> ArgType]
        BY DEF Inv, Types, DataOK, ArgType
    <2>2. arg[t] \in ArgType /\ arg[t].box = b
        BY <2>1 DEF b
    <2>3. a \in ArgType /\ a.box = b /\ a.msg = h
        BY <1>5, <2>2 DEF ArgType
    <2>4. arg' = [arg EXCEPT ![t] = a]
        BY <1>6, <2>1
    <2> HIDE DEF a, h
    <2>5. arg' \in [Threads -> ArgType] /\ \A u \in Threads : arg'[u] = IF u = t THEN a ELSE arg[u]
        BY <2>1, <2>3, <2>4
    <2>6. pc' \in [Threads -> Labels] /\ \A u \in Threads : pc'[u] = IF u = t THEN "recv_own" ELSE pc[u]
        BY <1>1, <1>6, <2>1
    <2> QED BY <2>3, <2>5, <2>6 DEF Goes
<1> HIDE DEF a
<1>9. \A u \in Threads : pc'[u] = (IF u = t THEN "recv_own" ELSE pc[u]) /\ arg'[u] = (IF u = t THEN a ELSE arg[u])
    BY <1>8 DEF Goes
<1> DEFINE r == [box[b] EXCEPT !.state = "RCVABLE", !.msg_ls = Tail(@), !.nmsg = box[b].nmsg - 1]
<1>10. /\ box' \in [Boxes -> BoxType]
       /\ \A d \in Boxes : d # b => box'[d] = box[d]
       /\ box'[b].state = "RCVABLE" /\ box'[b].msg_ls = Tail(box[b].msg_ls)
       /\ \A d \in Boxes : box'[d].nmsg = Len(box'[d].msg_ls)
    <2>1. box \in [Boxes -> BoxType] /\ \A d \in Boxes : box[d].nmsg = Len(box[d].msg_ls)
        BY DEF Inv, Types, DataOK, BoxType
    <2>2. box[b].nmsg - 1 \in Nat /\ box[b].nmsg - 1 = Len(Tail(box[b].msg_ls))
        BY <1>2, <1>5, QueueIs
    <2>3. r \in BoxType
        BY <1>2, <1>5, <2>2 DEF BoxType
    <2>4. r.state = "RCVABLE" /\ r.msg_ls = Tail(box[b].msg_ls) /\ r.nmsg = box[b].nmsg - 1
        BY <1>2 DEF BoxType
    <2>5. box' = [box EXCEPT ![b] = r]
        BY <1>6
    <2> HIDE DEF r
    <2>6. \A d \in Boxes : box'[d] = IF d = b THEN r ELSE box[d]
        BY <1>2, <2>1, <2>5
    <2>7. box' \in [Boxes -> BoxType]
        BY <2>1, <2>3, <2>5
    <2> QED BY <1>2, <2>1, <2>2, <2>4, <2>6, <2>7
<1>11. /\ msg' \in [Msgs -> [state : {"new", "blank", "UNSEND", "SENDED", "RECIEVED"}, owner : Procs \cup {NULL}]]
       /\ \A m \in Msgs : msg'[m].state = IF m = h THEN "RECIEVED" ELSE msg[m].state
    <2>1. msg \in [Msgs -> [state : {"new", "blank", "UNSEND", "SENDED", "RECIEVED"}, owner : Procs \cup {NULL}]]
        BY DEF Inv, Types, DataOK
    <2> QED BY <1>5, <1>6, <2>1
<1> HIDE DEF h
<1>12. Types'
    <2>1. ArgsFor("recv_own", a)
        BY <1>1, <1>2, <1>5, <1>8 DEF ArgsFor
    <2>2. irqoff' \in [Threads -> BOOLEAN]
        BY <1>6 DEF Inv, Types, DataOK
    <2> QED BY <1>6, <1>8, <1>10, <1>11, <2>1, <2>2, WorkTypes DEF Inv
<1>13. QueueInv' /\ HoldInv' /\ FoundInv'
    <2>1. SameHolds(t, "recv_own", a)
        BY <1>1, <1>8 DEF SameHolds, AllMsg, b
    <2>2. \A x \in Locks, u \in Threads : InQueue(waitq[x], u) => state'[u] = "BLOCKED"
        BY <1>7 DEF Inv, QueueInv
    <2>3. /\ \A m \in Msgs : msg'[m].state = "new" => msg[m].state = "new"
          /\ \A d \in Boxes : box'[d].state = "new" => box[d].state = "new"
        BY <1>10, <1>11
    <2> QED BY <1>6, <1>8, <2>1, <2>2, <2>3, WorkInv
<1>14. SleepInv'
    BY <1>6, <1>7, <1>9 DEF Inv, SleepInv
<1>15. WaitInv'
    <2>1. WaitInv /\ \A u \in Threads : pc[u] \in Waits => arg[u].box \in Boxes
        BY DEF Inv, Types, Waits, LocksBox, EntersBox, HoldsBox
    <2>2. ASSUME NEW u \in Threads, pc'[u] \in Waits
          PROVE  u # t /\ pc'[u] = pc[u] /\ arg'[u] = arg[u] /\ state'[u] = state[u] /\ box'[arg[u].box] = box[arg[u].box]
        BY <1>1, <1>3, <1>7, <1>9, <1>10, <2>1, <2>2
    <2>3. \A u, w \in Threads : pc'[u] \in Waits /\ pc'[w] \in Waits /\ arg'[u].box = arg'[w].box => u = w
        BY <2>1, <2>2 DEF WaitInv
    <2>4. ASSUME NEW d \in Boxes, box'[d].state = "RCV_BLK", box'[d].blk # NULL
          PROVE  pc'[box'[d].blk] \in Waits /\ arg'[box'[d].blk].box = d
        <3>1. d # b /\ box'[d] = box[d] /\ box[d].blk \in Threads
            BY <1>10, <2>4 DEF Inv, Types, DataOK
        <3>2. pc[box[d].blk] \in Waits /\ arg[box[d].blk].box = d
            BY <2>1, <2>4, <3>1 DEF WaitInv
        <3>3. arg[t].box = b
            BY DEF b
        <3> QED BY <1>9, <3>1, <3>2, <3>3
    <2>5. ASSUME NEW u \in Threads
          PROVE  /\ pc'[u] \in Waits => box'[arg'[u].box].state = "RCV_BLK"
                 /\ pc'[u] \in {"recv_release", "recv_block"} => Known(u, arg[u].box)'
                 /\ pc'[u] = "recv_relock" => IF state'[u] = "BLOCKED" THEN Known(u, arg[u].box)' ELSE Woken(arg[u].box)'
                 /\ pc'[u] = "recv_woken" => Woken(arg[u].box)'
        <3>1. /\ pc[u] \in Waits => box[arg[u].box].state = "RCV_BLK"
              /\ pc[u] \in {"recv_release", "recv_block"} => Known(u, arg[u].box)
              /\ pc[u] = "recv_relock" => IF state[u] = "BLOCKED" THEN Known(u, arg[u].box) ELSE Woken(arg[u].box)
              /\ pc[u] = "recv_woken" => Woken(arg[u].box)
            BY <2>1 DEF WaitInv
        <3>2. pc'[u] \in Waits => (Known(u, arg[u].box)' <=> Known(u, arg[u].box)) /\ (Woken(arg[u].box)' <=> Woken(arg[u].box))
            BY <2>2 DEF Known, Woken
        <3>3. pc'[u] \in {"recv_release", "recv_block", "recv_relock", "recv_woken"} => pc'[u] \in Waits
            BY DEF Waits
        <3> QED BY <2>2, <3>1, <3>2, <3>3
    <2> QED BY <2>3, <2>4, <2>5 DEF WaitInv
<1>16. SentInv' /\ RecieverFindsMessage'
    <2>1. SentInv /\ RecieverFindsMessage
        BY DEF Inv
    <2>2. \A d \in Boxes : NoDuplicates(box'[d].msg_ls)
        BY <1>5, <1>10, <2>1 DEF SentInv
    <2>3. \A d \in Boxes, m \in Msgs : InQueue(box'[d].msg_ls, m) => InQueue(box[d].msg_ls, m) /\ m # h
        <3>1. \A d \in Boxes : InQueue(box[d].msg_ls, h) => d = b
            BY <1>2, <1>5, <2>1 DEF SentInv
        <3> QED BY <1>5, <1>10, <3>1
    <2>4. \A d \in Boxes : \A m \in Msgs : InQueue(box'[d].msg_ls, m) =>
            d \in box_alct /\ m \in msg_alct /\ msg'[m].state = "SENDED"
        BY <1>11, <2>1, <2>3 DEF SentInv
    <2>5. \A d, e \in Boxes : \A m \in Msgs : InQueue(box'[d].msg_ls, m) /\ InQueue(box'[e].msg_ls, m) => d = e
        BY <2>1, <2>3 DEF SentInv
    <2>6. \A u \in Threads : pc[u] = "newmsg_err3" => arg[u].msg \in Msgs
        BY DEF Inv, Types, HoldsMsg
    <2>7. ASSUME NEW u \in Threads, pc'[u] = "newmsg_err3" PROVE msg'[arg'[u].msg].state # "SENDED"
        <3>1. pc[u] = "newmsg_err3" /\ arg'[u] = arg[u]
            BY <1>9, <2>7
        <3>2. msg[arg[u].msg].state # "SENDED" /\ arg[u].msg \in Msgs
            BY <2>1, <2>6, <3>1 DEF SentInv
        <3> QED BY <1>11, <3>1, <3>2
    <2> QED BY <1>6, <2>1, <2>2, <2>4, <2>5, <2>7 DEF SentInv, RecieverFindsMessage
<1> QED BY <1>7, <1>12, <1>13, <1>14, <1>15, <1>16 DEF Inv

\* Whom msg_send wakes up: the thread that sleeps for a message of the box.
LEMMA WakeUpStep ==
    ASSUME Inv, NEW b \in Boxes, WakeUp(b)
    PROVE  /\ SchedInv'
           /\ box[b].state = "RCV_BLK" =>
                /\ box[b].blk \in Threads /\ pc[box[b].blk] = "recv_relock" /\ arg[box[b].blk].box = b
                /\ state[box[b].blk] = "BLOCKED" /\ state'[box[b].blk] = "RUNNABEL"
           /\ \A u \in Threads : ~ (box[b].state = "RCV_BLK" /\ u = box[b].blk) => state'[u] = state[u]
<1>1. CASE box[b].state # "RCV_BLK"
    BY <1>1, SchedStutterInv DEF WakeUp, schedVars, Inv
<1>2. CASE box[b].state = "RCV_BLK"
    <2> DEFINE h == box[b].blk
    <2>1. Run(h) /\ h # NULL /\ state[h] \in {"UNSCHDED", "BLOCKED"}
        BY <1>2 DEF WakeUp, CanRun
    <2>2. h \in Threads /\ pc[h] \in Waits /\ arg[h].box = b
        BY <1>2, <2>1 DEF Inv, Types, DataOK, WaitInv
    <2> HIDE DEF h
    <2>3. SchedInv' /\ Moves(h, {"UNSCHDED", "BLOCKED"}, "RUNNABEL")
        BY <2>1, <2>2, RunInv DEF Inv
    <2>4. pc[h] # "recv_woken"
        <3>1. pc[h] = "recv_woken" => box[b].blk = NULL
            BY <2>2 DEF Inv, WaitInv, Woken
        <3> QED BY <2>1, <3>1 DEF h
    <2>5. pc[h] \notin EntersMsg \cup {"out"} /\ (pc[h] \in EntersBox => pc[h] = "recv_woken")
        BY <2>2 DEF Waits, EntersMsg, EntersBox
    <2>6. state[h] = "BLOCKED" /\ pc[h] = "recv_relock"
        BY <2>1, <2>2, <2>4, <2>5 DEF Inv, SleepInv
    <2>7. \A u \in Threads : state'[u] = IF u = h THEN "RUNNABEL" ELSE state[u]
        BY <2>3 DEF Moves, Inv, SchedInv, SchedTypeOK
    <2>8. h = box[b].blk
        BY DEF h
    <2> QED BY <1>2, <2>2, <2>3, <2>6, <2>7, <2>8
<1> QED BY <1>1, <1>2

\* msg_send queues a message that was not sent before.
LEMMA QueueMsgInv ==
    ASSUME Inv, NEW t \in Threads, state[t] = "RUNNING", pc[t] = "send",
           Accepted(t), WakeUp(arg[t].box),
           Queue(t, box[arg[t].box].state, IF box[arg[t].box].state = "RCV_BLK" THEN NULL ELSE box[arg[t].box].blk)
    PROVE  Inv'
<1> DEFINE b == arg[t].box
           m == arg[t].msg
           q == Append(box[b].msg_ls, m)
           k == IF box[b].state = "RCV_BLK" THEN NULL ELSE box[b].blk
<1>1. /\ pc[t] \in EntersBox /\ pc[t] \in HoldsMsg /\ "send_ret3" \in HoldsBox /\ "send_ret3" \in HoldsMsg
      /\ "send_ret3" \notin LocksMsg \cup EntersMsg \cup LocksBox \cup EntersBox \cup Waits \cup {"newmsg_err3"}
      /\ pc[t] \notin Waits /\ "send_ret3" \in Labels
    BY DEF LocksMsg, EntersMsg, HoldsMsg, LocksBox, EntersBox, HoldsBox, Waits, Labels
<1>2. /\ b \in Boxes /\ m \in Msgs /\ b \in box_alct /\ m \in msg_alct /\ owner[m] = t
    BY <1>1, Owns
<1>3. box[b] \in BoxType /\ box[b].msg_ls \in Seq(Msgs) /\ box[b].nmsg = Len(box[b].msg_ls)
    BY <1>2 DEF Inv, Types, DataOK, BoxType
<1>4. msg[m].state = "UNSEND"
    BY DEF Accepted
<1>5. /\ box' = [box EXCEPT ![b].msg_ls = Append(@, m), ![b].nmsg = @ + 1, ![b].state = box[b].state, ![b].blk = k]
      /\ msg' = [msg EXCEPT ![m].state = "SENDED"] /\ Goto(t, "send_ret3") /\ arg' = arg
      /\ UNCHANGED <<owner, waitq, msg_alct, box_alct, irqoff, failed>>
    BY DEF Queue, mutexesVars
<1>6. arg[t].box = b /\ arg[t].msg = m /\ Goes(t, "send_ret3", arg[t])
    BY <1>1, <1>5, GotoGoes
<1>7. /\ SchedInv'
      /\ box[b].state = "RCV_BLK" =>
            /\ box[b].blk \in Threads /\ pc[box[b].blk] = "recv_relock" /\ arg[box[b].blk].box = b
            /\ state[box[b].blk] = "BLOCKED" /\ state'[box[b].blk] = "RUNNABEL"
      /\ \A u \in Threads : ~ (box[b].state = "RCV_BLK" /\ u = box[b].blk) => state'[u] = state[u]
    BY <1>2, WakeUpStep
<1> HIDE DEF b, m
<1>8. \A d \in Boxes : ~ InQueue(box[d].msg_ls, m)
    BY <1>2, <1>4 DEF Inv, SentInv
<1>9. /\ q \in Seq(Msgs) /\ q # <<>> /\ NoDuplicates(q) /\ Len(q) = Len(box[b].msg_ls) + 1
      /\ \A y : InQueue(q, y) <=> InQueue(box[b].msg_ls, y) \/ y = m
    <2>1. NoDuplicates(box[b].msg_ls)
        BY <1>2 DEF Inv, SentInv
    <2>2. box[b].msg_ls \in Seq(Msgs) /\ m \in Msgs
        BY <1>2, <1>3
    <2>3. ~ InQueue(box[b].msg_ls, m)
        BY <1>2, <1>8
    <2>4. /\ Append(box[b].msg_ls, m) \in Seq(Msgs) /\ Append(box[b].msg_ls, m) # <<>>
          /\ Len(Append(box[b].msg_ls, m)) = Len(box[b].msg_ls) + 1
        BY <2>2, QueueAppended
    <2>5. /\ NoDuplicates(Append(box[b].msg_ls, m))
          /\ \A y : InQueue(Append(box[b].msg_ls, m), y) <=> InQueue(box[b].msg_ls, y) \/ y = m
        BY <2>1, <2>2, <2>3, QueueAppend
    <2> QED BY <2>4, <2>5
<1> DEFINE r == [box[b] EXCEPT !.msg_ls = Append(@, m), !.nmsg = @ + 1, !.state = box[b].state, !.blk = k]
<1>10. /\ box' \in [Boxes -> BoxType]
       /\ \A d \in Boxes : d # b => box'[d] = box[d]
       /\ box'[b].state = box[b].state /\ box'[b].msg_ls = q /\ box'[b].blk = k
       /\ \A d \in Boxes : box'[d].nmsg = Len(box'[d].msg_ls)
    <2>1. box \in [Boxes -> BoxType] /\ \A d \in Boxes : box[d].nmsg = Len(box[d].msg_ls)
        BY DEF Inv, Types, DataOK, BoxType
    <2>2. box[b].nmsg + 1 \in Nat /\ box[b].nmsg + 1 = Len(q)
        BY <1>3, <1>9, QueueIs
    <2>3. k \in Threads \cup {NULL}
        BY <1>3 DEF BoxType
    <2> HIDE DEF k
    <2>4. r \in BoxType
        BY <1>3, <1>9, <2>2, <2>3 DEF BoxType
    <2>5. r.state = box[b].state /\ r.msg_ls = q /\ r.nmsg = box[b].nmsg + 1 /\ r.blk = k
        BY <1>3 DEF BoxType
    <2>6. box' = [box EXCEPT ![b] = r]
        BY <1>2, <1>5, <2>1
    <2> HIDE DEF r, q
    <2>7. \A d \in Boxes : box'[d] = IF d = b THEN r ELSE box[d]
        BY <1>2, <2>1, <2>6
    <2>8. box' \in [Boxes -> BoxType]
        BY <2>1, <2>4, <2>6
    <2> QED BY <1>2, <2>1, <2>2, <2>5, <2>7, <2>8
<1>11. /\ msg' \in [Msgs -> [state : {"new", "blank", "UNSEND", "SENDED", "RECIEVED"}, owner : Procs \cup {NULL}]]
       /\ \A n \in Msgs : msg'[n].state = IF n = m THEN "SENDED" ELSE msg[n].state
    <2>1. msg \in [Msgs -> [state : {"new", "blank", "UNSEND", "SENDED", "RECIEVED"}, owner : Procs \cup {NULL}]]
        BY DEF Inv, Types, DataOK
    <2> QED BY <1>2, <1>5, <2>1
<1>12. \A u \in Threads : pc'[u] = IF u = t THEN "send_ret3" ELSE pc[u]
    BY <1>6 DEF Goes
<1> HIDE DEF q
<1>13. Types'
    <2>1. ArgsFor("send_ret3", arg[t])
        BY <1>2, <1>6 DEF ArgsFor
    <2>2. irqoff' \in [Threads -> BOOLEAN]
        BY <1>5 DEF Inv, Types, DataOK
    <2> QED BY <1>5, <1>6, <1>10, <1>11, <2>1, <2>2, WorkTypes DEF Inv
<1>14. QueueInv' /\ HoldInv' /\ FoundInv'
    <2>1. SameHolds(t, "send_ret3", arg[t])
        BY <1>1 DEF SameHolds
    <2>2. ASSUME NEW x \in Locks, NEW u \in Threads, InQueue(waitq[x], u) PROVE state'[u] = "BLOCKED"
        <3>1. state[u] = "BLOCKED" /\ pc[u] # "recv_relock"
            BY <2>2 DEF Inv, QueueInv, EntersMsg, EntersBox
        <3> QED BY <1>7, <3>1
    <2>3. /\ \A n \in Msgs : msg'[n].state = "new" => msg[n].state = "new"
          /\ \A d \in Boxes : box'[d].state = "new" => box[d].state = "new"
        BY <1>10, <1>11
    <2> QED BY <1>5, <1>6, <2>1, <2>2, <2>3, WorkInv
<1>15. \A u \in Threads : u # t => pc'[u] = pc[u]
    BY <1>12
<1>16. SleepInv'
    <2>1. state'[t] = "RUNNING"
        BY <1>7
    <2>2. \A u \in Threads : state'[u] \in {"BLOCKED", "UNSCHDED"} => state[u] = state'[u] /\ u # t
        BY <1>7, <2>1
    <2> QED BY <1>5, <1>15, <2>2 DEF Inv, SleepInv
<1>17. WaitInv'
    <2>1. WaitInv /\ \A u \in Threads : pc[u] \in Waits => arg[u].box \in Boxes
        BY DEF Inv, Types, Waits, LocksBox, EntersBox, HoldsBox
    <2>2. \A u \in Threads : (pc'[u] \in Waits <=> pc[u] \in Waits) /\ (pc'[u] \in Waits => pc'[u] = pc[u])
        BY <1>1, <1>12
    <2>3. \A u, w \in Threads : pc'[u] \in Waits /\ pc'[w] \in Waits /\ arg'[u].box = arg'[w].box => u = w
        BY <1>5, <2>1, <2>2 DEF WaitInv
    <2>4. ASSUME NEW d \in Boxes, box'[d].state = "RCV_BLK", box'[d].blk # NULL
          PROVE  pc'[box'[d].blk] \in Waits /\ arg'[box'[d].blk].box = d
        <3>1. d # b /\ box'[d] = box[d] /\ box[d].blk \in Threads
            BY <1>10, <2>4 DEF Inv, Types, DataOK
        <3>2. pc[box[d].blk] \in Waits /\ arg[box[d].blk].box = d
            BY <2>1, <2>4, <3>1 DEF WaitInv
        <3> QED BY <1>5, <2>2, <3>1, <3>2
    <2>5. ASSUME NEW u \in Threads, pc[u] \in Waits
          PROVE  /\ box'[arg[u].box].state = "RCV_BLK"
                 /\ pc[u] \in {"recv_release", "recv_block"} => Known(u, arg[u].box)'
                 /\ pc[u] = "recv_relock" => IF state'[u] = "BLOCKED" THEN Known(u, arg[u].box)' ELSE Woken(arg[u].box)'
                 /\ pc[u] = "recv_woken" => Woken(arg[u].box)'
        <3>1. /\ box[arg[u].box].state = "RCV_BLK"
              /\ pc[u] \in {"recv_release", "recv_block"} => Known(u, arg[u].box)
              /\ pc[u] = "recv_relock" => IF state[u] = "BLOCKED" THEN Known(u, arg[u].box) ELSE Woken(arg[u].box)
              /\ pc[u] = "recv_woken" => Woken(arg[u].box)
            BY <2>1, <2>5 DEF WaitInv
        <3>2. CASE arg[u].box # b
            <4>1. state'[u] = state[u] /\ box'[arg[u].box] = box[arg[u].box]
                BY <1>7, <1>10, <2>1, <2>5, <3>2
            <4>2. (Known(u, arg[u].box)' <=> Known(u, arg[u].box)) /\ (Woken(arg[u].box)' <=> Woken(arg[u].box))
                BY <1>5, <4>1 DEF Known, Woken
            <4> QED BY <3>1, <4>1, <4>2
        <3>3. CASE arg[u].box = b
            <4>1. u = box[b].blk
                <5>1. box[b].blk \in Threads /\ pc[box[b].blk] = "recv_relock" /\ arg[box[b].blk].box = b
                    BY <1>7, <3>1, <3>3
                <5>2. pc[box[b].blk] \in Waits
                    BY <5>1 DEF Waits
                <5> QED BY <2>1, <2>5, <3>3, <5>1, <5>2 DEF WaitInv
            <4>2. pc[u] = "recv_relock" /\ state'[u] = "RUNNABEL" /\ box[b].state = "RCV_BLK"
                BY <1>7, <3>1, <3>3, <4>1
            <4>3. box'[b].blk = NULL /\ box'[b].msg_ls # <<>>
                BY <1>9, <1>10, <4>2
            <4>4. Woken(arg[u].box)' /\ box'[arg[u].box].state = "RCV_BLK"
                BY <1>5, <1>10, <3>3, <4>2, <4>3 DEF Woken
            <4> QED BY <4>2, <4>4
        <3> QED BY <3>2, <3>3
    <2>6. \A u \in Threads : pc'[u] \in {"recv_release", "recv_block", "recv_relock", "recv_woken"} => pc'[u] \in Waits
        BY DEF Waits
    <2>7. ASSUME NEW u \in Threads
          PROVE  /\ pc'[u] \in Waits => box'[arg'[u].box].state = "RCV_BLK"
                 /\ pc'[u] \in {"recv_release", "recv_block"} => Known(u, arg[u].box)'
                 /\ pc'[u] = "recv_relock" => IF state'[u] = "BLOCKED" THEN Known(u, arg[u].box)' ELSE Woken(arg[u].box)'
                 /\ pc'[u] = "recv_woken" => Woken(arg[u].box)'
        <3>1. CASE pc'[u] \notin Waits
            BY <2>6, <3>1
        <3>2. CASE pc'[u] \in Waits
            <4>1. pc[u] \in Waits /\ pc'[u] = pc[u] /\ arg'[u] = arg[u]
                BY <1>5, <2>2, <3>2
            <4> QED BY <2>5, <4>1
        <3> QED BY <3>1, <3>2
    <2> QED BY <2>3, <2>4, <2>7 DEF WaitInv
<1>18. SentInv' /\ RecieverFindsMessage'
    <2>1. SentInv /\ RecieverFindsMessage
        BY DEF Inv
    <2>2. \A d \in Boxes : NoDuplicates(box'[d].msg_ls)
        BY <1>9, <1>10, <2>1 DEF SentInv
    <2>3. \A d \in Boxes, n \in Msgs : InQueue(box'[d].msg_ls, n) <=> InQueue(box[d].msg_ls, n) \/ (d = b /\ n = m)
        BY <1>9, <1>10
    <2>4. \A d \in Boxes : \A n \in Msgs : InQueue(box'[d].msg_ls, n) =>
            d \in box_alct /\ n \in msg_alct /\ msg'[n].state = "SENDED"
        <3>1. ASSUME NEW d \in Boxes, NEW n \in Msgs, InQueue(box[d].msg_ls, n)
              PROVE  d \in box_alct /\ n \in msg_alct /\ msg[n].state = "SENDED"
            BY <2>1, <3>1 DEF SentInv
        <3>2. \A n \in Msgs : n = m \/ msg[n].state = "SENDED" => msg'[n].state = "SENDED"
            BY <1>11
        <3> QED BY <1>2, <2>3, <3>1, <3>2
    <2>5. \A d, e \in Boxes : \A n \in Msgs : InQueue(box'[d].msg_ls, n) /\ InQueue(box'[e].msg_ls, n) => d = e
        <3>1. \A d, e \in Boxes : \A n \in Msgs : InQueue(box[d].msg_ls, n) /\ InQueue(box[e].msg_ls, n) => d = e
            BY <2>1 DEF SentInv
        <3>2. ASSUME NEW d \in Boxes, NEW n \in Msgs, InQueue(box'[d].msg_ls, n)
              PROVE  (InQueue(box[d].msg_ls, n) /\ n # m) \/ (d = b /\ n = m)
            BY <1>8, <2>3, <3>2
        <3> QED BY <3>1, <3>2
    <2>6. ASSUME NEW u \in Threads, pc'[u] = "newmsg_err3" PROVE msg'[arg'[u].msg].state # "SENDED"
        <3>1. u # t /\ pc[u] = "newmsg_err3" /\ arg'[u] = arg[u] /\ pc[u] \in HoldsMsg
            BY <1>5, <1>12, <2>6 DEF HoldsMsg
        <3>2. msg[arg[u].msg].state # "SENDED" /\ arg[u].msg \in Msgs /\ owner[arg[u].msg] = u
            BY <3>1 DEF Inv, SentInv, Types, HoldInv
        <3> QED BY <1>2, <1>11, <3>1, <3>2
    <2> QED BY <1>5, <2>1, <2>2, <2>4, <2>5, <2>6 DEF SentInv, RecieverFindsMessage
<1> QED BY <1>7, <1>13, <1>14, <1>16, <1>17, <1>18 DEF Inv

-----------------------------------------------------------------------------
(***************************************************************************)
(* The theorems                                                            *)
(***************************************************************************)

LEMMA CallInv ==
    ASSUME Inv, NEW t \in Threads, Call(t) PROVE Inv'
<1>1. CASE msg_newmsg(t)
    BY <1>1, msg_newmsgInv
<1>2. CASE msg_newbox(t)
    BY <1>2, msg_newboxInv
<1>3. CASE msg_send(t)
    <2>1. PICK m \in msg_alct, b \in Boxes : Enter(t, "send_msg", m, b, FALSE)
        BY <1>3 DEF msg_send
    <2> QED BY <2>1, EnterInv
<1>4. CASE msg_recieve(t)
    <2>1. PICK b \in Boxes, block \in BOOLEAN :
            \/ b \in box_alct /\ Enter(t, "recv_box", NULL, b, block)
            \/ Fail("unlock")
        BY <1>4 DEF msg_recieve
    <2>2. CASE b \in box_alct /\ Enter(t, "recv_box", NULL, b, block)
        BY <2>2, EnterInv
    <2>3. CASE Fail("unlock")
        BY <2>3, FailInv
    <2> QED BY <2>1, <2>2, <2>3
<1>5. CASE msg_read(t)
    <2>1. PICK m \in msg_alct : Enter(t, "read", m, NULL, FALSE)
        BY <1>5 DEF msg_read
    <2> QED BY <2>1, EnterInv
<1>6. CASE msg_delmsg(t)
    <2>1. PICK m \in msg_alct : Enter(t, "delmsg_lock", m, NULL, FALSE)
        BY <1>6 DEF msg_delmsg
    <2> QED BY <2>1, EnterInv
<1>7. CASE msg_delbox(t)
    <2>1. PICK b \in box_alct : Enter(t, "delbox_lock", NULL, b, FALSE)
        BY <1>7 DEF msg_delbox
    <2> QED BY <2>1, EnterInv
<1> QED BY <1>1, <1>2, <1>3, <1>4, <1>5, <1>6, <1>7 DEF Call

LEMMA sendInv ==
    ASSUME Inv, NEW t \in Threads, send(t) PROVE Inv'
<1>1. state[t] = "RUNNING" /\ pc[t] = "send"
    BY DEF send, At
<1>2. \/ Goto(t, "send_ret3") /\ UNCHANGED <<schedVars, mutexesVars, dataVars, arg, irqoff, failed>>
      \/ Fail("schd_run")
      \/ /\ Accepted(t) /\ WakeUp(arg[t].box)
         /\ Queue(t, box[arg[t].box].state,
                  IF box[arg[t].box].state = "RCV_BLK" THEN NULL ELSE box[arg[t].box].blk)
    BY DEF send
<1>3. CASE Goto(t, "send_ret3") /\ UNCHANGED <<schedVars, mutexesVars, dataVars, arg, irqoff, failed>>
    BY <1>1, <1>3, GoOnInv
<1>4. CASE Fail("schd_run")
    BY <1>4, FailInv
<1>5. CASE /\ Accepted(t) /\ WakeUp(arg[t].box)
           /\ Queue(t, box[arg[t].box].state,
                    IF box[arg[t].box].state = "RCV_BLK" THEN NULL ELSE box[arg[t].box].blk)
    BY <1>1, <1>5, QueueMsgInv
<1> QED BY <1>2, <1>3, <1>4, <1>5

LEMMA recvInv ==
    ASSUME Inv, NEW t \in Threads, recv(t) PROVE Inv'
<1>1. state[t] = "RUNNING" /\ pc[t] = "recv"
    BY DEF recv, At
<1>2. \/ Goto(t, "recv_ret") /\ UNCHANGED <<schedVars, mutexesVars, dataVars, arg, irqoff, failed>>
      \/ box[arg[t].box].state # "RCV_BLK" /\ Wait(t, arg[t].box)
      \/ box[arg[t].box].state # "RCV_BLK" /\ box[arg[t].box].nmsg > 0 /\ Take(t, arg[t].box)
    BY DEF recv
<1>3. CASE Goto(t, "recv_ret") /\ UNCHANGED <<schedVars, mutexesVars, dataVars, arg, irqoff, failed>>
    BY <1>1, <1>3, GoOnInv
<1>4. CASE box[arg[t].box].state # "RCV_BLK" /\ Wait(t, arg[t].box)
    BY <1>1, <1>4, WaitBegins
<1>5. CASE box[arg[t].box].state # "RCV_BLK" /\ box[arg[t].box].nmsg > 0 /\ Take(t, arg[t].box)
    BY <1>1, <1>5, PopInv
<1> QED BY <1>2, <1>3, <1>4, <1>5

LEMMA StepInv == Inv /\ [Next]_vars => Inv'
<1> SUFFICES ASSUME Inv, [Next]_vars PROVE Inv'
    OBVIOUS
<1>1. ASSUME NEW t \in Threads, Step(t) PROVE Inv'
    <2>1. CASE send_lock_msg(t) \/ read_lock_msg(t) \/ delmsg_lock(t)
        <3>1. PICK l \in EntersMsg : state[t] = "RUNNING" /\ pc[t] \in LocksMsg /\ (l = "send_find" => pc[t] = "send_msg")
                                     /\ Lock(t, arg[t].msg, l)
            BY <2>1 DEF send_lock_msg, read_lock_msg, delmsg_lock, At, EntersMsg, LocksMsg
        <3> QED BY <3>1, LockMsgInv
    <2>2. CASE send_lock_box(t) \/ recv_lock_box(t) \/ recv_relock(t) \/ delbox_lock(t)
        BY <2>2, LockBoxInv DEF send_lock_box, recv_lock_box, recv_relock, delbox_lock, At
    <2>3. CASE send_unlock_box(t) \/ recv_release(t)
        BY <2>3, UnlockBoxInv DEF send_unlock_box, recv_release, At
    <2>4. CASE send_unlock_msg(t) \/ recv_unlock_box(t) \/ read_unlock_msg(t)
        BY <2>4, UnlockOutInv DEF send_unlock_msg, recv_unlock_box, read_unlock_msg, At
    <2>5. CASE send_find_box(t)
        <3>1. /\ state[t] = "RUNNING" /\ pc[t] = "send_find"
              /\ UNCHANGED <<schedVars, mutexesVars, dataVars, arg, irqoff, failed>>
              /\ \/ arg[t].box \in box_alct /\ Goto(t, "send_box")
                 \/ Goto(t, "send_ret2")
            BY <2>5 DEF send_find_box, At
        <3> QED BY <3>1, GoOnInv
    <2>6. CASE recv_woken(t)
        BY <2>6, PopInv DEF recv_woken, At
    <2> QED BY <1>1, <2>1, <2>2, <2>3, <2>4, <2>5, <2>6, newmsg_err3Inv, sendInv, recvInv, recv_blockInv,
               recv_ownInv, delmsgInv, delboxInv, spin_lockInv DEF Step
<1>2. CASE UNCHANGED vars
    <2>1. /\ UNCHANGED <<mutexesVars, dataVars, pc, arg, irqoff>> /\ failed' = failed
          /\ UNCHANGED schedVars
        BY <1>2 DEF vars, msgVars
    <2>2. SchedInv' /\ state' = state
        BY <2>1, SchedStutterInv DEF Inv, schedVars
    <2>3. failed' \notin {"nmsg", "state"}
        BY <2>1 DEF Inv, RecieverFindsMessage
    <2> QED BY <2>1, <2>2, <2>3, SameData
<1> QED BY <1>1, <1>2, CallInv, SwitchInv DEF Next

\* The inductive invariant: mutexes, messages, boxes and the states of the
\* threads agree between any two steps of msg.c.
THEOREM MsgInvariance == Spec => []Inv
BY InitInv, StepInv, PTL DEF Spec

\* No wake-up is lost: whoever sleeps in msg_recieve sleeps on an empty box that
\* knows the thread, for any number of CPUs, threads, messages and boxes.
THEOREM MsgSleeperWakeable == Spec => []SleeperWakeable
<1>1. Inv => SleeperWakeable
    <2> SUFFICES ASSUME Inv, NEW t \in Threads, pc[t] = "recv_relock", state[t] = "BLOCKED"
                 PROVE  /\ box[arg[t].box].state = "RCV_BLK" /\ box[arg[t].box].blk = t
                        /\ box[arg[t].box].msg_ls = <<>>
        BY DEF SleeperWakeable, Asleep
    <2> QED BY DEF Inv, WaitInv, Waits, Known
<1> QED BY <1>1, MsgInvariance, PTL

SpinOK == spin \in [Locks -> Threads \cup {NULL}]

\* The spinlock of a mutex is a thread's or nobody's.
LEMMA SpinInvariance == Spec => []SpinOK
<1>1. Init => SpinOK
    BY DEF Init, MsgInit, SpinOK
<1>2. SpinOK /\ [Next]_vars => SpinOK'
    <2> SUFFICES ASSUME SpinOK, [Next]_vars PROVE SpinOK'
        OBVIOUS
    <2>f. ASSUME NEW what, Fail(what) PROVE spin' = spin
        BY <2>f DEF Fail
    <2>1. ASSUME NEW t \in Threads, Call(t) PROVE spin' = spin
        BY <2>1, <2>f DEF Call, msg_newmsg, msg_newbox, msg_send, msg_recieve, msg_read, msg_delmsg, msg_delbox,
                          Enter
    <2>2. ASSUME NEW t \in Threads, NEW x, NEW l, Lock(t, x, l) \/ Unlock(t, x, l) PROVE SpinOK'
        BY <2>2 DEF SpinOK, Lock, Unlock
    <2>3. ASSUME NEW t \in Threads, send(t) \/ recv(t) \/ recv_woken(t) PROVE spin' = spin
        BY <2>3, <2>f DEF send, Queue, recv, Wait, recv_woken, Take, Pop
    <2>4. ASSUME NEW t \in Threads, spin_lock(t) PROVE SpinOK'
        BY <2>4 DEF SpinOK, spin_lock
    <2>5. ASSUME NEW t \in Threads, Step(t) PROVE SpinOK'
        <3>1. CASE \/ newmsg_err3(t) \/ send_find_box(t) \/ recv_block(t) \/ recv_own(t) \/ delmsg(t) \/ delbox(t)
            <4>1. spin' = spin
                BY <3>1 DEF newmsg_err3, send_find_box, recv_block, recv_own, delmsg, delbox
            <4> QED BY <4>1 DEF SpinOK
        <3>2. CASE \/ send_lock_msg(t) \/ send_lock_box(t) \/ recv_lock_box(t) \/ recv_relock(t)
                   \/ read_lock_msg(t) \/ delmsg_lock(t) \/ delbox_lock(t)
            BY <2>2, <3>2 DEF send_lock_msg, send_lock_box, recv_lock_box, recv_relock, read_lock_msg,
                              delmsg_lock, delbox_lock
        <3>3. CASE \/ send_unlock_box(t) \/ send_unlock_msg(t) \/ recv_release(t) \/ recv_unlock_box(t)
                   \/ read_unlock_msg(t)
            BY <2>2, <3>3 DEF send_unlock_box, send_unlock_msg, recv_release, recv_unlock_box, read_unlock_msg
        <3>4. CASE send(t) \/ recv(t) \/ recv_woken(t)
            BY <2>3, <3>4 DEF SpinOK
        <3> QED BY <2>4, <2>5, <3>1, <3>2, <3>3, <3>4 DEF Step
    <2>6. ASSUME NEW c \in CPUs, Switch(c) PROVE spin' = spin
        BY <2>6 DEF Switch, msgVars
    <2>7. CASE UNCHANGED vars
        BY <2>7 DEF SpinOK, vars, msgVars
    <2> QED BY <2>1, <2>5, <2>6, <2>7 DEF Next, SpinOK
<1> QED BY <1>1, <1>2, PTL DEF Spec

\* A message that was sent is there until it is taken, in a box that is there:
\* no deletion of msg.c comes between, nmsg counts the list, and the assertions
\* of msg_recieve hold.
THEOREM MsgSentIsThere == Spec => []SentIsThere
<1>1. Inv /\ SpinOK => SentIsThere
    <2> SUFFICES ASSUME Inv, SpinOK, NEW b \in Boxes, NEW i \in DOMAIN box[b].msg_ls
                 PROVE  b \in box_alct /\ box[b].msg_ls[i] \in msg_alct
        BY DEF SentIsThere, TypeOK, SpinOK, QueuedIsListed, Inv, Types
    <2>1. box[b].msg_ls \in Seq(Msgs)
        BY DEF Inv, Types, DataOK
    <2>2. box[b].msg_ls[i] \in Msgs /\ InQueue(box[b].msg_ls, box[b].msg_ls[i])
        BY <2>1 DEF InQueue
    <2> QED BY <2>2 DEF Inv, SentInv
<1> QED BY <1>1, MsgInvariance, SpinInvariance, PTL

LEMMA MailInit == Init => Mail!Init
<1> SUFFICES ASSUME Init PROVE Mail!Init
    OBVIOUS
<1>1. /\ \A m \in Msgs : msg[m].state = "new"
      /\ \A b \in Boxes : box[b].msg_ls = <<>>
    BY DEF Init, MsgInit, NoMsg, NoBox
<1> QED BY <1>1 DEF Mail!Init, inbox, stage

\* The mailbox does not see a step that neither sends nor takes a message.
LEMMA MailStutter ==
    ASSUME \A b \in Boxes : box'[b].msg_ls = box[b].msg_ls,
           \A m \in Msgs : /\ msg'[m].state = "SENDED" <=> msg[m].state = "SENDED"
                           /\ msg'[m].state = "RECIEVED" <=> msg[m].state = "RECIEVED"
    PROVE  UNCHANGED Mail!vars
<1>1. inbox' = inbox
    BY DEF inbox
<1>2. stage' = stage
    BY DEF stage
<1> QED BY <1>1, <1>2 DEF Mail!vars

LEMMA MailSend ==
    ASSUME Inv, NEW t \in Threads, state[t] = "RUNNING", pc[t] = "send", Accepted(t),
           NEW new, NEW blk, Queue(t, new, blk)
    PROVE  Mail!Next
<1> DEFINE b == arg[t].box
           m == arg[t].msg
<1>1. b \in Boxes /\ m \in Msgs /\ msg[m].state = "UNSEND"
    BY Owns DEF Accepted, EntersBox, HoldsMsg
<1>2. box \in [Boxes -> BoxType] /\ msg \in [Msgs -> [state : {"new", "blank", "UNSEND", "SENDED", "RECIEVED"}, owner : Procs \cup {NULL}]]
    BY DEF Inv, Types, DataOK, BoxType
<1>3. /\ box' = [box EXCEPT ![b].msg_ls = Append(@, m), ![b].nmsg = @ + 1, ![b].state = new, ![b].blk = blk]
      /\ msg' = [msg EXCEPT ![m].state = "SENDED"]
    BY DEF Queue
<1> HIDE DEF b, m
<1>4. \A d \in Boxes : box'[d].msg_ls = IF d = b THEN Append(box[d].msg_ls, m) ELSE box[d].msg_ls
    <2> DEFINE r == [box[b] EXCEPT !.msg_ls = Append(@, m), !.nmsg = @ + 1, !.state = new, !.blk = blk]
    <2>1. box[b] \in BoxType
        BY <1>1, <1>2
    <2>2. r.msg_ls = Append(box[b].msg_ls, m)
        BY <2>1 DEF BoxType
    <2>3. box' = [box EXCEPT ![b] = r]
        BY <1>1, <1>2, <1>3
    <2> HIDE DEF r
    <2> QED BY <1>1, <1>2, <2>2, <2>3
<1>5. \A n \in Msgs : msg'[n].state = IF n = m THEN "SENDED" ELSE msg[n].state
    BY <1>1, <1>2, <1>3
<1>6. stage[m] = "held"
    BY <1>1 DEF stage
<1>7. stage' = [stage EXCEPT ![m] = "queued"]
    BY <1>1, <1>5 DEF stage
<1>8. inbox' = [inbox EXCEPT ![b] = Append(@, m)]
    BY <1>1, <1>4 DEF inbox
<1>9. Mail!Send(m, b)
    BY <1>6, <1>7, <1>8 DEF Mail!Send
<1> QED BY <1>1, <1>9 DEF Mail!Next

LEMMA MailTake ==
    ASSUME Inv, NEW b \in Boxes, NEW t \in Threads, box[b].nmsg > 0, NEW n, Pop(t, b, n)
    PROVE  Mail!Next
<1> DEFINE h == Head(box[b].msg_ls)
<1>1. box \in [Boxes -> BoxType] /\ msg \in [Msgs -> [state : {"new", "blank", "UNSEND", "SENDED", "RECIEVED"}, owner : Procs \cup {NULL}]]
    BY DEF Inv, Types, DataOK, BoxType
<1>2. box[b].msg_ls \in Seq(Msgs) /\ box[b].nmsg = Len(box[b].msg_ls) /\ NoDuplicates(box[b].msg_ls)
    BY DEF Inv, Types, DataOK, SentInv
<1>3. box[b].msg_ls # <<>>
    BY <1>2, QueueEmpty
<1>4. h \in Msgs
    BY <1>2, <1>3, QueueTail
<1>5. /\ box' = [box EXCEPT ![b].state = "RCVABLE", ![b].msg_ls = Tail(@), ![b].nmsg = n]
      /\ msg' = [msg EXCEPT ![h].state = "RECIEVED"]
    BY DEF Pop
<1>6. inbox[b] = box[b].msg_ls /\ Head(inbox[b]) = h
    BY DEF inbox
<1> HIDE DEF h
<1>7. \A d \in Boxes : box'[d].msg_ls = IF d = b THEN Tail(box[d].msg_ls) ELSE box[d].msg_ls
    <2> DEFINE r == [box[b] EXCEPT !.state = "RCVABLE", !.msg_ls = Tail(@), !.nmsg = n]
    <2>1. box[b] \in BoxType
        BY <1>1
    <2>2. r.msg_ls = Tail(box[b].msg_ls)
        BY <2>1 DEF BoxType
    <2>3. box' = [box EXCEPT ![b] = r]
        BY <1>1, <1>5
    <2> HIDE DEF r
    <2> QED BY <1>1, <2>2, <2>3
<1>8. \A m \in Msgs : msg'[m].state = IF m = h THEN "RECIEVED" ELSE msg[m].state
    BY <1>1, <1>4, <1>5
<1>9. stage' = [stage EXCEPT ![h] = "taken"]
    BY <1>4, <1>8 DEF stage
<1>10. inbox' = [inbox EXCEPT ![b] = Tail(@)]
    BY <1>7 DEF inbox
<1>11. Mail!Take(b)
    BY <1>3, <1>6, <1>9, <1>10 DEF Mail!Take
<1> QED BY <1>11 DEF Mail!Next

LEMMA MailStep == Inv /\ [Next]_vars => [Mail!Next]_(Mail!vars)
<1> SUFFICES ASSUME Inv, [Next]_vars PROVE Mail!Next \/ UNCHANGED Mail!vars
    OBVIOUS
<1>s. ASSUME UNCHANGED <<msg, box>> PROVE UNCHANGED Mail!vars
    BY <1>s, MailStutter
<1>f. ASSUME NEW what, Fail(what) PROVE UNCHANGED Mail!vars
    BY <1>f, <1>s DEF Fail, dataVars
<1>1. ASSUME NEW t \in Threads, msg_newmsg(t) PROVE UNCHANGED Mail!vars
    <2>1. PICK m \in Msgs :
            /\ msg[m].state = "new" /\ box' = box
            /\ \/ msg' = [msg EXCEPT ![m] = [state |-> "UNSEND", owner |-> ProcOf[t]]]
               \/ msg' = [msg EXCEPT ![m].state = "blank"]
        BY <1>1 DEF msg_newmsg
    <2>2. msg \in [Msgs -> [state : {"new", "blank", "UNSEND", "SENDED", "RECIEVED"}, owner : Procs \cup {NULL}]]
        BY DEF Inv, Types, DataOK
    <2>3. msg'[m].state \in {"UNSEND", "blank"} /\ \A n \in Msgs : n # m => msg'[n] = msg[n]
        BY <2>1, <2>2
    <2> QED BY <2>1, <2>3, MailStutter
<1>2. ASSUME NEW t \in Threads, msg_newbox(t) PROVE UNCHANGED Mail!vars
    <2>1. PICK b \in Boxes : msg' = msg /\ box' = [box EXCEPT ![b].state = "RCVABLE", ![b].owner = ProcOf[t]]
        BY <1>2 DEF msg_newbox
    <2>2. box \in [Boxes -> BoxType]
        BY DEF Inv, Types, BoxType
    <2>3. \A d \in Boxes : box'[d].msg_ls = box[d].msg_ls
        <3> DEFINE r == [box[b] EXCEPT !.state = "RCVABLE", !.owner = ProcOf[t]]
        <3>1. box[b] \in BoxType
            BY <2>2
        <3>2. r.msg_ls = box[b].msg_ls
            BY <3>1 DEF BoxType
        <3>3. box' = [box EXCEPT ![b] = r]
            BY <2>1, <2>2
        <3> HIDE DEF r
        <3> QED BY <2>2, <3>2, <3>3
    <2> QED BY <2>1, <2>3, MailStutter
<1>3. ASSUME NEW t \in Threads, Call(t), ~ msg_newmsg(t), ~ msg_newbox(t) PROVE UNCHANGED Mail!vars
    BY <1>3, <1>s, <1>f DEF Call, msg_send, msg_recieve, msg_read, msg_delmsg, msg_delbox, Enter, dataVars
<1>4. ASSUME NEW t \in Threads, NEW b \in Boxes, Take(t, b) PROVE Mail!Next \/ UNCHANGED Mail!vars
    BY <1>4, <1>f, MailTake DEF Take
<1>5. ASSUME NEW t \in Threads, send(t) PROVE Mail!Next \/ UNCHANGED Mail!vars
    <2>1. state[t] = "RUNNING" /\ pc[t] = "send"
        BY <1>5 DEF send, At
    <2>2. \/ UNCHANGED dataVars
          \/ Fail("schd_run")
          \/ Accepted(t) /\ \E new, blk : Queue(t, new, blk)
        BY <1>5 DEF send
    <2>3. CASE UNCHANGED dataVars
        BY <2>3, <1>s DEF dataVars
    <2>4. CASE Accepted(t) /\ \E new, blk : Queue(t, new, blk)
        BY <2>1, <2>4, MailSend
    <2> QED BY <1>f, <2>2, <2>3, <2>4
<1>6. ASSUME NEW t \in Threads, recv(t) \/ recv_woken(t) PROVE Mail!Next \/ UNCHANGED Mail!vars
    <2>1. state[t] = "RUNNING" /\ pc[t] \in EntersBox
        BY <1>6 DEF recv, recv_woken, At, EntersBox
    <2>2. arg[t].box \in Boxes
        BY <2>1, Owns
    <2>3. UNCHANGED dataVars \/ Wait(t, arg[t].box) \/ Take(t, arg[t].box)
        BY <1>6 DEF recv, recv_woken
    <2>4. CASE UNCHANGED dataVars
        BY <2>4, <1>s DEF dataVars
    <2>5. CASE Wait(t, arg[t].box)
        <3> DEFINE b == arg[t].box
                   r == [box[b] EXCEPT !.state = "RCV_BLK", !.blk = t]
        <3>1. msg' = msg /\ box' = [box EXCEPT ![b].state = "RCV_BLK", ![b].blk = t]
            BY <2>5 DEF Wait
        <3>2. box \in [Boxes -> BoxType] /\ box[b] \in BoxType
            BY <2>2 DEF Inv, Types, BoxType
        <3>3. r.msg_ls = box[b].msg_ls
            BY <3>2 DEF BoxType
        <3>4. box' = [box EXCEPT ![b] = r]
            BY <2>2, <3>1, <3>2
        <3> HIDE DEF r
        <3>5. \A d \in Boxes : box'[d].msg_ls = box[d].msg_ls
            BY <2>2, <3>2, <3>3, <3>4
        <3> QED BY <3>1, <3>5, MailStutter
    <2>6. CASE Take(t, arg[t].box)
        BY <1>4, <2>2, <2>6
    <2> QED BY <2>3, <2>4, <2>5, <2>6
<1>7. ASSUME NEW t \in Threads, recv_own(t) PROVE UNCHANGED Mail!vars
    <2>1. msg' = [msg EXCEPT ![arg[t].msg].owner = ProcOf[t]] /\ box' = box /\ pc[t] = "recv_own"
        BY <1>7 DEF recv_own, At
    <2>2. /\ msg \in [Msgs -> [state : {"new", "blank", "UNSEND", "SENDED", "RECIEVED"}, owner : Procs \cup {NULL}]]
          /\ arg[t].msg \in Msgs
        BY <2>1 DEF Inv, Types, DataOK
    <2>3. \A m \in Msgs : msg'[m].state = msg[m].state
        BY <2>1, <2>2
    <2> QED BY <2>1, <2>3, MailStutter
<1>8. ASSUME NEW t \in Threads, Step(t), ~ send(t), ~ recv(t), ~ recv_woken(t), ~ recv_own(t)
      PROVE  UNCHANGED <<msg, box>>
    BY <1>8 DEF Step, spin_lock, newmsg_err3, send_lock_msg, send_find_box, send_lock_box, send_unlock_box, send_unlock_msg,
                recv_lock_box, recv_release, recv_block, recv_relock, recv_unlock_box, read_lock_msg,
                read_unlock_msg, delmsg_lock, delmsg, delbox_lock, delbox, Lock, Unlock, dataVars
<1>9. ASSUME NEW c \in CPUs, Switch(c) PROVE UNCHANGED <<msg, box>>
    BY <1>9 DEF Switch, msgVars, dataVars
<1>10. CASE UNCHANGED vars
    BY <1>10, <1>s DEF vars, msgVars, dataVars
<1> QED BY <1>s, <1>1, <1>2, <1>3, <1>5, <1>6, <1>7, <1>8, <1>9, <1>10 DEF Next

\* Messages are sent once, to one box, and taken once each, in the order in
\* which they were sent: every execution of msg.c, with its mutexes, waits and
\* deletions, is an execution of the mailbox.
THEOREM MsgIsMailbox == Spec => IsMailbox
BY MailInit, MailStep, MsgInvariance, PTL DEF Spec, IsMailbox, Mail!Spec
=============================================================================

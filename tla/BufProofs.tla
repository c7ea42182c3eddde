----------------------------- MODULE BufProofs -----------------------------
(***************************************************************************)
(* The console buffer of lib/buf.c keeps its characters in order and its   *)
(* sleepers known, for any size of the buffer and any number of threads    *)
(* and characters, on one CPU.                                             *)
(*                                                                         *)
(* The argument: readlock lets one thread read, writelock one handler      *)
(* write, so that the characters in the buffer are the numbers behind got, *)
(* and those that wait to be written, on the stacks of the handlers, are   *)
(* the next ones in the order of writelock's queue.  A handler that is at  *)
(* a label at which it cannot sleep has the CPU.  The one exception to the *)
(* order of the locks is Stray: a thread that was interrupted on its way   *)
(* to sleep in buf_read is woken up while its handler waits for writelock. *)
(***************************************************************************)
EXTENDS Buf, SchedTheorems, Integers

ReadLabels == {"out", "read", "read_wait", "read_block", "read_take", "read_free", "read_wake",
               "read_clear", "read_run", "read_unlock"}
WriteLabels == {"none", "write_lock", "write", "write_put", "write_wake", "write_unlock"}

Types ==
    /\ TypeOK
    /\ owner \in [Locks -> Threads \cup {NULL}]
    /\ waitq \in [Locks -> Seq(Threads)]
    /\ pc \in [Threads -> ReadLabels]
    /\ hpc \in [Threads -> WriteLabels]
    /\ \A t \in Threads : pc[t] # "out" => t \in Readers
    /\ char \in [Threads -> 0 .. MaxChars]
    /\ arrived \in 0 .. MaxChars
    /\ got \in Nat

\* readlock: the labels from read_wait on are its holder's.
ReadLockInv ==
    LET q == waitq["readlock"] IN
    /\ NoDuplicates(q)
    /\ owner["readlock"] = NULL => q = <<>>
    /\ \A t \in Threads : InQueue(q, t) =>
          pc[t] = "read" /\ hpc[t] = "none" /\ state[t] = "BLOCKED" /\ owner["readlock"] # t
    /\ \A t \in Threads : pc[t] = "read" => owner["readlock"] = t \/ InQueue(q, t)
    /\ \A t \in Threads : pc[t] \notin {"out", "read"} => owner["readlock"] = t
    /\ \A t \in Threads : owner["readlock"] = t => pc[t] # "out"

\* The thread was to sleep in buf_read, but is awake with its handler in the
\* queue of writelock.
Stray(t) == pc[t] = "read_block" /\ rblkt = NULL /\ state[t] \in {"RUNNABEL", "RUNNING"}

\* writelock: the labels from write_put on are its holder's.
WriteLockInv ==
    LET q == waitq["writelock"] IN
    /\ NoDuplicates(q)
    /\ owner["writelock"] = NULL => q = <<>>
    /\ \A t \in Threads : InQueue(q, t) =>
          hpc[t] = "write" /\ owner["writelock"] # t /\ (state[t] = "BLOCKED" \/ Stray(t))
    /\ \A t \in Threads : hpc[t] = "write" => owner["writelock"] = t \/ InQueue(q, t)
    /\ \A t \in Threads : hpc[t] \in {"write_put", "write_wake", "write_unlock"} => owner["writelock"] = t
    /\ \A t \in Threads : owner["writelock"] = t =>
          hpc[t] \in {"write", "write_put", "write_wake", "write_unlock"}

\* The handler keeps the CPU; a thread on its way to sleep sleeps only in a handler.
HandlerInv ==
    /\ \A t \in Threads : hpc[t] \in {"write_lock", "write_wake", "write_unlock"} => state[t] = "RUNNING"
    /\ \A t \in Threads : hpc[t] = "write_wake" => freesz < Size
    /\ \A t \in Threads : pc[t] = "read_block" /\ hpc[t] = "none" => state[t] \in {"RUNNABEL", "RUNNING"}

\* Who sleeps and who knows.
SleepInv ==
    /\ rblkt # NULL => \/ pc[rblkt] = "read_block"
                       \/ pc[rblkt] = "read_take" /\ state[rblkt] = "BLOCKED" /\ hpc[rblkt] = "none"
    /\ wblkt # NULL => hpc[wblkt] = "write_put" /\ state[wblkt] = "BLOCKED"
    /\ \A t \in Threads : pc[t] = "read_block" =>
          rblkt = t \/ (InQueue(waitq["writelock"], t) /\ state[t] # "BLOCKED")
    /\ \A t \in Threads : hpc[t] = "write_put" /\ state[t] = "BLOCKED" => wblkt = t \/ wake = t
    /\ \A t \in Threads : pc[t] = "read_take" =>
          freesz < Size \/ (state[t] = "BLOCKED" /\ hpc[t] = "none" /\ rblkt = t)
    /\ \A t \in Threads : state[t] = "BLOCKED" /\ pc[t] = "read_take" /\ hpc[t] = "none" => rblkt = t

\* Between the test of wblkt and schd_run, the reader has the sleeping handler in t.
Waking == {"read_clear", "read_run"}

WakeInv ==
    /\ wake # NULL => hpc[wake] = "write_put" /\ state[wake] = "BLOCKED"
    /\ wake # NULL => \E t \in Threads : pc[t] \in Waking
    /\ \A t \in Threads : pc[t] \in Waking => wake # NULL /\ wake # t
    /\ \A t \in Threads : pc[t] \in Waking /\ hpc[t] = "none" => state[t] # "BLOCKED"
    /\ \A t \in Threads : pc[t] = "read_clear" => wblkt = wake
    /\ \A t \in Threads : pc[t] = "read_run" => wblkt = NULL

\* The place i places after b
Place(i) == IF b + i < Size THEN b + i ELSE b + i - Size

Reading == IF \E t \in Threads : pc[t] = "read_free" THEN 1 ELSE 0

\* The number of characters in the buffer
Used == Size - freesz - Reading

\* 1 if the holder of writelock has not written its character yet
Writing == IF \E t \in Threads : owner["writelock"] = t /\ hpc[t] \in {"write", "write_put"} THEN 1 ELSE 0

Arriving == IF \E t \in Threads : hpc[t] = "write_lock" THEN 1 ELSE 0

\* The characters in the buffer, and those on their way to it
OrderInv ==
    LET q == waitq["writelock"] IN
    /\ Used \in 0 .. Size
    /\ e = Place(Used)
    /\ \A i \in 0 .. Used - 1 : cache[Place(i)] = got + 1 + i
    /\ \A t \in Threads : owner["writelock"] = t /\ hpc[t] \in {"write", "write_put"} =>
          char[t] = got + Used + 1
    /\ \A i \in 1 .. Len(q) : char[q[i]] = got + Used + Writing + i
    /\ \A t \in Threads : hpc[t] = "write_lock" => char[t] = arrived
    /\ arrived = got + Used + Writing + Len(q) + Arriving

Inv == /\ Types /\ SchedInv /\ ReadLockInv /\ WriteLockInv /\ HandlerInv /\ SleepInv /\ WakeInv
       /\ OrderInv /\ ReaderFindsChar

USE SchedAssumption, BufAssumption, ZenonT(5), SMTT(30)

LEMMA InitInv == Init => Inv
<1> SUFFICES ASSUME Init PROVE Inv
    OBVIOUS
<1> USE DEF Init, MutexesInit
<1>1. SchedInv
    BY SchedInitInv
<1>2. waitq["readlock"] = <<>> /\ waitq["writelock"] = <<>>
      /\ owner["readlock"] = NULL /\ owner["writelock"] = NULL
    OBVIOUS
<1>3. Types
    <2>1. <<>> \in Seq(Threads)
        BY QueueEmpty
    <2> QED BY <2>1 DEF Types, TypeOK, ReadLabels, WriteLabels
<1>4. ReadLockInv /\ WriteLockInv
    BY <1>2 DEF ReadLockInv, WriteLockInv, NoDuplicates, InQueue
<1>5. HandlerInv /\ SleepInv /\ WakeInv /\ ReaderFindsChar
    BY DEF HandlerInv, SleepInv, WakeInv, Waking, ReaderFindsChar
<1>6. OrderInv
    <2>1. Reading = 0 /\ Writing = 0 /\ Arriving = 0
        BY <1>2 DEF Reading, Writing, Arriving
    <2>2. Used = 0
        BY <2>1 DEF Used
    <2>3. Place(0) = 0
        BY DEF Place
    <2> QED BY <1>2, <2>1, <2>2, <2>3 DEF OrderInv
<1> QED BY <1>1, <1>3, <1>4, <1>5, <1>6 DEF Inv

\* There is one CPU, so one thread at most is RUNNING.
LEMMA OneRunning ==
    ASSUME SchedInv, NEW t \in Threads, NEW u \in Threads, state[t] = "RUNNING", state[u] = "RUNNING"
    PROVE  t = u
BY DEF SchedInv

LEMMA CountTypes ==
    Reading \in {0, 1} /\ Writing \in {0, 1} /\ Arriving \in {0, 1}
BY DEF Reading, Writing, Arriving

\* A step that moves no character leaves their order alone.
LEMMA SameOrder ==
    ASSUME Inv, UNCHANGED <<cache, b, e, freesz, got, arrived, char>>,
           owner'["writelock"] = owner["writelock"], waitq'["writelock"] = waitq["writelock"],
           \A t \in Threads : pc'[t] = "read_free" <=> pc[t] = "read_free",
           \A t \in Threads : hpc'[t] \in {"write", "write_put"} <=> hpc[t] \in {"write", "write_put"},
           \A t \in Threads : hpc'[t] = "write_lock" <=> hpc[t] = "write_lock"
    PROVE  OrderInv'
<1>1. Reading' = Reading /\ Writing' = Writing /\ Arriving' = Arriving
    BY DEF Reading, Writing, Arriving
<1>2. Used' = Used
    BY <1>1 DEF Used
<1>3. \A i : Place(i)' = Place(i)
    BY DEF Place
<1> HIDE DEF Used, Place, Writing, Arriving
<1> QED BY <1>1, <1>2, <1>3 DEF Inv, OrderInv

\* The readers that wake somebody up, and whom, stay as they are.
LEMMA WakeSame ==
    ASSUME Types, WakeInv, UNCHANGED <<wake, wblkt>>,
           \A u \in Threads : pc[u] \in Waking \/ pc'[u] \in Waking => pc'[u] = pc[u],
           \A u \in Threads : hpc[u] = "write_put" /\ state[u] = "BLOCKED" =>
               hpc'[u] = "write_put" /\ state'[u] = "BLOCKED",
           \A u \in Threads : pc[u] \in Waking /\ hpc'[u] = "none" =>
               hpc[u] = "none" /\ (state[u] # "BLOCKED" => state'[u] # "BLOCKED")
    PROVE  WakeInv'
<1>1. wake # NULL => wake \in Threads
    BY DEF Types, TypeOK
<1>2. "read_clear" \in Waking /\ "read_run" \in Waking
    BY DEF Waking
<1> QED BY <1>1, <1>2 DEF WakeInv

\* Nobody is to be woken up.
LEMMA WakeNone ==
    ASSUME wake' = NULL, \A u \in Threads : pc'[u] \notin Waking
    PROVE  WakeInv'
<1>1. "read_clear" \in Waking /\ "read_run" \in Waking
    BY DEF Waking
<1> QED BY <1>1 DEF WakeInv

\* While a reader is at another label, no other wakes a handler up.
LEMMA ReaderAlone ==
    ASSUME Inv, NEW t \in Threads, owner["readlock"] = t, pc[t] \notin Waking
    PROVE  wake = NULL /\ \A u \in Threads : pc[u] \notin Waking
<1>1. \A u \in Threads : pc[u] \in Waking => u = t
    BY DEF Inv, ReadLockInv, Waking
<1> QED BY <1>1 DEF Inv, WakeInv

\* While a handler writes, no reader wakes another one up.
LEMMA WriterAlone ==
    ASSUME Inv, NEW t \in Threads, owner["writelock"] = t, state[t] = "RUNNING"
    PROVE  wake = NULL /\ \A u \in Threads : pc[u] \notin Waking
<1>1. wake # NULL => wake \in Threads
    BY DEF Inv, Types, TypeOK
<1>2. wake = NULL
    BY <1>1 DEF Inv, WakeInv, WriteLockInv
<1> QED BY <1>2 DEF Inv, WakeInv

\* A step that changes nothing but who runs.
LEMMA SameDataInv ==
    ASSUME Inv, SchedInv', UNCHANGED <<mutexesVars, bufVars, lineVars, pc, hpc>>, ReaderFindsChar',
           \A u \in Threads : \/ state'[u] = state[u]
                              \/ state[u] = "RUNNABEL" /\ state'[u] = "RUNNING"
                              \/ state[u] = "RUNNING" /\ state'[u] = "RUNNABEL" /\ hpc[u] = "none"
    PROVE  Inv'
<1> USE DEF mutexesVars, bufVars, lineVars
<1>1. Types'
    BY DEF Inv, Types, TypeOK
<1>2. ReadLockInv'
    BY DEF Inv, ReadLockInv
<1>3. WriteLockInv'
    BY DEF Inv, WriteLockInv, Stray
<1>4. HandlerInv'
    BY DEF Inv, HandlerInv
<1>5. SleepInv'
    <2>1. /\ rblkt # NULL => rblkt \in Threads
          /\ wblkt # NULL => wblkt \in Threads
        BY DEF Inv, Types, TypeOK
    <2> QED BY <2>1 DEF Inv, SleepInv
<1>6. OrderInv'
    BY SameOrder
<1>7. WakeInv'
    BY WakeSame DEF Inv
<1> QED BY <1>1, <1>2, <1>3, <1>4, <1>5, <1>6, <1>7 DEF Inv

\* A failed assertion or a panic changes nothing else.
LEMMA FailInv ==
    ASSUME Inv, NEW what, Fail(what), what # "read_assert" PROVE Inv'
<1>1. SchedInv' /\ state' = state
    BY SchedStutterInv DEF Inv, Fail, schedVars
<1> QED BY <1>1, SameDataInv DEF Fail, ReaderFindsChar

LEMMA Regroup ==
    ASSUME NEW g \in Int, NEW u \in Int, NEW w \in Int, NEW n \in Int
    PROVE  g + u + w + n + 1 = g + u + w + (n + 1)
OBVIOUS

\* The holder of writelock goes on in its handler.
LEMMA WriteLockKept ==
    ASSUME WriteLockInv, UNCHANGED <<owner, waitq>>,
           NEW t \in Threads, owner["writelock"] = t,
           hpc'[t] \in {"write_put", "write_wake", "write_unlock"},
           \A u \in Threads : u # t => hpc'[u] = hpc[u],
           \A u \in Threads : InQueue(waitq["writelock"], u) => state'[u] = "BLOCKED" \/ Stray(u)'
    PROVE  WriteLockInv'
BY DEF WriteLockInv

\* writelock is left alone.
LEMMA WriteLockSame ==
    ASSUME WriteLockInv, owner'["writelock"] = owner["writelock"], waitq'["writelock"] = waitq["writelock"],
           \A u \in Threads : hpc'[u] = hpc[u] \/ (hpc[u] = "none" /\ hpc'[u] = "write_lock"),
           \A u \in Threads : InQueue(waitq["writelock"], u) => state'[u] = "BLOCKED" \/ Stray(u)'
    PROVE  WriteLockInv'
BY DEF WriteLockInv

\* The waiters of writelock that neither a thread nor its handler touches.
LEMMA WaitersSleep ==
    ASSUME WriteLockInv, rblkt' = rblkt,
           \A u \in Threads : InQueue(waitq["writelock"], u) => pc'[u] = pc[u] /\ state'[u] = state[u]
    PROVE  \A u \in Threads : InQueue(waitq["writelock"], u) => state'[u] = "BLOCKED" \/ Stray(u)'
BY DEF WriteLockInv, Stray

\* readlock is left alone.
LEMMA ReadLockKept ==
    ASSUME ReadLockInv, owner'["readlock"] = owner["readlock"], waitq'["readlock"] = waitq["readlock"],
           pc' = pc,
           \A u \in Threads : InQueue(waitq["readlock"], u) => hpc'[u] = hpc[u] /\ state'[u] = state[u]
    PROVE  ReadLockInv'
BY DEF ReadLockInv

\* The holder of readlock goes on in buf_read.
LEMMA ReaderGoesOn ==
    ASSUME ReadLockInv, UNCHANGED <<owner, waitq>>,
           NEW t \in Threads, owner["readlock"] = t, pc'[t] \notin {"out", "read"},
           \A u \in Threads : u # t => pc'[u] = pc[u],
           \A u \in Threads : InQueue(waitq["readlock"], u) => hpc'[u] = hpc[u] /\ state'[u] = state[u]
    PROVE  ReadLockInv'
BY DEF ReadLockInv

\* Neither a thread that sleeps in the buffer or is about to, nor what it waits
\* for, changes.
LEMMA SleepSame ==
    ASSUME Types, SleepInv, UNCHANGED <<rblkt, wblkt, wake, freesz, hpc>>,
           waitq'["writelock"] = waitq["writelock"],
           \A u \in Threads : pc[u] \in {"read_block", "read_take"} \/ pc'[u] \in {"read_block", "read_take"} =>
               pc'[u] = pc[u] /\ state'[u] = state[u],
           \A u \in Threads : hpc[u] = "write_put" => state'[u] = state[u]
    PROVE  SleepInv'
<1>1. (rblkt # NULL => rblkt \in Threads) /\ (wblkt # NULL => wblkt \in Threads)
    BY DEF Types, TypeOK
<1> QED BY <1>1 DEF SleepInv

\* mutex_lock, of a free mutex and of another thread's.
LEMMA LockStep ==
    ASSUME SchedInv, NEW t \in Threads, NEW x \in Locks, mutex_lock(t, x)
    PROVE  /\ SchedInv' /\ \A u \in Threads : state'[u] = state[u] \/ (u = t /\ state'[u] = "BLOCKED")
           /\ \/ owner[x] = NULL /\ owner' = [owner EXCEPT ![x] = t] /\ waitq' = waitq
              \/ /\ owner[x] # NULL /\ owner' = owner
                 /\ waitq' = [waitq EXCEPT ![x] = Append(waitq[x], t)] /\ state'[t] = "BLOCKED"
<1>1. CASE owner[x] = NULL /\ owner' = [owner EXCEPT ![x] = t] /\ UNCHANGED <<schedVars, waitq>>
    BY <1>1, SameStates
<1>2. CASE /\ owner[x] # NULL /\ waitq' = [waitq EXCEPT ![x] = Append(waitq[x], t)] /\ owner' = owner
           /\ \E c \in CPUs : cur[c] = t /\ Block(c)
    <2>1. SchedInv' /\ \A u \in Threads : state'[u] = IF u = t THEN "BLOCKED" ELSE state[u]
        BY <1>2, BlockStates
    <2> QED BY <1>2, <2>1
<1> QED BY <1>1, <1>2 DEF mutex_lock

LEMMA SwitchInv ==
    ASSUME Inv, NEW c \in CPUs, Switch(c) PROVE Inv'
<1>1. /\ SchedInv'
      /\ \E t \in Threads : \/ Moves(t, {"RUNNABEL"}, "RUNNING")
                            \/ (Moves(t, {"RUNNING"}, "RUNNABEL") /\ hpc[t] = "none")
    <2>1. CASE Dispatch(c)
        BY <2>1, DispatchInv DEF Inv
    <2>2. CASE Preempt(c) /\ hpc[cur[c]] = "none"
        <3>1. cur[c] \in Threads
            BY <2>2 DEF Preempt, Inv, SchedInv, SchedTypeOK
        <3> QED BY <2>2, <3>1, PreemptInv DEF Inv
    <2> QED BY <2>1, <2>2 DEF Switch
<1>2. PICK t \in Threads : \/ Moves(t, {"RUNNABEL"}, "RUNNING")
                           \/ Moves(t, {"RUNNING"}, "RUNNABEL") /\ hpc[t] = "none"
    BY <1>1
<1>3. \A u \in Threads : \/ state'[u] = state[u]
                         \/ state[u] = "RUNNABEL" /\ state'[u] = "RUNNING"
                         \/ state[u] = "RUNNING" /\ state'[u] = "RUNNABEL" /\ hpc[u] = "none"
    BY <1>2 DEF Moves, Inv, SchedInv, SchedTypeOK
<1> QED BY <1>1, <1>3, SameDataInv DEF Switch, Inv, ReaderFindsChar

-----------------------------------------------------------------------------
(***************************************************************************)
(* buf_read                                                                *)
(***************************************************************************)

LEMMA read_lockInv ==
    ASSUME Inv, NEW t \in Threads, read_lock(t) PROVE Inv'
<1> USE DEF Inv
<1> DEFINE q == waitq["readlock"]
<1>1. /\ t \in Readers /\ state[t] = "RUNNING" /\ hpc[t] = "none" /\ pc[t] = "out"
      /\ mutex_lock(t, "readlock") /\ UNCHANGED <<bufVars, lineVars, failed, hpc>>
      /\ \A u \in Threads : pc'[u] = IF u = t THEN "read" ELSE pc[u]
      /\ pc' \in [Threads -> ReadLabels]
    BY DEF read_lock, At, Goto, Types, ReadLabels
<1>2. SchedInv' /\ \A u \in Threads : state'[u] = state[u] \/ (u = t /\ state'[u] = "BLOCKED")
    BY <1>1, LockStep
<1>3. owner["readlock"] # t /\ ~ InQueue(q, t)
    BY <1>1 DEF ReadLockInv
<1>4. \/ /\ owner["readlock"] = NULL /\ owner' = [owner EXCEPT !["readlock"] = t]
         /\ waitq' = waitq
      \/ /\ owner["readlock"] # NULL /\ owner' = owner
         /\ waitq' = [waitq EXCEPT !["readlock"] = Append(q, t)]
         /\ state'[t] = "BLOCKED"
    BY <1>1, LockStep
<1>5. /\ Append(q, t) \in Seq(Threads) /\ NoDuplicates(Append(q, t))
      /\ \A y : InQueue(Append(q, t), y) <=> InQueue(q, y) \/ y = t
    <2>1. q \in Seq(Threads) /\ NoDuplicates(q)
        BY DEF Types, ReadLockInv
    <2> HIDE DEF q
    <2> QED BY <1>3, <2>1, QueueAppend
<1>6. owner' \in [Locks -> Threads \cup {NULL}] /\ waitq' \in [Locks -> Seq(Threads)]
    <2> HIDE DEF q
    <2>1. owner \in [Locks -> Threads \cup {NULL}] /\ waitq \in [Locks -> Seq(Threads)]
        BY DEF Types
    <2> QED BY Zenon, <1>4, <1>5, <2>1
<1>7. Types'
    BY <1>1, <1>6 DEF Types, TypeOK, bufVars, lineVars
<1>8. owner'["writelock"] = owner["writelock"] /\ waitq'["writelock"] = waitq["writelock"]
    BY <1>4 DEF Types
<1>9. ReadLockInv'
    <2>1. CASE owner["readlock"] = NULL
        <3>1. q = <<>> /\ waitq'["readlock"] = <<>> /\ owner'["readlock"] = t
            BY <1>4, <2>1 DEF Types, ReadLockInv
        <3>2. \A u \in Threads : pc[u] = "out"
            <4>1. \A u \in Threads : ~ InQueue(q, u)
                BY <3>1 DEF InQueue
            <4> QED BY <2>1, <4>1 DEF ReadLockInv
        <3> QED BY <1>1, <3>1, <3>2 DEF ReadLockInv, InQueue, NoDuplicates
    <2>2. CASE owner["readlock"] # NULL
        <3>1. waitq'["readlock"] = Append(q, t) /\ owner' = owner /\ state'[t] = "BLOCKED"
            BY <1>4, <2>2 DEF Types
        <3>2. /\ owner["readlock"] # NULL
              /\ \A u \in Threads : InQueue(q, u) =>
                    pc[u] = "read" /\ hpc[u] = "none" /\ state[u] = "BLOCKED" /\ owner["readlock"] # u
              /\ \A u \in Threads : pc[u] = "read" => owner["readlock"] = u \/ InQueue(q, u)
              /\ \A u \in Threads : pc[u] \notin {"out", "read"} => owner["readlock"] = u
              /\ \A u \in Threads : owner["readlock"] = u => pc[u] # "out"
            BY <2>2 DEF ReadLockInv
        <3> DEFINE r == Append(q, t)
        <3>3. /\ waitq'["readlock"] = r /\ NoDuplicates(r)
              /\ \A y : InQueue(r, y) <=> InQueue(q, y) \/ y = t
            BY <1>5, <3>1
        <3> HIDE DEF q, r
        <3>4. \A u \in Threads : InQueue(r, u) =>
                  pc'[u] = "read" /\ hpc'[u] = "none" /\ state'[u] = "BLOCKED" /\ owner'["readlock"] # u
            BY <1>1, <1>2, <1>3, <3>1, <3>2, <3>3
        <3>5. \A u \in Threads : pc'[u] = "read" => owner'["readlock"] = u \/ InQueue(r, u)
            BY <1>1, <3>1, <3>2, <3>3
        <3>6. /\ \A u \in Threads : pc'[u] \notin {"out", "read"} => owner'["readlock"] = u
              /\ \A u \in Threads : owner'["readlock"] = u => pc'[u] # "out"
            BY <1>1, <3>1, <3>2
        <3> QED BY <3>1, <3>2, <3>3, <3>4, <3>5, <3>6 DEF ReadLockInv
    <2> QED BY <2>1, <2>2
<1>10. WriteLockInv'
    <2>1. ~ InQueue(waitq["writelock"], t)
        BY <1>1 DEF WriteLockInv
    <2>2. \A u \in Threads : InQueue(waitq["writelock"], u) => state'[u] = "BLOCKED" \/ Stray(u)'
        BY <1>1, <1>2, <2>1, WaitersSleep DEF bufVars
    <2> QED BY <1>1, <1>8, <2>2, WriteLockSame
<1>11. HandlerInv' /\ ReaderFindsChar'
    BY <1>1, <1>2 DEF HandlerInv, bufVars, ReaderFindsChar
<1>12. SleepInv'
    BY <1>1, <1>2, <1>8, SleepSame DEF bufVars
<1>13. OrderInv'
    BY <1>1, <1>8, SameOrder DEF bufVars, lineVars
<1>k. WakeInv'
    <2>1. /\ UNCHANGED <<wake, wblkt>> /\ pc[t] \notin Waking /\ pc'[t] \notin Waking
        BY <1>1 DEF bufVars, Waking
    <2>2. \A u \in Threads : u # t => pc'[u] = pc[u] /\ hpc'[u] = hpc[u] /\ state'[u] = state[u]
        BY <1>1, <1>2
    <2> QED BY <1>1, <2>1, <2>2, WakeSame
<1> QED BY <1>2, <1>7, <1>9, <1>10, <1>11, <1>12, <1>13, <1>k

LEMMA read_checkInv ==
    ASSUME Inv, NEW t \in Threads, read_check(t) PROVE Inv'
<1> USE DEF Inv
<1> DEFINE l == IF freesz = Size THEN "read_wait" ELSE "read_take"
<1>1. state[t] = "RUNNING" /\ hpc[t] = "none" /\ pc[t] = "read" /\ owner["readlock"] = t
    BY DEF read_check, At, ReadLockInv
<1>2. Goto(t, l) /\ UNCHANGED <<schedVars, mutexesVars, bufVars, lineVars, failed>>
    BY <1>1 DEF read_check, Fail
<1>l. l \in {"read_wait", "read_take"} /\ (l = "read_take" => freesz # Size)
    OBVIOUS
<1> HIDE DEF l
<1>3. /\ UNCHANGED <<owner, waitq, cache, b, e, freesz, rblkt, wblkt, got, wake, arrived, char, hpc, state>>
      /\ \A u \in Threads : pc'[u] = IF u = t THEN l ELSE pc[u]
      /\ pc' \in [Threads -> ReadLabels]
    BY <1>2, <1>l DEF mutexesVars, bufVars, lineVars, schedVars, Goto, Types, ReadLabels
<1>4. SchedInv'
    BY <1>2, SchedStutterInv
<1>5. Types' /\ ReadLockInv' /\ WriteLockInv' /\ HandlerInv'
    <2>1. Types'
        BY <1>1, <1>3 DEF Types, TypeOK
    <2>2. ReadLockInv'
        BY <1>1, <1>3, <1>l, ReaderGoesOn
    <2>3. WriteLockInv'
        <3>1. ~ InQueue(waitq["writelock"], t)
            BY <1>1 DEF WriteLockInv
        <3> QED BY <1>3, <3>1, WaitersSleep, WriteLockSame
    <2>4. HandlerInv'
        BY <1>1, <1>3, <1>l DEF HandlerInv
    <2> QED BY <2>1, <2>2, <2>3, <2>4
<1>6. SleepInv' /\ ReaderFindsChar'
    <2>1. l = "read_take" => freesz < Size
        <3>1. freesz \in 0 .. Size
            BY DEF Types, TypeOK
        <3> QED BY <1>l, <3>1
    <2> QED BY <1>1, <1>2, <1>3, <1>l, <2>1 DEF SleepInv, Types, TypeOK, ReaderFindsChar
<1>7. OrderInv'
    BY <1>1, <1>3, <1>l, SameOrder
<1>k. WakeInv'
    <2>1. wake = NULL /\ \A u \in Threads : pc[u] \notin Waking
        BY <1>1, ReaderAlone DEF Waking
    <2>2. wake' = NULL /\ \A u \in Threads : pc'[u] \notin Waking
        BY <1>3, <1>l, <2>1 DEF Waking
    <2> QED BY <2>2, WakeNone
<1> QED BY <1>4, <1>5, <1>6, <1>7, <1>k

LEMMA read_waitInv ==
    ASSUME Inv, NEW t \in Threads, read_wait(t) PROVE Inv'
<1> USE DEF Inv
<1>1. /\ state[t] = "RUNNING" /\ hpc[t] = "none" /\ pc[t] = "read_wait" /\ owner["readlock"] = t
      /\ rblkt' = t
      /\ UNCHANGED <<schedVars, mutexesVars, cache, b, e, freesz, wblkt, got, wake, lineVars, failed>>
    BY DEF read_wait, At, ReadLockInv
<1>2. /\ UNCHANGED <<owner, waitq, arrived, char, hpc, state>>
      /\ \A u \in Threads : pc'[u] = IF u = t THEN "read_block" ELSE pc[u]
      /\ pc' \in [Threads -> ReadLabels]
    BY DEF read_wait, mutexesVars, lineVars, schedVars, Goto, Types, ReadLabels
<1>3. SchedInv'
    BY <1>1, SchedStutterInv
<1>4. \A u \in Threads : pc[u] # "read_block"
    BY <1>1 DEF ReadLockInv
<1>5. Types' /\ ReadLockInv' /\ HandlerInv' /\ ReaderFindsChar'
    <2>1. Types'
        BY <1>1, <1>2 DEF Types, TypeOK
    <2>2. ReadLockInv'
        BY <1>1, <1>2, ReaderGoesOn
    <2>3. HandlerInv' /\ ReaderFindsChar'
        BY <1>1, <1>2 DEF HandlerInv, ReaderFindsChar
    <2> QED BY <2>1, <2>2, <2>3
<1>6. WriteLockInv'
    <2>1. \A u \in Threads : InQueue(waitq["writelock"], u) => state'[u] = "BLOCKED" \/ Stray(u)'
        BY <1>2, <1>4 DEF WriteLockInv, Stray
    <2> QED BY <1>2, <2>1, WriteLockSame
<1>7. SleepInv'
    <2>1. \A u \in Threads : pc[u] # "read_take"
        BY <1>1 DEF ReadLockInv
    <2> QED BY <1>1, <1>2, <1>4, <2>1 DEF SleepInv, Types, TypeOK
<1>8. OrderInv'
    BY <1>1, <1>2, SameOrder
<1>k. WakeInv'
    <2>1. wake = NULL /\ \A u \in Threads : pc[u] \notin Waking
        BY <1>1, ReaderAlone DEF Waking
    <2>2. wake' = NULL /\ \A u \in Threads : pc'[u] \notin Waking
        BY <1>1, <1>2, <2>1 DEF Waking
    <2> QED BY <2>2, WakeNone
<1> QED BY <1>3, <1>5, <1>6, <1>7, <1>8, <1>k

LEMMA read_blockInv ==
    ASSUME Inv, NEW t \in Threads, read_block(t) PROVE Inv'
<1> USE DEF Inv
<1>1. /\ state[t] = "RUNNING" /\ hpc[t] = "none" /\ pc[t] = "read_block" /\ owner["readlock"] = t
      /\ schd_block(t) /\ UNCHANGED <<mutexesVars, bufVars, lineVars, failed>>
    BY DEF read_block, At, ReadLockInv
<1>2. SchedInv' /\ \A u \in Threads : state'[u] = IF u = t THEN "BLOCKED" ELSE state[u]
    BY <1>1, BlockStates DEF schd_block
<1>3. /\ UNCHANGED <<owner, waitq, cache, b, e, freesz, rblkt, wblkt, got, wake, arrived, char, hpc>>
      /\ \A u \in Threads : pc'[u] = IF u = t THEN "read_take" ELSE pc[u]
      /\ pc' \in [Threads -> ReadLabels]
    BY <1>1 DEF read_block, mutexesVars, bufVars, lineVars, Goto, Types, ReadLabels
<1>4. rblkt = t
    BY <1>1 DEF SleepInv, WriteLockInv
<1>5. Types' /\ ReadLockInv' /\ HandlerInv' /\ ReaderFindsChar'
    <2>1. Types'
        BY <1>1, <1>3 DEF Types, TypeOK
    <2>2. ReadLockInv'
        <3>1. ~ InQueue(waitq["readlock"], t)
            BY <1>1 DEF ReadLockInv
        <3> QED BY <1>1, <1>2, <1>3, <3>1, ReaderGoesOn
    <2>3. HandlerInv' /\ ReaderFindsChar'
        BY <1>1, <1>2, <1>3 DEF HandlerInv, ReaderFindsChar
    <2> QED BY <2>1, <2>2, <2>3
<1>6. WriteLockInv'
    <2>1. ~ InQueue(waitq["writelock"], t)
        BY <1>1 DEF WriteLockInv
    <2> QED BY <1>2, <1>3, <2>1, WaitersSleep, WriteLockSame
<1>7. SleepInv'
    <2>1. /\ rblkt' = t /\ pc'[t] = "read_take" /\ state'[t] = "BLOCKED" /\ hpc'[t] = "none"
          /\ wblkt' # NULL => wblkt' \in Threads /\ hpc'[wblkt'] = "write_put" /\ state'[wblkt'] = "BLOCKED"
        BY <1>1, <1>2, <1>3, <1>4 DEF SleepInv, Types, TypeOK
    <2>2. \A u \in Threads : pc'[u] \notin {"read_block", "read_take"} \/ u = t
        BY <1>1, <1>3 DEF ReadLockInv
    <2>3. \A u \in Threads : hpc'[u] = "write_put" /\ state'[u] = "BLOCKED" => wblkt' = u \/ wake' = u
        BY <1>1, <1>2, <1>3 DEF SleepInv
    <2> QED BY <2>1, <2>2, <2>3 DEF SleepInv
<1>8. OrderInv'
    BY <1>1, <1>3, SameOrder
<1>k. WakeInv'
    <2>1. wake = NULL /\ \A u \in Threads : pc[u] \notin Waking
        BY <1>1, ReaderAlone DEF Waking
    <2>2. wake' = NULL /\ \A u \in Threads : pc'[u] \notin Waking
        BY <1>3, <2>1 DEF Waking
    <2> QED BY <2>2, WakeNone
<1> QED BY <1>2, <1>5, <1>6, <1>7, <1>8, <1>k

\* b + 1 and e + 1 wrap around at the end of the buffer.
LEMMA NextPlace ==
    ASSUME NEW x \in 0 .. Size - 1
    PROVE  (x + 1) % Size = IF x + 1 = Size THEN 0 ELSE x + 1
OBVIOUS

\* The reader takes the character behind the last one read.
LEMMA read_takeStep ==
    ASSUME Inv, NEW t \in Threads, read_take(t)
    PROVE  /\ At(t, "read_take") /\ owner["readlock"] = t /\ freesz < Size /\ Reading = 0
           /\ got' = got + 1 /\ b' = (b + 1) % Size /\ Goto(t, "read_free")
           /\ UNCHANGED <<schedVars, mutexesVars, cache, e, freesz, rblkt, wblkt, wake, lineVars, failed>>
<1>1. At(t, "read_take") /\ owner["readlock"] = t /\ freesz < Size
    BY DEF read_take, At, Inv, ReadLockInv, SleepInv
<1>2. /\ got' = cache[b] /\ b' = (b + 1) % Size /\ Goto(t, "read_free")
      /\ UNCHANGED <<schedVars, mutexesVars, cache, e, freesz, rblkt, wblkt, wake, lineVars, failed>>
    BY <1>1 DEF read_take, Inv, Types, TypeOK
<1>3. Reading = 0
    BY <1>1 DEF Reading, At, Inv, ReadLockInv
<1>4. Used > 0 /\ Used \in Nat
    BY <1>1, <1>3 DEF Used, Inv, Types, TypeOK
<1>5. Place(0) = b
    BY DEF Place, Inv, Types, TypeOK
<1>6. cache[b] = got + 1
    <2> HIDE DEF Used, Place
    <2>1. cache[Place(0)] = got + 1 + 0
        BY <1>4 DEF Inv, OrderInv
    <2> QED BY <1>5, <2>1 DEF Inv, Types
<1> QED BY <1>1, <1>2, <1>3, <1>6

LEMMA read_takeInv ==
    ASSUME Inv, NEW t \in Threads, read_take(t) PROVE Inv'
<1> USE DEF Inv
<1>1. /\ state[t] = "RUNNING" /\ hpc[t] = "none" /\ pc[t] = "read_take" /\ owner["readlock"] = t
      /\ freesz < Size /\ Reading = 0 /\ got' = got + 1 /\ b' = (b + 1) % Size
      /\ UNCHANGED <<schedVars, mutexesVars, cache, e, freesz, rblkt, wblkt, wake, lineVars, failed>>
      /\ Goto(t, "read_free")
    BY read_takeStep DEF At
<1>2. /\ UNCHANGED <<owner, waitq, arrived, char, hpc, state>>
      /\ \A u \in Threads : pc'[u] = IF u = t THEN "read_free" ELSE pc[u]
      /\ pc' \in [Threads -> ReadLabels]
    BY <1>1 DEF mutexesVars, lineVars, schedVars, Goto, Types, ReadLabels
<1>3. SchedInv'
    BY <1>1, SchedStutterInv
<1>b. b' = (IF b + 1 = Size THEN 0 ELSE b + 1) /\ b \in 0 .. Size - 1 /\ b' \in 0 .. Size - 1
    BY <1>1, NextPlace DEF Types, TypeOK
<1>4. Types'
    <2>1. got' \in Nat
        <3>1. got \in Nat /\ got' = got + 1
            BY <1>1 DEF Types
        <3> QED BY <3>1
    <2> QED BY Zenon, <1>1, <1>2, <1>b, <2>1 DEF Types, TypeOK
<1>5. ReadLockInv'
    BY <1>1, <1>2, ReaderGoesOn
<1>6. WriteLockInv'
    <2>1. ~ InQueue(waitq["writelock"], t)
        BY <1>1 DEF WriteLockInv
    <2> QED BY <1>1, <1>2, <2>1, WaitersSleep, WriteLockSame
<1>7. HandlerInv' /\ ReaderFindsChar'
    BY <1>1, <1>2 DEF HandlerInv, ReaderFindsChar
<1>8. SleepInv'
    <2>1. rblkt = NULL
        BY Zenon, <1>1 DEF SleepInv, ReadLockInv, Types, TypeOK
    <2> QED BY <1>1, <1>2, <2>1 DEF SleepInv
<1>9. OrderInv'
    <2>1. Reading' = 1 /\ Writing' = Writing /\ Arriving' = Arriving
        BY <1>1, <1>2 DEF Reading, Writing, Arriving
    <2>2. Used' = Used - 1 /\ Used = Size - freesz /\ Used \in 1 .. Size
        <3>1. freesz \in 0 .. Size
            BY DEF Types, TypeOK
        <3>2. Used = Size - freesz - 0 /\ Used' = Size - freesz - 1
            BY <1>1, <2>1 DEF Used
        <3> QED BY <1>1, <3>1, <3>2
    <2>3. \A i \in 0 .. Size - 1 : Place(i)' = Place(i + 1)
        BY <1>b DEF Place
    <2>4. e' = Place(Used)'
        <3> HIDE DEF Used
        <3>1. PICK n \in 0 .. Size - 1 : n + 1 = Used /\ n = Used'
            BY <2>2
        <3>2. Place(n)' = Place(Used)
            BY <2>3, <3>1
        <3>3. Place(Used)' = Place(n)'
            BY <3>1 DEF Place
        <3> QED BY <1>1, <3>2, <3>3 DEF OrderInv
    <2> HIDE DEF Place, Used, Writing, Arriving, Reading
    <2>5. \A i \in 0 .. Used' - 1 : cache'[Place(i)'] = got' + 1 + i
        <3> SUFFICES ASSUME NEW i \in 0 .. Used' - 1 PROVE cache'[Place(i)'] = got' + 1 + i
            OBVIOUS
        <3>1. i + 1 \in 0 .. Used - 1 /\ i \in 0 .. Size - 1
            BY <2>2
        <3>2. cache[Place(i + 1)] = got + 1 + (i + 1)
            BY <3>1 DEF OrderInv
        <3>3. Place(i)' = Place(i + 1) /\ cache' = cache /\ got' = got + 1 /\ got \in Nat
            BY <1>1, <2>3, <3>1 DEF Types
        <3> QED BY <3>1, <3>2, <3>3
    <2>6. got' + Used' = got + Used
        BY <1>1, <2>2 DEF Types
    <2>7. \A u \in Threads : owner'["writelock"] = u /\ hpc'[u] \in {"write", "write_put"} =>
              char'[u] = got' + Used' + 1
        BY <1>2, <2>6 DEF OrderInv
    <2>8. \A i \in 1 .. Len(waitq'["writelock"]) :
              char'[waitq'["writelock"][i]] = got' + Used' + Writing' + i
        BY <1>2, <2>1, <2>6 DEF OrderInv
    <2>9. /\ \A u \in Threads : hpc'[u] = "write_lock" => char'[u] = arrived'
          /\ arrived' = got' + Used' + Writing' + Len(waitq'["writelock"]) + Arriving'
        BY <1>2, <2>1, <2>6 DEF OrderInv
    <2>10. Used' \in 0 .. Size
        BY <2>2
    <2> QED BY Zenon, <2>4, <2>5, <2>7, <2>8, <2>9, <2>10 DEF OrderInv
<1>k. WakeInv'
    <2>1. wake = NULL /\ \A u \in Threads : pc[u] \notin Waking
        BY <1>1, ReaderAlone DEF Waking
    <2>2. wake' = NULL /\ \A u \in Threads : pc'[u] \notin Waking
        BY <1>1, <1>2, <2>1 DEF Waking
    <2> QED BY <2>2, WakeNone
<1> QED BY <1>3, <1>4, <1>5, <1>6, <1>7, <1>8, <1>9, <1>k

LEMMA read_freeInv ==
    ASSUME Inv, NEW t \in Threads, read_free(t) PROVE Inv'
<1> USE DEF Inv
<1>1. /\ state[t] = "RUNNING" /\ hpc[t] = "none" /\ pc[t] = "read_free" /\ owner["readlock"] = t
      /\ freesz' = freesz + 1
      /\ UNCHANGED <<schedVars, mutexesVars, cache, b, e, rblkt, wblkt, got, wake, lineVars, failed>>
    BY DEF read_free, At, ReadLockInv
<1>2. /\ UNCHANGED <<owner, waitq, arrived, char, hpc, state>>
      /\ \A u \in Threads : pc'[u] = IF u = t THEN "read_wake" ELSE pc[u]
      /\ pc' \in [Threads -> ReadLabels]
    BY DEF read_free, mutexesVars, lineVars, schedVars, Goto, Types, ReadLabels
<1>3. SchedInv'
    BY <1>1, SchedStutterInv
<1>o. \A u \in Threads : pc[u] \notin {"out", "read"} => u = t
    BY <1>1 DEF ReadLockInv
<1>4. Reading = 1 /\ Reading' = 0 /\ Writing' = Writing /\ Arriving' = Arriving
    BY <1>1, <1>2, <1>o DEF Reading, Writing, Arriving
<1>5. freesz' \in 0 .. Size /\ Used' = Used
    <2>1. /\ freesz \in 0 .. Size
          /\ Size - freesz - 1 \in 0 .. Size
        BY <1>4 DEF Used, OrderInv, Types, TypeOK
    <2>2. freesz' \in 0 .. Size /\ Size - freesz' - 0 = Size - freesz - 1
        BY <1>1, <2>1
    <2> QED BY <1>4, <2>2 DEF Used
<1>6. Types'
    BY <1>1, <1>2, <1>5 DEF Types, TypeOK
<1>7. ReadLockInv'
    BY <1>1, <1>2, ReaderGoesOn
<1>8. WriteLockInv'
    <2>1. ~ InQueue(waitq["writelock"], t)
        BY <1>1 DEF WriteLockInv
    <2> QED BY <1>1, <1>2, <2>1, WaitersSleep, WriteLockSame
<1>9. HandlerInv' /\ ReaderFindsChar'
    <2>1. \A u \in Threads : hpc[u] # "write_wake"
        BY <1>1, OneRunning DEF HandlerInv
    <2> QED BY <1>1, <1>2, <2>1 DEF HandlerInv, ReaderFindsChar
<1>10. SleepInv'
    BY Zenon, <1>1, <1>2, <1>o DEF SleepInv, Types, TypeOK
<1>11. OrderInv'
    <2>1. \A i : Place(i)' = Place(i)
        BY <1>1 DEF Place
    <2> HIDE DEF Place, Used, Writing, Arriving, Reading
    <2> QED BY <1>1, <1>2, <1>4, <1>5, <2>1 DEF OrderInv
<1>k. WakeInv'
    <2>1. wake = NULL /\ \A u \in Threads : pc[u] \notin Waking
        BY <1>1, ReaderAlone DEF Waking
    <2>2. wake' = NULL /\ \A u \in Threads : pc'[u] \notin Waking
        BY <1>1, <1>2, <2>1 DEF Waking
    <2> QED BY <2>2, WakeNone
<1> QED BY <1>3, <1>6, <1>7, <1>8, <1>9, <1>10, <1>11, <1>k

\* WakeUp of a thread, or of none.
LEMMA WakeUpInv ==
    ASSUME SchedInv, NEW w \in Threads \cup {NULL}, WakeUp(w)
    PROVE  /\ SchedInv'
           /\ \A u \in Threads : state'[u] = IF u = w THEN "RUNNABEL" ELSE state[u]
           /\ w # NULL => state[w] \in {"UNSCHDED", "BLOCKED"}
<1>1. CASE w = NULL
    BY <1>1, SameStates DEF WakeUp
<1>2. CASE w \in Threads
    BY <1>2, RunStates DEF WakeUp
<1> QED BY <1>1, <1>2

\* The reader goes on; nothing changes but wblkt, t and the thread that it wakes up.
LEMMA ReaderWakes ==
    ASSUME Inv, NEW t \in Threads, NEW l \in {"read_clear", "read_run", "read_unlock"},
           hpc[t] = "none", pc[t] \in {"read_wake", "read_clear", "read_run"}, Goto(t, l),
           UNCHANGED <<mutexesVars, cache, b, e, freesz, rblkt, got, lineVars, failed>>,
           wblkt' \in Threads \cup {NULL}, wake' \in Threads \cup {NULL}, SchedInv',
           \A u \in Threads : state'[u] = state[u] \/ (state'[u] = "RUNNABEL" /\ hpc[u] = "write_put"),
           SleepInv', WakeInv'
    PROVE  Inv'
<1> USE DEF Inv
<1>1. /\ UNCHANGED <<owner, waitq, arrived, char, hpc>>
      /\ \A u \in Threads : pc'[u] = IF u = t THEN l ELSE pc[u]
      /\ pc' \in [Threads -> ReadLabels]
      /\ owner["readlock"] = t
    <2>1. owner["readlock"] = t
        BY DEF ReadLockInv
    <2>2. l \in ReadLabels /\ pc \in [Threads -> ReadLabels] /\ pc' = [pc EXCEPT ![t] = l] /\ hpc' = hpc
        BY DEF ReadLabels, Types, Goto
    <2> QED BY Zenon, <2>1, <2>2 DEF mutexesVars, lineVars
<1>2. Types'
    BY <1>1 DEF Types, TypeOK
<1>3. ReadLockInv'
    <2>1. \A u \in Threads : InQueue(waitq["readlock"], u) => state'[u] = state[u]
        BY DEF ReadLockInv
    <2> QED BY <1>1, <2>1, ReaderGoesOn
<1>4. WriteLockInv'
    <2>1. \A u \in Threads : InQueue(waitq["writelock"], u) => u # t /\ state'[u] = state[u]
        BY DEF WriteLockInv
    <2> QED BY <1>1, <2>1, WaitersSleep, WriteLockSame
<1>5. HandlerInv' /\ ReaderFindsChar'
    <2>1. l # "read_block" /\ \A u \in Threads : hpc[u] # "write_put" => state'[u] = state[u]
        OBVIOUS
    <2>2. \A u \in Threads : hpc'[u] \in {"write_lock", "write_wake", "write_unlock"} => state'[u] = "RUNNING"
        BY <1>1, <2>1 DEF HandlerInv
    <2>3. \A u \in Threads : hpc'[u] = "write_wake" => freesz' < Size'
        BY <1>1 DEF HandlerInv
    <2>4. \A u \in Threads : pc'[u] = "read_block" /\ hpc'[u] = "none" => state'[u] \in {"RUNNABEL", "RUNNING"}
        <3>1. \A u \in Threads : pc'[u] = "read_block" => pc[u] = "read_block"
            BY <1>1, <2>1
        <3> QED BY <1>1, <2>1, <3>1 DEF HandlerInv
    <2> QED BY <2>2, <2>3, <2>4 DEF HandlerInv, ReaderFindsChar
<1>6. OrderInv'
    <2>1. l # "read_free" /\ pc[t] # "read_free"
        OBVIOUS
    <2> QED BY <1>1, <2>1, SameOrder
<1> QED BY <1>2, <1>3, <1>4, <1>5, <1>6

LEMMA read_wakeInv ==
    ASSUME Inv, NEW t \in Threads, read_wake(t) PROVE Inv'
<1> DEFINE l == IF wblkt = NULL THEN "read_unlock" ELSE "read_clear"
<1>1. /\ state[t] = "RUNNING" /\ hpc[t] = "none" /\ pc[t] = "read_wake" /\ owner["readlock"] = t
      /\ wake' = wblkt /\ Goto(t, l)
      /\ UNCHANGED <<schedVars, mutexesVars, cache, b, e, freesz, rblkt, wblkt, got, lineVars, failed>>
    BY DEF read_wake, At, Inv, ReadLockInv
<1>2. /\ l \in {"read_clear", "read_run", "read_unlock"}
      /\ wblkt = NULL => l = "read_unlock"
      /\ wblkt # NULL => l = "read_clear"
    OBVIOUS
<1> HIDE DEF l
<1>3. /\ UNCHANGED <<waitq, hpc>>
      /\ \A u \in Threads : pc'[u] = IF u = t THEN l ELSE pc[u]
    BY <1>1 DEF mutexesVars, Goto, Inv, Types
<1>4. SchedInv' /\ state' = state
    BY <1>1, SchedStutterInv DEF Inv, schedVars
<1>5. wake = NULL /\ \A u \in Threads : pc[u] \notin Waking
    <2>1. pc[t] \notin Waking
        BY <1>1 DEF Waking
    <2> QED BY <1>1, <2>1, ReaderAlone
<1>6. wblkt \in Threads \cup {NULL} /\ (rblkt # NULL => rblkt \in Threads)
    BY DEF Inv, Types, TypeOK
<1>7. SleepInv'
    <2>1. l \notin {"read_block", "read_take"}
        BY <1>2
    <2> QED BY <1>1, <1>3, <1>4, <1>5, <1>6, <2>1 DEF Inv, SleepInv
<1>8. WakeInv'
    <2>1. CASE wblkt = NULL
        <3>1. \A u \in Threads : pc'[u] \notin Waking
            BY <1>2, <1>3, <1>5, <2>1 DEF Waking
        <3> QED BY <1>1, <2>1, <3>1, WakeNone
    <2>2. CASE wblkt # NULL
        <3>1. hpc[wblkt] = "write_put" /\ state[wblkt] = "BLOCKED" /\ wblkt # t
            BY <1>1, <1>6, <2>2 DEF Inv, SleepInv
        <3>2. pc'[t] = "read_clear" /\ \A u \in Threads : pc'[u] \in Waking => u = t
            BY <1>2, <1>3, <1>5, <2>2
        <3>3. "read_clear" \in Waking /\ "read_run" \in Waking
            BY DEF Waking
        <3> QED BY <1>1, <1>3, <1>4, <2>2, <3>1, <3>2, <3>3 DEF WakeInv
    <2> QED BY <2>1, <2>2
<1> QED BY <1>1, <1>2, <1>4, <1>6, <1>7, <1>8, ReaderWakes

LEMMA read_clearInv ==
    ASSUME Inv, NEW t \in Threads, read_clear(t) PROVE Inv'
<1>1. /\ state[t] = "RUNNING" /\ hpc[t] = "none" /\ pc[t] = "read_clear" /\ owner["readlock"] = t
      /\ wblkt' = NULL /\ Goto(t, "read_run")
      /\ UNCHANGED <<schedVars, mutexesVars, cache, b, e, freesz, rblkt, got, wake, lineVars, failed>>
    BY DEF read_clear, At, Inv, ReadLockInv
<1>2. /\ UNCHANGED <<waitq, hpc>>
      /\ \A u \in Threads : pc'[u] = IF u = t THEN "read_run" ELSE pc[u]
    BY <1>1 DEF mutexesVars, Goto, Inv, Types
<1>3. SchedInv' /\ state' = state
    BY <1>1, SchedStutterInv DEF Inv, schedVars
<1>4. wake \in Threads /\ (rblkt # NULL => rblkt \in Threads)
    BY <1>1 DEF Inv, Types, TypeOK, WakeInv, Waking
<1>5. wblkt = wake /\ \A u \in Threads : pc[u] \notin {"out", "read"} => u = t
    BY <1>1 DEF Inv, WakeInv, ReadLockInv
<1>6. SleepInv'
    BY <1>1, <1>2, <1>3, <1>4, <1>5 DEF Inv, SleepInv
<1>7. WakeInv'
    <2>1. \A u \in Threads : pc'[u] \in Waking => u = t
        BY <1>2, <1>5 DEF Waking
    <2>2. "read_clear" \in Waking /\ "read_run" \in Waking
        BY DEF Waking
    <2> QED BY <1>1, <1>2, <1>3, <1>4, <2>1, <2>2 DEF Inv, WakeInv
<1> QED BY <1>1, <1>3, <1>4, <1>6, <1>7, ReaderWakes

LEMMA read_runInv ==
    ASSUME Inv, NEW t \in Threads, read_run(t) PROVE Inv'
<1>a. CASE Fail("schd_run")
    BY <1>a, FailInv
<1>b. CASE ~ Fail("schd_run")
    <2>1. /\ state[t] = "RUNNING" /\ hpc[t] = "none" /\ pc[t] = "read_run" /\ owner["readlock"] = t
          /\ Run(wake) /\ wake' = NULL /\ Goto(t, "read_unlock")
          /\ UNCHANGED <<mutexesVars, cache, b, e, freesz, rblkt, wblkt, got, lineVars, failed>>
        BY <1>b DEF read_run, At, Inv, ReadLockInv
    <2>2. /\ UNCHANGED <<waitq, hpc>>
          /\ \A u \in Threads : pc'[u] = IF u = t THEN "read_unlock" ELSE pc[u]
        BY <2>1 DEF mutexesVars, Goto, Inv, Types
    <2>3. wake \in Threads /\ wblkt = NULL /\ hpc[wake] = "write_put" /\ (rblkt # NULL => rblkt \in Threads)
        BY <2>1 DEF Inv, Types, TypeOK, WakeInv, Waking
    <2>4. SchedInv' /\ \A u \in Threads : state'[u] = IF u = wake THEN "RUNNABEL" ELSE state[u]
        BY <2>1, <2>3, RunStates DEF Inv
    <2>5. \A u \in Threads : pc[u] \notin {"out", "read"} => u = t
        BY <2>1 DEF Inv, ReadLockInv
    <2>6. SleepInv'
        <3>1. \A u \in Threads : hpc[u] = "write_put" => state'[u] # "BLOCKED"
            BY <2>3, <2>4 DEF Inv, SleepInv
        <3> QED BY <2>1, <2>2, <2>3, <2>4, <2>5, <3>1 DEF Inv, SleepInv
    <2>7. WakeInv'
        <3>1. \A u \in Threads : pc'[u] \notin Waking
            BY <2>2, <2>5 DEF Waking
        <3> QED BY <2>1, <3>1, WakeNone
    <2>8. \A u \in Threads : state'[u] = state[u] \/ (state'[u] = "RUNNABEL" /\ hpc[u] = "write_put")
        BY <2>3, <2>4
    <2> QED BY <2>1, <2>3, <2>4, <2>6, <2>7, <2>8, ReaderWakes
<1> QED BY <1>a, <1>b

\* The mutex is left free, or goes to the first waiter.
HandsOver(x) ==
    \/ waitq[x] = <<>> /\ waitq'[x] = <<>> /\ owner'[x] = NULL /\ state' = state
    \/ \E h \in Threads :
          /\ waitq[x] # <<>> /\ h = waitq[x][1] /\ InQueue(waitq[x], h) /\ owner'[x] = h
          /\ waitq'[x] = Tail(waitq[x])
          /\ \A y : InQueue(waitq'[x], y) <=> InQueue(waitq[x], y) /\ y # h
          /\ state[h] \in {"UNSCHDED", "BLOCKED"}
          /\ \A u \in Threads : state'[u] = IF u = h THEN "RUNNABEL" ELSE state[u]

LEMMA UnlockStep ==
    ASSUME SchedInv, NEW x \in Locks, mutex_unlock(x),
           owner \in [Locks -> Threads \cup {NULL}], waitq \in [Locks -> Seq(Threads)],
           NoDuplicates(waitq[x])
    PROVE  /\ SchedInv'
           /\ owner' \in [Locks -> Threads \cup {NULL}] /\ waitq' \in [Locks -> Seq(Threads)]
           /\ \A y \in Locks : y # x => owner'[y] = owner[y] /\ waitq'[y] = waitq[y]
           /\ NoDuplicates(waitq'[x])
           /\ HandsOver(x)
<1>1. CASE waitq[x] = <<>>
    BY <1>1, SchedStutterInv DEF mutex_unlock, schedVars, HandsOver
<1>2. CASE waitq[x] # <<>>
    <2> DEFINE q == waitq[x]
               h == q[1]
    <2>1. /\ Tail(q) \in Seq(Threads) /\ NoDuplicates(Tail(q))
          /\ h \in Threads /\ Head(q) = h
          /\ \A y : InQueue(Tail(q), y) <=> InQueue(q, y) /\ y # h
        <3>1. q \in Seq(Threads) /\ q # <<>> /\ NoDuplicates(q)
            BY <1>2
        <3> HIDE DEF q
        <3> QED BY <3>1, QueueTail
    <2>2. InQueue(q, h)
        <3>1. q \in Seq(Threads) /\ q # <<>>
            BY <1>2
        <3> HIDE DEF q
        <3> QED BY <3>1, QueueEmpty DEF InQueue
    <2>3. /\ owner' = [owner EXCEPT ![x] = h] /\ waitq' = [waitq EXCEPT ![x] = Tail(q)] /\ Run(h)
        BY <1>2, <2>1 DEF mutex_unlock
    <2> HIDE DEF h
    <2>4. /\ SchedInv' /\ state[h] \in {"UNSCHDED", "BLOCKED"}
          /\ \A u \in Threads : state'[u] = IF u = h THEN "RUNNABEL" ELSE state[u]
        BY <2>1, <2>3, RunStates
    <2>5. owner'[x] = h /\ waitq'[x] = Tail(q)
        BY <2>3
    <2>6. /\ owner' \in [Locks -> Threads \cup {NULL}] /\ waitq' \in [Locks -> Seq(Threads)]
          /\ \A y \in Locks : y # x => owner'[y] = owner[y] /\ waitq'[y] = waitq[y]
        BY <2>1, <2>3
    <2> QED BY <1>2, <2>1, <2>2, <2>4, <2>5, <2>6 DEF h, HandsOver
<1> QED BY <1>1, <1>2

LEMMA read_unlockInv ==
    ASSUME Inv, NEW t \in Threads, read_unlock(t) PROVE Inv'
<1> USE DEF Inv
<1>1. /\ state[t] = "RUNNING" /\ hpc[t] = "none" /\ pc[t] = "read_unlock" /\ owner["readlock"] = t
      /\ mutex_unlock("readlock") /\ UNCHANGED <<bufVars, lineVars, failed>>
      /\ Goto(t, "out")
    BY DEF read_unlock, At, ReadLockInv
<1>2. /\ UNCHANGED <<cache, b, e, freesz, rblkt, wblkt, got, wake, arrived, char, hpc>>
      /\ \A u \in Threads : pc'[u] = IF u = t THEN "out" ELSE pc[u]
      /\ pc' \in [Threads -> ReadLabels]
    BY <1>1 DEF bufVars, lineVars, Goto, Types, ReadLabels
<1> DEFINE x == "readlock"
<1>3. /\ SchedInv'
      /\ owner' \in [Locks -> Threads \cup {NULL}] /\ waitq' \in [Locks -> Seq(Threads)]
      /\ owner'["writelock"] = owner["writelock"] /\ waitq'["writelock"] = waitq["writelock"]
      /\ NoDuplicates(waitq'[x])
      /\ \/ /\ waitq[x] = <<>> /\ waitq'[x] = <<>> /\ owner'[x] = NULL /\ state' = state
         \/ \E h \in Threads :
               /\ InQueue(waitq[x], h) /\ owner'[x] = h
               /\ \A y : InQueue(waitq'[x], y) <=> InQueue(waitq[x], y) /\ y # h
               /\ \A u \in Threads : state'[u] = IF u = h THEN "RUNNABEL" ELSE state[u]
    <2>1. SchedInv /\ owner \in [Locks -> Threads \cup {NULL}] /\ waitq \in [Locks -> Seq(Threads)]
          /\ NoDuplicates(waitq[x])
        BY DEF Types, ReadLockInv
    <2>2. x \in Locks /\ "writelock" \in Locks /\ x # "writelock"
        OBVIOUS
    <2> HIDE DEF x
    <2>3. HandsOver(x)
        BY <1>1, <2>1, <2>2, UnlockStep
    <2>4. /\ SchedInv'
          /\ owner' \in [Locks -> Threads \cup {NULL}] /\ waitq' \in [Locks -> Seq(Threads)]
          /\ \A y \in Locks : y # x => owner'[y] = owner[y] /\ waitq'[y] = waitq[y]
          /\ NoDuplicates(waitq'[x])
        BY <1>1, <2>1, <2>2, UnlockStep
    <2> QED BY <2>2, <2>3, <2>4 DEF HandsOver
<1>4. \A u \in Threads : \/ state'[u] = state[u]
                         \/ /\ state[u] = "BLOCKED" /\ state'[u] = "RUNNABEL" /\ hpc[u] = "none"
                            /\ pc[u] = "read" /\ owner'[x] = u /\ u # t
    <2>1. \A u \in Threads : InQueue(waitq[x], u) => pc[u] = "read" /\ hpc[u] = "none" /\ state[u] = "BLOCKED"
        BY DEF ReadLockInv
    <2> QED BY <1>1, <1>3, <2>1
<1>5. Types'
    BY <1>1, <1>2, <1>3 DEF Types, TypeOK
<1>6. ReadLockInv'
    <2>1. CASE waitq[x] = <<>> /\ waitq'[x] = <<>> /\ owner'[x] = NULL /\ state' = state
        <3>1. \A u : ~ InQueue(waitq[x], u)
            BY <2>1 DEF InQueue
        <3>2. \A u : ~ InQueue(waitq'[x], u)
            BY <2>1 DEF InQueue
        <3> QED BY <1>1, <1>2, <1>3, <2>1, <3>1, <3>2 DEF ReadLockInv
    <2>2. CASE \E h \in Threads :
               /\ InQueue(waitq[x], h) /\ owner'[x] = h
               /\ \A y : InQueue(waitq'[x], y) <=> InQueue(waitq[x], y) /\ y # h
               /\ \A u \in Threads : state'[u] = IF u = h THEN "RUNNABEL" ELSE state[u]
        <3>1. PICK h \in Threads :
               /\ InQueue(waitq[x], h) /\ owner'[x] = h
               /\ \A y : InQueue(waitq'[x], y) <=> InQueue(waitq[x], y) /\ y # h
               /\ \A u \in Threads : state'[u] = IF u = h THEN "RUNNABEL" ELSE state[u]
            BY <2>2
        <3>2. pc[h] = "read" /\ h # t /\ ~ InQueue(waitq[x], t) /\ h # NULL
            BY <1>1, <3>1 DEF ReadLockInv
        <3>3. /\ \A u \in Threads : InQueue(waitq[x], u) =>
                    pc[u] = "read" /\ hpc[u] = "none" /\ state[u] = "BLOCKED"
              /\ \A u \in Threads : pc[u] = "read" => InQueue(waitq[x], u)
              /\ \A u \in Threads : pc[u] \notin {"out", "read"} => u = t
            BY <1>1 DEF ReadLockInv
        <3>4. \A u \in Threads : InQueue(waitq'[x], u) =>
                  pc'[u] = "read" /\ hpc'[u] = "none" /\ state'[u] = "BLOCKED" /\ owner'[x] # u
            BY <1>2, <3>1, <3>2, <3>3
        <3>5. \A u \in Threads : pc'[u] = "read" => owner'[x] = u \/ InQueue(waitq'[x], u)
            BY <1>2, <3>1, <3>3
        <3>6. \A u \in Threads : pc'[u] \in {"out", "read"}
            BY <1>2, <3>3
        <3>7. \A u \in Threads : owner'[x] = u => pc'[u] # "out"
            BY <1>2, <3>1, <3>2
        <3> QED BY <1>3, <3>1, <3>2, <3>4, <3>5, <3>6, <3>7 DEF ReadLockInv
    <2> QED BY <1>3, <2>1, <2>2
<1>7. WriteLockInv'
    <2>1. \A u \in Threads : InQueue(waitq["writelock"], u) => u # t /\ state'[u] = state[u]
        <3>1. \A u \in Threads : InQueue(waitq["writelock"], u) => hpc[u] = "write"
            BY DEF WriteLockInv
        <3> QED BY <1>1, <1>4, <3>1
    <2>2. \A u \in Threads : InQueue(waitq["writelock"], u) => state'[u] = "BLOCKED" \/ Stray(u)'
        BY <1>2, <2>1, WaitersSleep
    <2> QED BY <1>2, <1>3, <2>2, WriteLockSame
<1>8. HandlerInv' /\ ReaderFindsChar'
    <2>1. \A u \in Threads : hpc'[u] \in {"write_lock", "write_wake", "write_unlock"} => state'[u] = "RUNNING"
        <3>1. \A u \in Threads : hpc[u] # "none" => state'[u] = state[u]
            BY <1>4
        <3> QED BY <1>2, <3>1 DEF HandlerInv
    <2>2. \A u \in Threads : pc'[u] = "read_block" /\ hpc'[u] = "none" => state'[u] \in {"RUNNABEL", "RUNNING"}
        <3>1. \A u \in Threads : pc'[u] = "read_block" => pc[u] = "read_block" /\ state'[u] = state[u]
            BY <1>2, <1>4
        <3> QED BY <1>2, <3>1 DEF HandlerInv
    <2> QED BY <1>1, <1>2, <2>1, <2>2 DEF HandlerInv, ReaderFindsChar
<1>9. SleepInv'
    <2>1. \A u \in Threads : pc[u] \in {"read_block", "read_take"} \/ pc'[u] \in {"read_block", "read_take"} =>
              pc'[u] = pc[u] /\ state'[u] = state[u]
        BY <1>1, <1>2, <1>4
    <2>2. \A u \in Threads : hpc[u] = "write_put" => state'[u] = state[u]
        BY <1>4
    <2> QED BY <1>2, <1>3, <2>1, <2>2, SleepSame
<1>10. OrderInv'
    BY <1>1, <1>2, <1>3, SameOrder
<1>k. WakeInv'
    <2>1. wake = NULL /\ \A u \in Threads : pc[u] \notin Waking
        BY <1>1, ReaderAlone DEF Waking
    <2>2. wake' = NULL /\ \A u \in Threads : pc'[u] \notin Waking
        BY <1>2, <2>1 DEF Waking
    <2> QED BY <2>2, WakeNone
<1> QED BY <1>3, <1>5, <1>6, <1>7, <1>8, <1>9, <1>10, <1>k

-----------------------------------------------------------------------------
(***************************************************************************)
(* com_intr and buf_write                                                  *)
(***************************************************************************)

LEMMA com_intrInv ==
    ASSUME Inv, NEW t \in Threads, com_intr(t) PROVE Inv'
<1> USE DEF Inv
<1>1. /\ state[t] = "RUNNING" /\ hpc[t] = "none" /\ arrived < MaxChars /\ arrived' = arrived + 1
      /\ UNCHANGED <<schedVars, mutexesVars, bufVars, failed, pc>>
    BY DEF com_intr, Hgoto
<1>2. /\ UNCHANGED <<owner, waitq, cache, b, e, freesz, rblkt, wblkt, got, wake, state>>
      /\ \A u \in Threads : hpc'[u] = IF u = t THEN "write_lock" ELSE hpc[u]
      /\ hpc' \in [Threads -> WriteLabels]
    BY <1>1 DEF com_intr, mutexesVars, bufVars, schedVars, Hgoto, Types, WriteLabels
<1>3. /\ \A u \in Threads : char'[u] = IF u = t THEN arrived + 1 ELSE char[u]
      /\ char' \in [Threads -> 0 .. MaxChars] /\ arrived' \in 0 .. MaxChars
    <2>1. /\ char' = [char EXCEPT ![t] = arrived + 1] /\ char \in [Threads -> 0 .. MaxChars]
          /\ arrived \in 0 .. MaxChars /\ arrived < MaxChars /\ arrived' = arrived + 1
        BY <1>1 DEF com_intr, Types
    <2>2. arrived + 1 \in 0 .. MaxChars
        BY <2>1
    <2> QED BY Zenon, <2>1, <2>2
<1>4. SchedInv'
    BY <1>1, SchedStutterInv
<1>5. Types'
    BY Zenon, <1>1, <1>2, <1>3 DEF Types, TypeOK
<1>6. ReadLockInv'
    <2>1. ~ InQueue(waitq["readlock"], t)
        BY <1>1 DEF ReadLockInv
    <2> QED BY <1>1, <1>2, <2>1, ReadLockKept
<1>7. WriteLockInv'
    <2>1. \A u \in Threads : InQueue(waitq["writelock"], u) => state'[u] = "BLOCKED" \/ Stray(u)'
        BY <1>1, <1>2, WaitersSleep
    <2> QED BY <1>1, <1>2, <2>1, WriteLockSame
<1>8. HandlerInv' /\ ReaderFindsChar'
    BY <1>1, <1>2 DEF HandlerInv, ReaderFindsChar
<1>9. SleepInv'
    BY <1>1, <1>2 DEF SleepInv, Types, TypeOK
<1>10. OrderInv'
    <2>1. \A u \in Threads : hpc[u] # "write_lock"
        BY <1>1, OneRunning DEF HandlerInv
    <2>2. Reading' = Reading /\ Writing' = Writing /\ Arriving = 0 /\ Arriving' = 1
        BY <1>1, <1>2, <2>1 DEF Reading, Writing, Arriving
    <2>3. Used' = Used
        BY <1>2, <2>2 DEF Used
    <2>4. \A i : Place(i)' = Place(i)
        BY <1>2 DEF Place
    <2>5. Used \in Int /\ Writing \in Int /\ Len(waitq["writelock"]) \in Int
        BY CountTypes DEF OrderInv, Types
    <2> HIDE DEF Place, Used, Writing, Arriving, Reading
    <2>6. \A i \in 1 .. Len(waitq["writelock"]) :
              waitq["writelock"][i] \in Threads /\ waitq["writelock"][i] # t
        <3>1. waitq["writelock"] \in Seq(Threads)
            BY DEF Types
        <3>2. ~ InQueue(waitq["writelock"], t)
            BY <1>1 DEF WriteLockInv
        <3> QED BY <3>1, <3>2 DEF InQueue
    <2>7. \A i \in 1 .. Len(waitq'["writelock"]) :
              char'[waitq'["writelock"][i]] = got' + Used' + Writing' + i
        BY <1>2, <1>3, <2>2, <2>3, <2>6 DEF OrderInv
    <2>8. arrived' = got' + Used' + Writing' + Len(waitq'["writelock"]) + Arriving'
        <3>1. arrived = got + Used + Writing + Len(waitq["writelock"]) + Arriving /\ got \in Int
            BY DEF OrderInv, Types
        <3>2. arrived' = arrived + 1 /\ got' = got /\ waitq' = waitq
            BY <1>1, <1>2
        <3>3. got + Used + Writing + Len(waitq["writelock"]) + 0 + 1
                = got + Used + Writing + Len(waitq["writelock"]) + 1
            BY <2>5, <3>1
        <3> QED BY Zenon, <2>2, <2>3, <3>1, <3>2, <3>3
    <2>9. \A u \in Threads : hpc'[u] = "write_lock" => char'[u] = arrived'
        BY <1>1, <1>2, <1>3, <2>1
    <2>10. \A u \in Threads : owner'["writelock"] = u /\ hpc'[u] \in {"write", "write_put"} =>
              char'[u] = got' + Used' + 1
        BY <1>1, <1>2, <1>3, <2>3 DEF OrderInv
    <2> QED BY <1>2, <2>3, <2>4, <2>7, <2>8, <2>9, <2>10 DEF OrderInv
<1>k. WakeInv'
    BY <1>1, <1>2, WakeSame
<1> QED BY <1>4, <1>5, <1>6, <1>7, <1>8, <1>9, <1>10, <1>k

LEMMA write_lockInv ==
    ASSUME Inv, NEW t \in Threads, write_lock(t) PROVE Inv'
<1> USE DEF Inv
<1> DEFINE q == waitq["writelock"]
<1>1. /\ state[t] = "RUNNING" /\ hpc[t] = "write_lock" /\ mutex_lock(t, "writelock")
      /\ UNCHANGED <<bufVars, lineVars, failed, pc>>
      /\ \A u \in Threads : hpc'[u] = IF u = t THEN "write" ELSE hpc[u]
      /\ hpc' \in [Threads -> WriteLabels]
    BY DEF write_lock, In, Hgoto, Types, WriteLabels
<1>2. UNCHANGED <<cache, b, e, freesz, rblkt, wblkt, got, wake, arrived, char>>
    BY <1>1 DEF bufVars, lineVars
<1>3. SchedInv' /\ \A u \in Threads : state'[u] = state[u] \/ (u = t /\ state'[u] = "BLOCKED")
    BY <1>1, LockStep
<1>4. owner["writelock"] # t /\ ~ InQueue(q, t)
    BY <1>1 DEF WriteLockInv
<1>5. \/ /\ owner["writelock"] = NULL /\ owner' = [owner EXCEPT !["writelock"] = t]
         /\ waitq' = waitq
      \/ /\ owner["writelock"] # NULL /\ owner' = owner
         /\ waitq' = [waitq EXCEPT !["writelock"] = Append(q, t)]
         /\ state'[t] = "BLOCKED"
    BY <1>1, LockStep
<1>6. /\ Append(q, t) \in Seq(Threads) /\ NoDuplicates(Append(q, t))
      /\ \A y : InQueue(Append(q, t), y) <=> InQueue(q, y) \/ y = t
    <2>1. q \in Seq(Threads) /\ NoDuplicates(q)
        BY DEF Types, WriteLockInv
    <2> HIDE DEF q
    <2> QED BY <1>4, <2>1, QueueAppend
<1>7. owner \in [Locks -> Threads \cup {NULL}] /\ waitq \in [Locks -> Seq(Threads)] /\ q \in Seq(Threads)
    BY DEF Types
<1>8. owner' \in [Locks -> Threads \cup {NULL}] /\ waitq' \in [Locks -> Seq(Threads)]
    <2> HIDE DEF q
    <2> QED BY Zenon, <1>5, <1>6, <1>7
<1>9. Types'
    BY Zenon, <1>1, <1>2, <1>8 DEF Types, TypeOK
<1>10. owner'["readlock"] = owner["readlock"] /\ waitq'["readlock"] = waitq["readlock"]
    BY <1>5 DEF Types
<1>11. ReadLockInv'
    <2>1. ~ InQueue(waitq["readlock"], t)
        BY <1>1 DEF ReadLockInv
    <2> QED BY <1>1, <1>3, <1>10, <2>1, ReadLockKept
<1>12. HandlerInv' /\ ReaderFindsChar'
    BY <1>1, <1>2, <1>3 DEF HandlerInv, ReaderFindsChar
<1>o. \A u \in Threads : hpc[u] = "write_lock" => u = t
    BY <1>1, OneRunning DEF HandlerInv
<1>m. /\ Reading' = Reading /\ Arriving = 1 /\ Arriving' = 0 /\ Used' = Used /\ \A i : Place(i)' = Place(i)
      /\ char[t] = arrived
    <2>1. Reading' = Reading /\ Arriving = 1 /\ Arriving' = 0
        BY <1>1, <1>o DEF Reading, Arriving
    <2>2. char[t] = arrived
        BY <1>1 DEF OrderInv
    <2> QED BY <1>1, <1>2, <2>1, <2>2 DEF Used, Place
<1>n. Used \in Int /\ Writing \in Int /\ got \in Int
    BY CountTypes DEF OrderInv, Types
<1>w. SleepInv'
    <2>1. /\ rblkt # NULL => rblkt \in Threads
          /\ wblkt # NULL => wblkt \in Threads
        BY DEF Types, TypeOK
    <2>2. pc[t] = "read_block" => rblkt = t
        BY <1>4 DEF SleepInv
    <2>3. \A u \in Threads : u # t => (InQueue(waitq'["writelock"], u) <=> InQueue(q, u))
        BY Zenon, <1>5, <1>6, <1>7
    <2>4. \A u \in Threads : pc'[u] = pc[u]
        BY <1>1
    <2>5. rblkt' # NULL => \/ pc'[rblkt'] = "read_block"
                           \/ pc'[rblkt'] = "read_take" /\ state'[rblkt'] = "BLOCKED" /\ hpc'[rblkt'] = "none"
        BY <1>1, <1>2, <1>3, <2>1 DEF SleepInv
    <2>6. wblkt' # NULL => hpc'[wblkt'] = "write_put" /\ state'[wblkt'] = "BLOCKED"
        BY <1>1, <1>2, <1>3, <2>1 DEF SleepInv
    <2>7. \A u \in Threads : pc'[u] = "read_block" =>
              rblkt' = u \/ (InQueue(waitq'["writelock"], u) /\ state'[u] # "BLOCKED")
        BY <1>2, <1>3, <2>2, <2>3, <2>4 DEF SleepInv
    <2>8. \A u \in Threads : hpc'[u] = "write_put" /\ state'[u] = "BLOCKED" => wblkt' = u \/ wake' = u
        BY <1>1, <1>2, <1>3 DEF SleepInv
    <2>9. \A u \in Threads : pc'[u] = "read_take" =>
              freesz' < Size \/ (state'[u] = "BLOCKED" /\ hpc'[u] = "none" /\ rblkt' = u)
        BY <1>1, <1>2, <1>3, <2>4 DEF SleepInv
    <2>10. \A u \in Threads : state'[u] = "BLOCKED" /\ pc'[u] = "read_take" /\ hpc'[u] = "none" => rblkt' = u
        BY <1>1, <1>2, <1>3, <2>4 DEF SleepInv
    <2> QED BY <2>5, <2>6, <2>7, <2>8, <2>9, <2>10 DEF SleepInv
<1>k. WakeInv'
    <2>1. \A u \in Threads : u # t => hpc'[u] = hpc[u] /\ state'[u] = state[u]
        BY <1>1, <1>3
    <2> QED BY <1>1, <1>2, <2>1, WakeSame
<1> HIDE DEF Used, Place, Writing, Arriving, Reading
<1>13. CASE owner["writelock"] = NULL
    <2>1. q = <<>> /\ waitq' = waitq /\ owner'["writelock"] = t
        BY <1>5, <1>7, <1>13 DEF WriteLockInv
    <2>2. \A u : ~ InQueue(q, u)
        BY <2>1 DEF InQueue
    <2>3. \A u \in Threads : hpc[u] \notin {"write", "write_put", "write_wake", "write_unlock"}
        BY <1>13, <2>2 DEF WriteLockInv
    <2>4. WriteLockInv'
        <3>1. waitq'["writelock"] = <<>> /\ NoDuplicates(waitq'["writelock"])
              /\ \A u : ~ InQueue(waitq'["writelock"], u)
            BY <2>1, <2>2 DEF WriteLockInv
        <3> QED BY <1>1, <2>1, <2>3, <3>1 DEF WriteLockInv
    <2>5. Writing = 0 /\ Writing' = 1
        BY <1>1, <1>13, <2>1 DEF Writing
    <2>6. Len(waitq["writelock"]) = 0 /\ waitq'["writelock"] = waitq["writelock"]
        BY <2>1
    <2>7. arrived = got + Used + 1
        BY <1>m, <1>n, <2>5, <2>6 DEF OrderInv
    <2>8. \A u \in Threads : owner'["writelock"] = u /\ hpc'[u] \in {"write", "write_put"} =>
              char'[u] = got' + Used' + 1
        BY <1>2, <1>m, <2>1, <2>7
    <2>9. arrived' = got' + Used' + Writing' + Len(waitq'["writelock"]) + Arriving'
        <3>1. /\ arrived' = got + Used + 1 /\ got' = got /\ Used' = Used /\ Writing' = 1 /\ Arriving' = 0
              /\ Len(waitq'["writelock"]) = 0
            BY <1>2, <1>m, <2>5, <2>6, <2>7
        <3> QED BY <1>n, <3>1
    <2>10. /\ \A i \in 1 .. Len(waitq'["writelock"]) :
                 char'[waitq'["writelock"][i]] = got' + Used' + Writing' + i
           /\ \A u \in Threads : hpc'[u] = "write_lock" => char'[u] = arrived'
        BY <1>1, <1>o, <2>6
    <2>11. OrderInv'
        BY <1>2, <1>m, <2>8, <2>9, <2>10 DEF OrderInv
    <2> QED BY <1>3, <1>9, <1>11, <1>12, <1>w, <1>k, <2>4, <2>11
<1>14. CASE owner["writelock"] # NULL
    <2>1. /\ waitq'["writelock"] = Append(q, t) /\ owner' = owner /\ state'[t] = "BLOCKED"
        BY <1>5, <1>7, <1>14
    <2>2. WriteLockInv'
        <3>1. /\ owner["writelock"] # NULL
              /\ \A u \in Threads : InQueue(q, u) =>
                    hpc[u] = "write" /\ owner["writelock"] # u /\ (state[u] = "BLOCKED" \/ Stray(u))
              /\ \A u \in Threads : hpc[u] = "write" => owner["writelock"] = u \/ InQueue(q, u)
              /\ \A u \in Threads : hpc[u] \in {"write_put", "write_wake", "write_unlock"} =>
                    owner["writelock"] = u
              /\ \A u \in Threads : owner["writelock"] = u =>
                    hpc[u] \in {"write", "write_put", "write_wake", "write_unlock"}
            BY <1>14 DEF WriteLockInv
        <3> DEFINE r == Append(q, t)
        <3>2. /\ waitq'["writelock"] = r /\ NoDuplicates(r)
              /\ \A y : InQueue(r, y) <=> InQueue(q, y) \/ y = t
            BY <1>6, <2>1
        <3> HIDE DEF q, r
        <3>3. ASSUME NEW u \in Threads, InQueue(q, u)
              PROVE  u # t /\ (state'[u] = "BLOCKED" \/ Stray(u)')
            <4>1. u # t
                BY <1>4, <3>3
            <4>2. state'[u] = state[u] /\ pc' = pc /\ rblkt' = rblkt
                BY <1>1, <1>2, <1>3, <4>1
            <4>3. state[u] = "BLOCKED" \/ Stray(u)
                BY <3>1, <3>3
            <4> QED BY <4>1, <4>2, <4>3 DEF Stray
        <3>4. \A u \in Threads : InQueue(r, u) =>
                  hpc'[u] = "write" /\ owner'["writelock"] # u /\ (state'[u] = "BLOCKED" \/ Stray(u)')
            BY <1>1, <1>4, <2>1, <3>1, <3>2, <3>3
        <3>5. \A u \in Threads : hpc'[u] = "write" => owner'["writelock"] = u \/ InQueue(r, u)
            BY <1>1, <2>1, <3>1, <3>2
        <3>6. /\ \A u \in Threads : hpc'[u] \in {"write_put", "write_wake", "write_unlock"} =>
                    owner'["writelock"] = u
              /\ \A u \in Threads : owner'["writelock"] = u =>
                    hpc'[u] \in {"write", "write_put", "write_wake", "write_unlock"}
            BY <1>1, <1>4, <2>1, <3>1
        <3> QED BY <2>1, <3>1, <3>2, <3>4, <3>5, <3>6 DEF WriteLockInv
    <2>3. Writing' = Writing
        BY <1>1, <1>4, <2>1 DEF Writing
    <2>4. /\ Len(q) \in Nat /\ Len(waitq'["writelock"]) = Len(q) + 1
          /\ \A i \in 1 .. Len(q) : waitq'["writelock"][i] = q[i]
          /\ waitq'["writelock"][Len(q) + 1] = t
        <3> HIDE DEF q
        <3> QED BY <1>7, <2>1
    <2>5. arrived = got + Used + Writing + Len(q) + 1
        BY <1>m DEF OrderInv
    <2>6. arrived' = got' + Used' + Writing' + Len(waitq'["writelock"]) + Arriving'
        <3> HIDE DEF q
        <3> QED BY <1>2, <1>m, <1>n, <2>3, <2>4, <2>5
    <2>7. \A i \in 1 .. Len(waitq'["writelock"]) :
              char'[waitq'["writelock"][i]] = got' + Used' + Writing' + i
        <3> SUFFICES ASSUME NEW i \in 1 .. Len(waitq'["writelock"])
                     PROVE  char[waitq'["writelock"][i]] = got + Used + Writing + i
            BY <1>2, <1>m, <2>3
        <3>1. CASE i \in 1 .. Len(q)
            BY <2>4, <3>1 DEF OrderInv
        <3>2. CASE i = Len(q) + 1
            <4> HIDE DEF q
            <4>1. char[waitq'["writelock"][i]] = arrived
                BY Zenon, <1>m, <1>n, <2>4, <3>2
            <4>2. arrived = got + Used + Writing + i
                <5>1. Len(q) \in Nat
                    BY <2>4
                <5>2. got \in Int /\ Used \in Int /\ Writing \in Int /\ Len(q) \in Int
                    BY <5>1, CountTypes DEF OrderInv, Types
                <5>3. got + Used + Writing + Len(q) + 1 = got + Used + Writing + (Len(q) + 1)
                    BY <5>2, Regroup
                <5> QED BY Zenon, <2>5, <3>2, <5>3
            <4> QED BY <4>1, <4>2
        <3> QED BY <2>4, <3>1, <3>2
    <2>8. /\ \A u \in Threads : hpc'[u] = "write_lock" => char'[u] = arrived'
          /\ \A u \in Threads : owner'["writelock"] = u /\ hpc'[u] \in {"write", "write_put"} =>
                char'[u] = got' + Used' + 1
        BY <1>1, <1>2, <1>4, <1>o, <1>m, <2>1 DEF OrderInv
    <2>9. OrderInv'
        BY <1>2, <1>m, <2>6, <2>7, <2>8 DEF OrderInv
    <2> QED BY <1>3, <1>9, <1>11, <1>12, <1>w, <1>k, <2>2, <2>9
<1> QED BY <1>13, <1>14

LEMMA write_checkInv ==
    ASSUME Inv, NEW t \in Threads, write_check(t) PROVE Inv'
<1> USE DEF Inv
<1>a. CASE Fail("mutex")
    BY <1>a, FailInv
<1>b. CASE ~ Fail("mutex")
    <2>1. /\ state[t] = "RUNNING" /\ hpc[t] = "write" /\ owner["writelock"] = t
          /\ wblkt' = (IF freesz = 0 THEN t ELSE wblkt)
          /\ IF freesz = 0 THEN schd_block(t) ELSE UNCHANGED schedVars
          /\ UNCHANGED <<mutexesVars, cache, b, e, freesz, rblkt, got, wake, lineVars, failed, pc>>
          /\ Hgoto(t, "write_put")
        BY <1>b DEF write_check, In, Hgoto
    <2>2. /\ UNCHANGED <<owner, waitq, arrived, char>>
          /\ \A u \in Threads : hpc'[u] = IF u = t THEN "write_put" ELSE hpc[u]
          /\ hpc' \in [Threads -> WriteLabels]
        BY <2>1 DEF mutexesVars, lineVars, Hgoto, Types, WriteLabels
    <2>3. SchedInv' /\ \A u \in Threads : state'[u] = IF u = t /\ freesz = 0 THEN "BLOCKED" ELSE state[u]
        <3>1. CASE freesz = 0
            BY <2>1, <3>1, BlockStates DEF schd_block
        <3>2. CASE freesz # 0
            BY <2>1, <3>2, SameStates
        <3> QED BY <3>1, <3>2
    <2>4. Types'
        BY <2>1, <2>2 DEF Types, TypeOK
    <2>5. ReadLockInv'
        <3>1. \A u \in Threads : InQueue(waitq["readlock"], u) => u # t
            BY <2>1 DEF ReadLockInv
        <3> QED BY <2>1, <2>2, <2>3, <3>1, ReadLockKept
    <2>6. WriteLockInv'
        <3>1. \A u \in Threads : InQueue(waitq["writelock"], u) => u # t
            BY <2>1 DEF WriteLockInv
        <3>2. \A u \in Threads : InQueue(waitq["writelock"], u) => state'[u] = "BLOCKED" \/ Stray(u)'
            BY <2>1, <2>3, <3>1, WaitersSleep
        <3> QED BY <2>1, <2>2, <3>2, WriteLockKept
    <2>7. HandlerInv' /\ ReaderFindsChar'
        BY <2>1, <2>2, <2>3 DEF HandlerInv, ReaderFindsChar
    <2>8. SleepInv'
        <3>1. rblkt # NULL => rblkt \in Threads
            BY DEF Types, TypeOK
        <3>2. wblkt = NULL /\ \A u \in Threads : hpc[u] # "write_put"
            BY <2>1 DEF WriteLockInv, SleepInv, Types, TypeOK
        <3>3. pc[t] = "read_block" => rblkt = t
            BY <2>1 DEF SleepInv, WriteLockInv
        <3>4. wblkt' # NULL => hpc'[wblkt'] = "write_put" /\ state'[wblkt'] = "BLOCKED"
            BY <2>1, <2>2, <2>3, <3>2
        <3>5. \A u \in Threads : hpc'[u] = "write_put" /\ state'[u] = "BLOCKED" => wblkt' = u
            BY <2>1, <2>2, <2>3, <3>2
        <3>6. rblkt' # NULL => \/ pc'[rblkt'] = "read_block"
                               \/ /\ pc'[rblkt'] = "read_take" /\ state'[rblkt'] = "BLOCKED"
                                  /\ hpc'[rblkt'] = "none"
            BY <2>1, <2>2, <2>3, <3>1 DEF SleepInv
        <3>7. \A u \in Threads : pc'[u] = "read_block" =>
                  rblkt' = u \/ (InQueue(waitq'["writelock"], u) /\ state'[u] # "BLOCKED")
            <4>1. pc' = pc /\ rblkt' = rblkt /\ waitq' = waitq
                BY <2>1, <2>2
            <4>2. \A u \in Threads : pc[u] = "read_block" =>
                      rblkt = u \/ (InQueue(waitq["writelock"], u) /\ state[u] # "BLOCKED")
                BY DEF SleepInv
            <4> QED BY <2>3, <3>3, <4>1, <4>2
        <3>8. \A u \in Threads : pc'[u] = "read_take" =>
                  freesz' < Size \/ (state'[u] = "BLOCKED" /\ hpc'[u] = "none" /\ rblkt' = u)
            BY <2>1, <2>2, <2>3 DEF SleepInv
        <3>9. \A u \in Threads : state'[u] = "BLOCKED" /\ pc'[u] = "read_take" /\ hpc'[u] = "none" => rblkt' = u
            BY <2>1, <2>2, <2>3 DEF SleepInv
        <3> QED BY <3>4, <3>5, <3>6, <3>7, <3>8, <3>9 DEF SleepInv
    <2>9. OrderInv'
        BY <2>1, <2>2, SameOrder
    <2>k. WakeInv'
        <3>1. wake = NULL /\ \A u \in Threads : pc[u] \notin Waking
            BY <2>1, WriterAlone
        <3> QED BY <2>1, <2>2, <3>1, WakeNone
    <2> QED BY <2>3, <2>4, <2>5, <2>6, <2>7, <2>8, <2>9, <2>k
<1> QED BY <1>a, <1>b

LEMMA write_putInv ==
    ASSUME Inv, NEW t \in Threads, write_put(t) PROVE Inv'
<1> USE DEF Inv
<1>a. CASE Fail("write_assert")
    BY <1>a, FailInv
<1>b. CASE ~ Fail("write_assert")
    <2>1. /\ state[t] = "RUNNING" /\ hpc[t] = "write_put" /\ owner["writelock"] = t
          /\ freesz > 0 /\ freesz' = freesz - 1 /\ e' = (e + 1) % Size
          /\ cache' = [cache EXCEPT ![e] = char[t]]
          /\ UNCHANGED <<schedVars, mutexesVars, b, rblkt, wblkt, got, wake, lineVars, failed, pc>>
          /\ Hgoto(t, "write_wake")
        BY <1>b DEF write_put, Put, In, Hgoto, WriteLockInv
    <2>2. /\ UNCHANGED <<owner, waitq, arrived, char, state>>
          /\ \A u \in Threads : hpc'[u] = IF u = t THEN "write_wake" ELSE hpc[u]
          /\ hpc' \in [Threads -> WriteLabels]
        BY <2>1 DEF mutexesVars, lineVars, schedVars, Hgoto, Types, WriteLabels
    <2>3. SchedInv'
        BY <2>1, SchedStutterInv
    <2>e. /\ e' = (IF e + 1 = Size THEN 0 ELSE e + 1) /\ e \in 0 .. Size - 1 /\ e' \in 0 .. Size - 1
          /\ b \in 0 .. Size - 1
        <3>1. e \in 0 .. Size - 1 /\ b \in 0 .. Size - 1
            BY DEF Types, TypeOK
        <3>2. e' = (e + 1) % Size
            BY <2>1
        <3> QED BY <3>1, <3>2, NextPlace
    <2>c. cache' \in [0 .. Size - 1 -> 0 .. MaxChars]
        <3>1. cache \in [0 .. Size - 1 -> 0 .. MaxChars] /\ char[t] \in 0 .. MaxChars
            BY DEF Types, TypeOK
        <3> QED BY Zenon, <2>1, <3>1
    <2>f. freesz' \in 0 .. Size - 1 /\ freesz \in 1 .. Size /\ freesz' < Size /\ freesz' \in 0 .. Size
        <3>1. freesz \in 0 .. Size /\ freesz > 0 /\ freesz' = freesz - 1
            BY <2>1 DEF Types, TypeOK
        <3> QED BY <3>1
    <2>4. Types'
        BY Zenon, <2>1, <2>2, <2>e, <2>c, <2>f DEF Types, TypeOK
    <2>5. ReadLockInv'
        <3>1. \A u \in Threads : InQueue(waitq["readlock"], u) => u # t
            BY <2>1 DEF ReadLockInv
        <3> QED BY <2>1, <2>2, <3>1, ReadLockKept
    <2>6. WriteLockInv'
        <3>1. \A u \in Threads : InQueue(waitq["writelock"], u) => state'[u] = "BLOCKED" \/ Stray(u)'
            BY <2>1, <2>2, WaitersSleep
        <3> QED BY <2>1, <2>2, <3>1, WriteLockKept
    <2>7. HandlerInv' /\ ReaderFindsChar'
        BY <2>1, <2>2, <2>f DEF HandlerInv, ReaderFindsChar
    <2>8. SleepInv'
        <3>1. /\ pc' = pc /\ rblkt' = rblkt /\ wblkt' = wblkt /\ wake' = wake /\ waitq' = waitq
              /\ state' = state
              /\ freesz' < Size
            BY <2>1, <2>2, <2>f
        <3>2. /\ rblkt # NULL => rblkt \in Threads
              /\ wblkt # NULL => wblkt \in Threads
            BY DEF Types, TypeOK
        <3>3. wblkt # NULL => hpc'[wblkt] = "write_put" /\ state[wblkt] = "BLOCKED"
            BY <2>1, <2>2, <3>2 DEF SleepInv
        <3>4. rblkt # NULL => \/ pc[rblkt] = "read_block"
                              \/ pc[rblkt] = "read_take" /\ state[rblkt] = "BLOCKED" /\ hpc'[rblkt] = "none"
            BY <2>1, <2>2, <3>2 DEF SleepInv
        <3>5. \A u \in Threads : hpc'[u] = "write_put" /\ state[u] = "BLOCKED" => wblkt = u \/ wake = u
            BY <2>2 DEF SleepInv
        <3>6. \A u \in Threads : state[u] = "BLOCKED" /\ pc[u] = "read_take" /\ hpc'[u] = "none" => rblkt = u
            BY <2>1, <2>2 DEF SleepInv
        <3>7. \A u \in Threads : pc[u] = "read_block" =>
                  rblkt = u \/ (InQueue(waitq["writelock"], u) /\ state[u] # "BLOCKED")
            BY DEF SleepInv
        <3> QED BY <3>1, <3>3, <3>4, <3>5, <3>6, <3>7 DEF SleepInv
    <2>9. Reading' = Reading /\ Writing = 1 /\ Writing' = 0 /\ Arriving' = Arriving /\ Arriving \in {0, 1}
        BY <2>1, <2>2 DEF Reading, Writing, Arriving
    <2>10. Used' = Used + 1 /\ Used \in 0 .. Size - 1 /\ got \in Nat
        <3>1. Used = Size - freesz - Reading /\ Used' = Size - freesz' - Reading'
            BY DEF Used
        <3> HIDE DEF Used, Reading, Place
        <3>2. Used \in 0 .. Size /\ got \in Nat
            BY DEF OrderInv, Types
        <3>3. /\ freesz' = freesz - 1 /\ freesz \in 1 .. Size
              /\ Reading' = Reading /\ Reading \in {0, 1}
            BY <2>1, <2>9, <2>f, CountTypes
        <3> QED BY <3>1, <3>2, <3>3
    <2>11. \A i : Place(i)' = Place(i)
        BY <2>1 DEF Place
    <2>12. e = Place(Used) /\ \A i \in 0 .. Used - 1 : cache[Place(i)] = got + 1 + i
        BY DEF OrderInv
    <2> HIDE DEF Used, Reading, Writing, Arriving
    <2>13. e' = Place(Used)'
        <3>1. Place(Used)' = Place(Used + 1)
            BY <2>1, <2>10 DEF Place
        <3> QED BY <2>e, <2>10, <2>12, <3>1 DEF Place
    <2>14. \A i \in 0 .. Used - 1 : Place(i) # e /\ Place(i) \in 0 .. Size - 1
        <3> SUFFICES ASSUME NEW i \in 0 .. Used - 1 PROVE Place(i) # e /\ Place(i) \in 0 .. Size - 1
            OBVIOUS
        <3>1. i \in Nat /\ i < Used /\ Used \in Nat /\ Used < Size /\ b \in Nat /\ b < Size
            BY <2>e, <2>10
        <3>2. Place(i) # Place(Used)
            BY <3>1 DEF Place
        <3>3. Place(i) \in 0 .. Size - 1
            BY <3>1 DEF Place
        <3> QED BY <2>12, <3>2, <3>3
    <2> HIDE DEF Place
    <2>15. \A i \in 0 .. Used' - 1 : cache'[Place(i)'] = got' + 1 + i
        <3> SUFFICES ASSUME NEW i \in 0 .. Used' - 1 PROVE cache'[Place(i)] = got + 1 + i
            BY <2>1, <2>11
        <3>1. CASE i \in 0 .. Used - 1
            BY <2>1, <2>12, <2>14, <3>1 DEF Types, TypeOK
        <3>2. CASE i = Used
            <4>1. char[t] = got + Used + 1
                BY <2>1 DEF OrderInv
            <4>2. cache'[e] = char[t]
                BY <2>1, <2>e DEF Types, TypeOK
            <4> QED BY <2>10, <2>12, <3>2, <4>1, <4>2
        <3> QED BY <2>10, <3>1, <3>2
    <2>16. /\ \A u \in Threads : ~ (owner'["writelock"] = u /\ hpc'[u] \in {"write", "write_put"})
           /\ \A u \in Threads : hpc'[u] = "write_lock" => char'[u] = arrived'
        BY <2>1, <2>2 DEF OrderInv
    <2>17. /\ Len(waitq["writelock"]) \in Nat
           /\ got' + Used' + Writing' = got + Used + Writing
        BY <2>1, <2>9, <2>10 DEF Types
    <2>18. /\ \A i \in 1 .. Len(waitq'["writelock"]) :
                  char'[waitq'["writelock"][i]] = got' + Used' + Writing' + i
           /\ arrived' = got' + Used' + Writing' + Len(waitq'["writelock"]) + Arriving'
        BY <2>2, <2>9, <2>17 DEF OrderInv
    <2>19. OrderInv'
        <3>1. Used' \in 0 .. Size
            BY <2>10
        <3> QED BY Zenon, <2>13, <2>15, <2>16, <2>18, <3>1 DEF OrderInv
    <2>k. WakeInv'
        <3>1. wake = NULL /\ \A u \in Threads : pc[u] \notin Waking
            BY <2>1, WriterAlone
        <3> QED BY <2>1, <2>2, <3>1, WakeNone
    <2> QED BY <2>3, <2>4, <2>5, <2>6, <2>7, <2>8, <2>19, <2>k
<1> QED BY <1>a, <1>b

LEMMA write_wakeInv ==
    ASSUME Inv, NEW t \in Threads, write_wake(t) PROVE Inv'
<1> USE DEF Inv
<1>a. CASE Fail("schd_run")
    BY <1>a, FailInv
<1>b. CASE ~ Fail("schd_run")
    <2>1. /\ state[t] = "RUNNING" /\ hpc[t] = "write_wake" /\ owner["writelock"] = t
          /\ WakeUp(rblkt) /\ rblkt' = NULL /\ Hgoto(t, "write_unlock")
          /\ UNCHANGED <<mutexesVars, cache, b, e, freesz, wblkt, got, wake, lineVars, failed, pc>>
        BY <1>b DEF write_wake, In, Hgoto, WriteLockInv
    <2>2. /\ UNCHANGED <<owner, waitq, arrived, char>>
          /\ \A u \in Threads : hpc'[u] = IF u = t THEN "write_unlock" ELSE hpc[u]
          /\ hpc' \in [Threads -> WriteLabels]
        BY <2>1 DEF mutexesVars, lineVars, Hgoto, Types, WriteLabels
    <2>3. /\ SchedInv' /\ \A u \in Threads : state'[u] = IF u = rblkt THEN "RUNNABEL" ELSE state[u]
          /\ rblkt # NULL => rblkt \in Threads /\ state[rblkt] \in {"UNSCHDED", "BLOCKED"}
        <3>1. rblkt \in Threads \cup {NULL} /\ SchedInv /\ WakeUp(rblkt)
            BY <2>1 DEF Types, TypeOK
        <3> QED BY <3>1, WakeUpInv
    <2>4. \A u \in Threads : hpc[u] # "write_put"
        BY <2>1 DEF WriteLockInv
    \* The thread woken up sleeps in buf_read, or in a handler that waits for the mutex.
    <2>5. \A u \in Threads : u = rblkt =>
              /\ u # t
              /\ \/ pc[u] = "read_take" /\ hpc[u] = "none"
                 \/ pc[u] = "read_block" /\ hpc[u] = "write" /\ InQueue(waitq["writelock"], u)
        <3> SUFFICES ASSUME rblkt \in Threads, rblkt # NULL
                     PROVE  /\ rblkt # t
                            /\ \/ pc[rblkt] = "read_take" /\ hpc[rblkt] = "none"
                               \/ /\ pc[rblkt] = "read_block" /\ hpc[rblkt] = "write"
                                  /\ InQueue(waitq["writelock"], rblkt)
            OBVIOUS
        <3>1. rblkt # t
            BY <2>1, <2>3
        <3>2. CASE pc[rblkt] = "read_block"
            <4>1. hpc[rblkt] = "write"
                BY Zenon, <2>3, <2>4, <3>2 DEF HandlerInv, Types, WriteLabels
            <4> QED BY <2>1, <3>1, <3>2, <4>1 DEF WriteLockInv
        <3> QED BY <3>1, <3>2 DEF SleepInv
    <2>6. \A u \in Threads : pc[u] = "read_block" => InQueue(waitq["writelock"], u) /\ state'[u] # "BLOCKED"
        BY <2>3, <2>5 DEF SleepInv
    <2>7. Types'
        BY <2>1, <2>2 DEF Types, TypeOK
    <2>8. ReadLockInv'
        <3>1. \A u \in Threads : InQueue(waitq["readlock"], u) => u # t /\ u # rblkt
            BY <2>1, <2>5 DEF ReadLockInv
        <3> QED BY <2>1, <2>2, <2>3, <3>1, ReadLockKept
    <2>9. WriteLockInv'
        <3>1. \A u \in Threads : InQueue(waitq["writelock"], u) => state[u] = "BLOCKED" \/ Stray(u)
            BY DEF WriteLockInv
        <3>2. \A u \in Threads : InQueue(waitq["writelock"], u) => state'[u] = "BLOCKED" \/ Stray(u)'
            <4> SUFFICES ASSUME NEW u \in Threads, InQueue(waitq["writelock"], u)
                         PROVE  state'[u] = "BLOCKED" \/ Stray(u)'
                OBVIOUS
            <4>1. CASE u = rblkt
                <5>1. pc[u] = "read_block"
                    BY <4>1, <2>5 DEF WriteLockInv
                <5> QED BY <2>1, <2>3, <4>1, <5>1 DEF Stray
            <4>2. CASE u # rblkt
                BY <2>1, <2>3, <3>1, <4>2 DEF Stray
            <4> QED BY <4>1, <4>2
        <3> QED BY <2>1, <2>2, <3>2, WriteLockKept
    <2>10. HandlerInv' /\ ReaderFindsChar'
        <3>1. \A u \in Threads : hpc'[u] \in {"write_lock", "write_wake", "write_unlock"} => state'[u] = "RUNNING"
            BY <2>1, <2>2, <2>3, <2>5 DEF HandlerInv
        <3>2. \A u \in Threads : hpc'[u] = "write_wake" => freesz' < Size'
            BY <2>1, <2>2 DEF HandlerInv
        <3>3. \A u \in Threads : pc'[u] = "read_block" /\ hpc'[u] = "none" => state'[u] \in {"RUNNABEL", "RUNNING"}
            BY <2>1, <2>2, <2>3 DEF HandlerInv
        <3> QED BY <2>1, <3>1, <3>2, <3>3 DEF HandlerInv, ReaderFindsChar
    <2>11. SleepInv'
        <3>1. wblkt' = NULL
            BY <2>1, <2>4 DEF SleepInv, Types, TypeOK
        <3>2. freesz' < Size
            BY <2>1 DEF HandlerInv
        <3>3. \A u \in Threads : ~ (state'[u] = "BLOCKED" /\ pc'[u] = "read_take" /\ hpc'[u] = "none")
            BY <2>1, <2>2, <2>3 DEF SleepInv
        <3>4. \A u \in Threads : hpc'[u] # "write_put"
            BY <2>2, <2>4
        <3> QED BY <2>1, <2>2, <2>6, <3>1, <3>2, <3>3, <3>4 DEF SleepInv
    <2>12. OrderInv'
        BY <2>1, <2>2, SameOrder
    <2>k. WakeInv'
        <3>1. wake = NULL /\ \A u \in Threads : pc[u] \notin Waking
            BY <2>1, WriterAlone
        <3> QED BY <2>1, <2>2, <3>1, WakeNone
    <2> QED BY <2>3, <2>7, <2>8, <2>9, <2>10, <2>11, <2>12, <2>k
<1> QED BY <1>a, <1>b

LEMMA write_unlockInv ==
    ASSUME Inv, NEW t \in Threads, write_unlock(t) PROVE Inv'
<1> USE DEF Inv
<1>a. CASE Fail("mutex_unlock")
    BY <1>a, FailInv
<1>b. CASE ~ Fail("mutex_unlock")
    <2> DEFINE x == "writelock"
               q == waitq[x]
    <2>1. /\ state[t] = "RUNNING" /\ hpc[t] = "write_unlock" /\ owner[x] = t
          /\ mutex_unlock(x) /\ Hgoto(t, "none") /\ UNCHANGED <<bufVars, lineVars, failed, pc>>
        BY <1>b DEF write_unlock, In, Hgoto, WriteLockInv
    <2>2. /\ UNCHANGED <<cache, b, e, freesz, rblkt, wblkt, got, wake, arrived, char>>
          /\ \A u \in Threads : hpc'[u] = IF u = t THEN "none" ELSE hpc[u]
          /\ hpc' \in [Threads -> WriteLabels]
        BY <2>1 DEF bufVars, lineVars, Hgoto, Types, WriteLabels
    <2>3. /\ SchedInv'
          /\ owner' \in [Locks -> Threads \cup {NULL}] /\ waitq' \in [Locks -> Seq(Threads)]
          /\ owner'["readlock"] = owner["readlock"] /\ waitq'["readlock"] = waitq["readlock"]
          /\ NoDuplicates(waitq'[x])
          /\ \/ /\ q = <<>> /\ waitq'[x] = <<>> /\ owner'[x] = NULL /\ state' = state
             \/ \E h \in Threads :
                   /\ q # <<>> /\ h = q[1] /\ InQueue(q, h) /\ owner'[x] = h /\ waitq'[x] = Tail(q)
                   /\ \A y : InQueue(waitq'[x], y) <=> InQueue(q, y) /\ y # h
                   /\ state[h] \in {"UNSCHDED", "BLOCKED"}
                   /\ \A u \in Threads : state'[u] = IF u = h THEN "RUNNABEL" ELSE state[u]
        <3>1. SchedInv /\ owner \in [Locks -> Threads \cup {NULL}] /\ waitq \in [Locks -> Seq(Threads)]
              /\ NoDuplicates(waitq[x])
            BY DEF Types, WriteLockInv
        <3>2. x \in Locks /\ "readlock" \in Locks /\ x # "readlock"
            OBVIOUS
        <3> HIDE DEF x
        <3>3. /\ SchedInv'
              /\ owner' \in [Locks -> Threads \cup {NULL}] /\ waitq' \in [Locks -> Seq(Threads)]
              /\ \A y \in Locks : y # x => owner'[y] = owner[y] /\ waitq'[y] = waitq[y]
              /\ NoDuplicates(waitq'[x])
            BY <2>1, <3>1, <3>2, UnlockStep
        <3>4. HandsOver(x)
            BY <2>1, <3>1, <3>2, UnlockStep
        <3> QED BY <3>2, <3>3, <3>4 DEF HandsOver
    <2>k. WakeInv'
        <3>1. wake = NULL /\ \A u \in Threads : pc[u] \notin Waking
            BY <2>1, WriterAlone
        <3> QED BY <2>1, <2>2, <3>1, WakeNone
    <2>r. owner'["readlock"] = owner["readlock"] /\ waitq'["readlock"] = waitq["readlock"]
          /\ NoDuplicates(waitq'[x]) /\ pc' = pc
        BY <2>1, <2>3
    <2>4. q \in Seq(Threads) /\ Len(q) \in Nat
        BY DEF Types
    <2>5. \A u \in Threads : hpc[u] \notin {"write_put", "write_wake"} /\ (hpc[u] = "write_unlock" => u = t)
        BY <2>1 DEF WriteLockInv
    <2>6. wblkt = NULL
        BY <2>5 DEF SleepInv, Types, TypeOK
    <2>l. \A u \in Threads : InQueue(waitq["readlock"], u) => u # t /\ hpc[u] = "none"
        BY <2>1 DEF ReadLockInv
    <2>m. rblkt # NULL => rblkt \in Threads
        BY DEF Types, TypeOK
    <2>w. \A u \in Threads : InQueue(q, u) =>
              hpc[u] = "write" /\ u # t /\ (state[u] = "BLOCKED" \/ Stray(u))
        BY <2>1 DEF WriteLockInv
    <2>7. Types'
        BY <2>1, <2>2, <2>3 DEF Types, TypeOK
    <2>8. ~ InQueue(q, t) /\ (pc[t] = "read_block" => rblkt = t)
        BY <2>1 DEF WriteLockInv, SleepInv
    <2>9. ReaderFindsChar'
        BY <2>1 DEF ReaderFindsChar
    <2>10. /\ Reading' = Reading /\ Arriving' = Arriving /\ Writing = 0 /\ Used' = Used
           /\ \A i : Place(i)' = Place(i)
        <3>1. Reading' = Reading /\ Arriving' = Arriving /\ Writing = 0
            <4>1. Reading' = Reading
                BY <2>r DEF Reading
            <4>2. \A u \in Threads : hpc'[u] = "write_lock" <=> hpc[u] = "write_lock"
                BY <2>1, <2>2
            <4>3. Arriving' = Arriving
                BY <4>2 DEF Arriving
            <4>4. Writing = 0
                BY <2>1 DEF Writing
            <4> QED BY <4>1, <4>3, <4>4
        <3> QED BY <2>2, <3>1 DEF Used, Place
    <2>11. Used \in Int /\ got \in Int /\ Arriving \in Int
        BY CountTypes DEF OrderInv, Types
    <2> HIDE DEF Reading, Arriving, Writing, Used, Place
    <2>12. CASE q = <<>> /\ waitq'[x] = <<>> /\ owner'[x] = NULL /\ state' = state
        <3>1. (\A u : ~ InQueue(q, u)) /\ (\A u : ~ InQueue(waitq'[x], u))
            BY <2>12 DEF InQueue
        <3>2. ReadLockInv'
            BY <2>r, <2>2, <2>l, <2>12, ReadLockKept
        <3>3. WriteLockInv'
            <4>1. \A u \in Threads : hpc'[u] \notin {"write", "write_put", "write_wake", "write_unlock"}
                <5>1. \A u \in Threads : hpc[u] \in {"write", "write_put", "write_wake", "write_unlock"} => u = t
                    BY <2>1, <3>1 DEF WriteLockInv
                <5> QED BY <2>2, <5>1
            <4> QED BY <2>r, <2>12, <3>1, <4>1 DEF WriteLockInv
        <3>4. HandlerInv'
            BY <2>1, <2>2, <2>12 DEF HandlerInv
        <3>5. SleepInv'
            <4>2. rblkt # NULL => \/ pc[rblkt] = "read_block"
                                  \/ pc[rblkt] = "read_take" /\ state[rblkt] = "BLOCKED" /\ hpc'[rblkt] = "none"
                BY <2>1, <2>2, <2>m DEF SleepInv
            <4>3. \A u \in Threads : hpc'[u] # "write_put" /\ (pc[u] = "read_block" => rblkt = u)
                BY <2>2, <2>5, <3>1 DEF SleepInv
            <4>4. \A u \in Threads : pc[u] = "read_take" =>
                      freesz < Size \/ (state[u] = "BLOCKED" /\ hpc'[u] = "none" /\ rblkt = u)
                BY <2>2 DEF SleepInv
            <4>5. \A u \in Threads : state[u] = "BLOCKED" /\ pc[u] = "read_take" /\ hpc'[u] = "none" => rblkt = u
                BY <2>1, <2>2 DEF SleepInv
            <4> QED BY <2>r, <2>2, <2>6, <2>12, <4>2, <4>3, <4>4, <4>5 DEF SleepInv
        <3>6. Writing' = 0
            BY <2>12 DEF Writing
        <3>7. OrderInv'
            <4>1. Len(q) = 0 /\ Len(waitq'[x]) = 0
                BY <2>12
            <4>2. arrived = got + Used + Writing' + Len(waitq'[x]) + Arriving
                BY <2>10, <3>6, <4>1 DEF OrderInv
            <4>3. \A u \in Threads : owner'[x] # u
                BY <2>12
            <4>4. \A u \in Threads : hpc'[u] = "write_lock" => char[u] = arrived
                BY <2>2 DEF OrderInv
            <4>5. \A i \in 1 .. Len(waitq'[x]) : FALSE
                BY <4>1
            <4>6. /\ Used \in 0 .. Size /\ e = Place(Used)
                  /\ \A i \in 0 .. Used - 1 : cache[Place(i)] = got + 1 + i
                BY DEF OrderInv
            <4> QED BY <2>2, <2>10, <4>2, <4>3, <4>4, <4>5, <4>6 DEF OrderInv
        <3> QED BY <2>3, <2>7, <2>9, <2>k, <3>2, <3>3, <3>4, <3>5, <3>7
    <2>13. ASSUME NEW h \in Threads,
                  q # <<>>, h = q[1], InQueue(q, h), owner'[x] = h, waitq'[x] = Tail(q),
                  \A y : InQueue(waitq'[x], y) <=> InQueue(q, y) /\ y # h,
                  state[h] \in {"UNSCHDED", "BLOCKED"},
                  \A u \in Threads : state'[u] = IF u = h THEN "RUNNABEL" ELSE state[u]
           PROVE  Inv'
        <3>1. hpc[h] = "write" /\ state[h] = "BLOCKED" /\ h # t
            BY <2>w, <2>13 DEF Stray
        <3>2. ReadLockInv'
            BY <2>r, <2>2, <2>l, <2>13, <3>1, ReadLockKept
        <3>3. WriteLockInv'
            <4>1. ASSUME NEW u \in Threads, InQueue(waitq'[x], u)
                  PROVE  hpc'[u] = "write" /\ owner'[x] # u /\ (state'[u] = "BLOCKED" \/ Stray(u)')
                <5>1. InQueue(q, u) /\ u # h
                    BY <2>13, <4>1
                <5>2. hpc[u] = "write" /\ u # t /\ (state[u] = "BLOCKED" \/ Stray(u))
                    BY <2>w, <5>1
                <5>3. owner'[x] # u /\ state'[u] = state[u]
                    BY <2>13, <5>1
                <5>4. hpc'[u] = hpc[u] /\ pc' = pc /\ rblkt' = rblkt
                    BY <2>r, <2>2, <5>2
                <5> QED BY <5>2, <5>3, <5>4 DEF Stray
            <4>2. \A u \in Threads : hpc'[u] = "write" => owner'[x] = u \/ InQueue(waitq'[x], u)
                <5>1. \A u \in Threads : hpc[u] = "write" => InQueue(q, u)
                    BY <2>1 DEF WriteLockInv
                <5> QED BY <2>2, <2>13, <5>1
            <4>3. \A u \in Threads : hpc'[u] \notin {"write_put", "write_wake", "write_unlock"}
                BY <2>2, <2>5
            <4>4. owner'[x] # NULL /\ hpc'[h] = "write"
                BY <2>2, <2>13, <3>1
            <4> QED BY <2>r, <2>13, <4>1, <4>2, <4>3, <4>4 DEF WriteLockInv
        <3>4. HandlerInv'
            <4>1. \A u \in Threads : hpc'[u] \in {"write_lock", "write_wake", "write_unlock"} =>
                      state'[u] = "RUNNING"
                BY <2>2, <2>13, <3>1 DEF HandlerInv
            <4>2. \A u \in Threads : hpc'[u] = "write_wake" => freesz' < Size
                BY <2>2 DEF HandlerInv
            <4>3. \A u \in Threads : pc'[u] = "read_block" /\ hpc'[u] = "none" =>
                      state'[u] \in {"RUNNABEL", "RUNNING"}
                BY <2>r, <2>1, <2>2, <2>13 DEF HandlerInv
            <4> QED BY <4>1, <4>2, <4>3 DEF HandlerInv
        <3>5. SleepInv'
            <4>1. \A u \in Threads : u # h => state'[u] = state[u]
                BY <2>13
            <4>2. rblkt # NULL => \/ pc[rblkt] = "read_block"
                                  \/ pc[rblkt] = "read_take" /\ state'[rblkt] = "BLOCKED" /\ hpc'[rblkt] = "none"
                BY <2>1, <2>2, <2>m, <3>1, <4>1 DEF SleepInv
            <4>3. \A u \in Threads : hpc'[u] # "write_put"
                BY <2>2, <2>5
            <4>4. \A u \in Threads : pc[u] = "read_block" =>
                      rblkt = u \/ (InQueue(waitq'[x], u) /\ state'[u] # "BLOCKED")
                <5>1. \A u \in Threads : pc[u] = "read_block" =>
                          rblkt = u \/ (InQueue(q, u) /\ state[u] # "BLOCKED")
                    BY DEF SleepInv
                <5>2. ASSUME NEW u \in Threads, pc[u] = "read_block", rblkt # u
                      PROVE  InQueue(waitq'[x], u) /\ state'[u] # "BLOCKED"
                    <6>1. InQueue(q, u) /\ state[u] # "BLOCKED"
                        BY <5>1, <5>2
                    <6>2. u # h
                        BY <3>1, <6>1
                    <6> QED BY <2>13, <4>1, <6>1, <6>2
                <5> QED BY <5>2
            <4>5. \A u \in Threads : pc[u] = "read_take" =>
                      freesz < Size \/ (state'[u] = "BLOCKED" /\ hpc'[u] = "none" /\ rblkt = u)
                BY <2>2, <3>1, <4>1 DEF SleepInv
            <4>6. \A u \in Threads : state'[u] = "BLOCKED" /\ pc[u] = "read_take" /\ hpc'[u] = "none" => rblkt = u
                <5>1. state'[h] # "BLOCKED" /\ state[t] # "BLOCKED"
                    BY <2>1, <2>13
                <5> QED BY <2>2, <3>1, <4>1, <5>1 DEF SleepInv
            <4> QED BY <2>r, <2>2, <2>6, <4>2, <4>3, <4>4, <4>5, <4>6 DEF SleepInv
        <3>6. Writing' = 1
            BY <2>2, <2>13, <3>1 DEF Writing
        <3>7. Len(q) > 0 /\ Len(waitq'[x]) = Len(q) - 1 /\ \A i \in 1 .. Len(q) - 1 : waitq'[x][i] = q[i + 1]
            <4> HIDE DEF q, x
            <4> QED BY <2>4, <2>13
        <3>8. /\ \A i \in 1 .. Len(q) : char[q[i]] = got + Used + i
              /\ arrived = got + Used + Len(q) + Arriving
            BY <2>10, <2>11 DEF OrderInv
        <3>9. char[h] = got + Used + 1
            <4> HIDE DEF q, x
            <4> QED BY <2>4, <2>13, <3>7, <3>8
        <3>10. \A i \in 1 .. Len(waitq'[x]) : char'[waitq'[x][i]] = got' + Used' + Writing' + i
            <4> HIDE DEF q, x
            <4> SUFFICES ASSUME NEW i \in 1 .. Len(q) - 1
                         PROVE  char[q[i + 1]] = got + Used + 1 + i
                BY <2>2, <2>10, <3>6, <3>7
            <4>1. i + 1 \in 1 .. Len(q)
                BY <2>4
            <4>2. char[q[i + 1]] = got + Used + (i + 1)
                BY Zenon, <3>8, <4>1
            <4>3. got + Used + (i + 1) = got + Used + 1 + i
                BY <2>11
            <4> QED BY <4>2, <4>3
        <3>11. arrived' = got' + Used' + Writing' + Len(waitq'[x]) + Arriving'
            <4> HIDE DEF q, x
            <4> QED BY <2>2, <2>4, <2>10, <2>11, <3>6, <3>7, <3>8
        <3>12. /\ \A u \in Threads : owner'[x] = u /\ hpc'[u] \in {"write", "write_put"} =>
                     char'[u] = got' + Used' + 1
               /\ \A u \in Threads : hpc'[u] = "write_lock" => char'[u] = arrived'
            BY <2>2, <2>10, <2>13, <3>9 DEF OrderInv
        <3>13. OrderInv'
            BY <2>2, <2>10, <3>10, <3>11, <3>12 DEF OrderInv
        <3> QED BY <2>3, <2>7, <2>9, <2>k, <3>2, <3>3, <3>4, <3>5, <3>13
    <2> QED BY <2>3, <2>12, <2>13
<1> QED BY <1>a, <1>b

-----------------------------------------------------------------------------
(***************************************************************************)
(* The theorems                                                            *)
(***************************************************************************)

LEMMA StepInv == Inv /\ [Next]_vars => Inv'
<1> SUFFICES ASSUME Inv, [Next]_vars PROVE Inv'
    OBVIOUS
<1>1. CASE UNCHANGED vars
    <2>1. SchedInv' /\ state' = state
        BY <1>1, SchedStutterInv DEF Inv, vars, schedVars
    <2> QED BY <1>1, <2>1, SameDataInv DEF vars, Inv, ReaderFindsChar
<1>2. CASE \E t \in Threads : buf_read(t)
    BY <1>2, read_lockInv, read_checkInv, read_waitInv, read_blockInv, read_takeInv, read_freeInv,
       read_wakeInv, read_clearInv, read_runInv, read_unlockInv DEF buf_read
<1>3. CASE \E t \in Threads : com_intr(t)
    BY <1>3, com_intrInv
<1>4. CASE \E t \in Threads : buf_write(t)
    BY <1>4, write_lockInv, write_checkInv, write_putInv, write_wakeInv, write_unlockInv DEF buf_write
<1>5. CASE \E c \in CPUs : Switch(c)
    BY <1>5, SwitchInv
<1> QED BY <1>1, <1>2, <1>3, <1>4, <1>5 DEF Next

\* The inductive invariant holds whatever the threads, the size of the buffer and
\* the number of characters.
THEOREM BufInvariance == Spec => []Inv
BY InitInv, StepInv, PTL DEF Spec

\* freesz always agrees with b and e: buf_write never overwrites a character that
\* was not read, whatever the moment at which com_intr interrupts buf_read.
THEOREM BufFreeszExact == Spec => []FreeszExact
<1>1. Inv => FreeszExact
    <2> SUFFICES ASSUME Inv PROVE FreeszExact
        OBVIOUS
    <2>1. /\ TypeOK /\ Used \in 0 .. Size /\ e = Place(Used)
        BY DEF Inv, Types, OrderInv
    <2>2. Size + e - b + freesz + Reading \in {Size, 2 * Size}
        BY <2>1, CountTypes DEF TypeOK, Place, Used
    <2>3. Size % Size = 0 /\ (2 * Size) % Size = 0
        OBVIOUS
    <2>4. (Size + e - b + freesz + Reading) % Size = 0
        BY <2>2, <2>3
    <2> QED BY <2>1, <2>4 DEF FreeszExact, Reading
<1> QED BY <1>1, BufInvariance, PTL

\* The thread that sleeps in buf_read or in buf_write is known to the other side,
\* which has it in rblkt or wblkt, or in t of a reader that is about to wake it up
\* and is awake itself, or was interrupted and waits for writelock; and the
\* assertion of buf_read holds when it wakes up.
THEOREM BufSleeperServed == Spec => []SleeperServed
<1>1. Inv => SleeperServed
    <2> SUFFICES ASSUME Inv PROVE SleeperKnown
        BY DEF Inv, SleeperServed
    <2> SUFFICES ASSUME NEW t \in Threads, state[t] = "BLOCKED", hpc[t] = "write_put", wblkt # t
                 PROVE  WakesNext(t)
        BY DEF Inv, SleepInv, SleeperKnown
    <2>1. wake = t
        BY DEF Inv, SleepInv
    <2>2. PICK r \in Threads : pc[r] \in Waking
        BY <2>1 DEF Inv, WakeInv
    <2>3. r \in Readers \ {t}
        BY <2>1, <2>2 DEF Inv, WakeInv, Types, Waking
    <2>4. owner["writelock"] = t
        BY DEF Inv, WriteLockInv
    <2>5. hpc[r] # "write_put"
        BY <2>3, <2>4 DEF Inv, WriteLockInv
    <2>6. state[r] = "BLOCKED" => hpc[r] = "write"
        BY <2>2, <2>5 DEF Inv, WakeInv, HandlerInv, Types, WriteLabels
    <2>7. hpc[r] = "write" => InQueue(waitq["writelock"], r)
        BY <2>3, <2>4 DEF Inv, WriteLockInv
    <2> QED BY <2>1, <2>2, <2>3, <2>6, <2>7 DEF WakesNext, Waking
<1> QED BY <1>1, BufInvariance, PTL

\* buf_read returns the characters in the order in which com_intr took them from
\* the line, none lost, none twice.
THEOREM BufReadInOrder == Spec => ReadInOrder
<1>1. Inv /\ [Next]_vars => [got' # got => got' = got + 1]_vars
    <2> SUFFICES ASSUME Inv, Next, got' # got PROVE got' = got + 1
        OBVIOUS
    <2>1. \E t \in Threads : read_take(t)
        BY DEF Next, buf_read, com_intr, buf_write, Switch, read_lock, read_check, read_wait, read_block,
               read_free, read_wake, read_clear, read_run, read_unlock, write_lock, write_check, write_put, write_wake,
               write_unlock, Put, Fail, bufVars
    <2> QED BY <2>1, read_takeStep
<1> QED BY <1>1, BufInvariance, PTL DEF Spec, ReadInOrder
=============================================================================

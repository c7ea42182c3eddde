-------------------------------- MODULE Buf --------------------------------
(***************************************************************************)
(* The bounded buffer of lib/buf.c as kernel/tmp.c uses it on one CPU: the *)
(* serial interrupt (com_intr) writes characters into it, on the stack of  *)
(* whatever thread it interrupts, and threads read them (tmp_read).        *)
(*                                                                         *)
(* The handler runs with interrupts disabled, so it is interleaved with    *)
(* the threads only where it interrupts them and where it blocks.  The     *)
(* updates of freesz are single instructions, which no interrupt divides.  *)
(* Characters are numbered in the order in which the line delivers them.   *)
(***************************************************************************)
EXTENDS Mutexes, Naturals

CONSTANTS Readers,      \* the threads that read; the others only use the CPU
          Size,         \* buf_t.size
          MaxChars      \* bound: the characters that arrive

ASSUME BufAssumption ==
    /\ \A c, d \in CPUs : c = d
    /\ Readers \subseteq Threads
    /\ Size \in Nat \ {0}
    /\ MaxChars \in Nat
    /\ Locks = {"readlock", "writelock"}

VARIABLES cache, b, e, freesz, rblkt, wblkt,    \* struct buf_t
          pc,           \* where each thread is in buf_read
          hpc,          \* where the handler on its stack is, "none" if there is none
          arrived,      \* history: the number of characters taken from the line
          char,         \* the character of each handler
          got,          \* the last character read
          wake,         \* t of buf_read, which one thread at a time is in
          failed        \* the assertion or panic that stopped the machine

bufVars == <<cache, b, e, freesz, rblkt, wblkt, got, wake>>
lineVars == <<arrived, char>>
vars == <<schedVars, mutexesVars, bufVars, lineVars, pc, hpc, failed>>

\* buf_init
Init ==
    /\ SchedInit
    /\ MutexesInit
    /\ cache = [i \in 0 .. Size - 1 |-> 0]
    /\ b = 0 /\ e = 0 /\ freesz = Size
    /\ rblkt = NULL /\ wblkt = NULL /\ wake = NULL
    /\ pc = [t \in Threads |-> "out"]
    /\ hpc = [t \in Threads |-> "none"]
    /\ arrived = 0 /\ got = 0
    /\ char = [t \in Threads |-> 0]
    /\ failed = "no"

-----------------------------------------------------------------------------
\* Thread t executes buf_read at label l; its handler is at label l.
At(t, l) == state[t] = "RUNNING" /\ hpc[t] = "none" /\ pc[t] = l

In(t, l) == state[t] = "RUNNING" /\ hpc[t] = l

Goto(t, l) == pc' = [pc EXCEPT ![t] = l] /\ UNCHANGED hpc

Hgoto(t, l) == hpc' = [hpc EXCEPT ![t] = l] /\ UNCHANGED pc

Fail(what) == failed' = what /\ UNCHANGED <<schedVars, mutexesVars, bufVars, lineVars, pc, hpc>>

schd_block(t) == \E c \in CPUs : cur[c] = t /\ Block(c)

\* Wake up t if there is such a thread.
WakeUp(t) == IF t = NULL THEN UNCHANGED schedVars ELSE Run(t)

-----------------------------------------------------------------------------
(***************************************************************************)
(* buf_read                                                                *)
(***************************************************************************)

read_lock(t) ==
    /\ t \in Readers
    /\ At(t, "out")
    /\ mutex_lock(t, "readlock")
    /\ Goto(t, "read")
    /\ UNCHANGED <<bufVars, lineVars, failed>>

\* mutex_lock asserts, before it returns, that the mutex is the caller's.
read_check(t) ==
    /\ At(t, "read")
    /\ \/ owner["readlock"] # t /\ Fail("mutex")
       \/ /\ owner["readlock"] = t
          /\ Goto(t, IF freesz = Size THEN "read_wait" ELSE "read_take")
          /\ UNCHANGED <<schedVars, mutexesVars, bufVars, lineVars, failed>>

\* Mutant: the thread that waits is not recorded.
read_wait_Forgets(t) ==
    /\ At(t, "read_wait")
    /\ Goto(t, "read_block")
    /\ UNCHANGED <<schedVars, mutexesVars, bufVars, lineVars, failed>>

read_wait(t) ==
    /\ At(t, "read_wait")
    /\ rblkt' = t
    /\ Goto(t, "read_block")
    /\ UNCHANGED <<schedVars, mutexesVars, cache, b, e, freesz, wblkt, got, wake, lineVars, failed>>

read_block(t) ==
    /\ At(t, "read_block")
    /\ schd_block(t)
    /\ Goto(t, "read_take")
    /\ UNCHANGED <<mutexesVars, bufVars, lineVars, failed>>

\* Mutant: the position moves before the character is read.
read_take_Moved(t) ==
    /\ At(t, "read_take")
    /\ freesz < Size
    /\ got' = cache[(b + 1) % Size]
    /\ b' = (b + 1) % Size
    /\ Goto(t, "read_free")
    /\ UNCHANGED <<schedVars, mutexesVars, cache, e, freesz, rblkt, wblkt, wake, lineVars, failed>>

\* The first character leaves the buffer; then freesz is counted up.
read_take(t) ==
    /\ At(t, "read_take")
    /\ \/ freesz >= Size /\ Fail("read_assert")
       \/ /\ freesz < Size
          /\ got' = cache[b]
          /\ b' = (b + 1) % Size
          /\ Goto(t, "read_free")
          /\ UNCHANGED <<schedVars, mutexesVars, cache, e, freesz, rblkt, wblkt, wake, lineVars, failed>>

read_free(t) ==
    /\ At(t, "read_free")
    /\ freesz' = freesz + 1
    /\ Goto(t, "read_wake")
    /\ UNCHANGED <<schedVars, mutexesVars, cache, b, e, rblkt, wblkt, got, wake, lineVars, failed>>

\* t = wblkt, wblkt = NULL and schd_run(t), with interrupts enabled.  What was
\* found to be a thread stays in wblkt until read_clear: it sleeps with writelock.
read_wake(t) ==
    /\ At(t, "read_wake")
    /\ wake' = wblkt
    /\ Goto(t, IF wblkt = NULL THEN "read_unlock" ELSE "read_clear")
    /\ UNCHANGED <<schedVars, mutexesVars, cache, b, e, freesz, rblkt, wblkt, got, lineVars, failed>>

read_clear(t) ==
    /\ At(t, "read_clear")
    /\ wblkt' = NULL
    /\ Goto(t, "read_run")
    /\ UNCHANGED <<schedVars, mutexesVars, cache, b, e, freesz, rblkt, got, wake, lineVars, failed>>

read_run(t) ==
    /\ At(t, "read_run")
    /\ \/ ~ CanRun(wake) /\ Fail("schd_run")
       \/ /\ Run(wake)
          /\ wake' = NULL
          /\ Goto(t, "read_unlock")
          /\ UNCHANGED <<mutexesVars, cache, b, e, freesz, rblkt, wblkt, got, lineVars, failed>>

read_unlock(t) ==
    /\ At(t, "read_unlock")
    /\ mutex_unlock("readlock")
    /\ Goto(t, "out")
    /\ UNCHANGED <<bufVars, lineVars, failed>>

-----------------------------------------------------------------------------
(***************************************************************************)
(* com_intr and buf_write                                                  *)
(***************************************************************************)

\* uart_getc finds a character; the loop of com_intr is one of several.
com_intr(t) ==
    /\ state[t] = "RUNNING"
    /\ hpc[t] = "none"
    /\ arrived < MaxChars
    /\ arrived' = arrived + 1
    /\ char' = [char EXCEPT ![t] = arrived + 1]
    /\ Hgoto(t, "write_lock")
    /\ UNCHANGED <<schedVars, mutexesVars, bufVars, failed>>

write_lock(t) ==
    /\ In(t, "write_lock")
    /\ mutex_lock(t, "writelock")
    /\ Hgoto(t, "write")
    /\ UNCHANGED <<bufVars, lineVars, failed>>

\* Wait if the buffer is full.
write_check(t) ==
    /\ In(t, "write")
    /\ \/ owner["writelock"] # t /\ Fail("mutex")
       \/ /\ owner["writelock"] = t
          /\ wblkt' = IF freesz = 0 THEN t ELSE wblkt
          /\ IF freesz = 0 THEN schd_block(t) ELSE UNCHANGED schedVars
          /\ Hgoto(t, "write_put")
          /\ UNCHANGED <<mutexesVars, cache, b, e, freesz, rblkt, got, wake, lineVars, failed>>

\* The character enters the buffer, which then has n free places.
Put(t, n) ==
    /\ cache' = [cache EXCEPT ![e] = char[t]]
    /\ e' = (e + 1) % Size
    /\ freesz' = n
    /\ Hgoto(t, "write_wake")
    /\ UNCHANGED <<schedVars, mutexesVars, b, rblkt, wblkt, got, wake, lineVars, failed>>

\* Mutant: freesz is not counted down.
write_put_NoCount(t) == In(t, "write_put") /\ Put(t, freesz)

write_put(t) ==
    /\ In(t, "write_put")
    /\ \/ freesz = 0 /\ Fail("write_assert")
       \/ freesz > 0 /\ Put(t, freesz - 1)

write_wake(t) ==
    /\ In(t, "write_wake")
    /\ \/ rblkt # NULL /\ ~ CanRun(rblkt) /\ Fail("schd_run")
       \/ /\ WakeUp(rblkt)
          /\ rblkt' = NULL
          /\ Hgoto(t, "write_unlock")
          /\ UNCHANGED <<mutexesVars, cache, b, e, freesz, wblkt, got, wake, lineVars, failed>>

\* write_wake may have woken up the handler that waits for the mutex: schd_run
\* of mutex_unlock then panics.
write_unlock(t) ==
    /\ In(t, "write_unlock")
    /\ \/ /\ mutex_unlock("writelock")
          /\ Hgoto(t, "none")
          /\ UNCHANGED <<bufVars, lineVars, failed>>
       \/ /\ waitq["writelock"] # <<>> /\ ~ CanRun(Head(waitq["writelock"]))
          /\ Fail("mutex_unlock")

-----------------------------------------------------------------------------
buf_read(t) ==
    \/ read_lock(t) \/ read_check(t) \/ read_wait(t) \/ read_block(t) \/ read_take(t)
    \/ read_free(t) \/ read_wake(t) \/ read_clear(t) \/ read_run(t) \/ read_unlock(t)

buf_write(t) ==
    \/ write_lock(t) \/ write_check(t) \/ write_put(t) \/ write_wake(t) \/ write_unlock(t)

\* The handler is not preempted.
Switch(c) ==
    /\ Dispatch(c) \/ (Preempt(c) /\ hpc[cur[c]] = "none")
    /\ UNCHANGED <<mutexesVars, bufVars, pc, hpc, lineVars, failed>>

Next ==
    /\ failed = "no"
    /\ \/ \E t \in Threads : buf_read(t) \/ com_intr(t) \/ buf_write(t)
       \/ \E c \in CPUs : Switch(c)

Spec == Init /\ [][Next]_vars

-----------------------------------------------------------------------------
(***************************************************************************)
(* Properties                                                              *)
(***************************************************************************)

TypeOK ==
    /\ cache \in [0 .. Size - 1 -> 0 .. MaxChars]
    /\ b \in 0 .. Size - 1
    /\ e \in 0 .. Size - 1
    /\ freesz \in 0 .. Size
    /\ rblkt \in Readers \cup {NULL}
    /\ wblkt \in Threads \cup {NULL}
    /\ wake \in Threads \cup {NULL}

\* The characters are read in the order in which the line delivered them, none
\* lost, none read twice, although the reader and the handler share freesz
\* without a common lock.
ReadInOrder == [][got' # got => got' = got + 1]_vars

\* freesz agrees with the positions b and e, except that a place just read is
\* not free yet: the handler can then only wait too long, never overwrite.
FreeszExact ==
    LET reading == \E t \in Threads : pc[t] = "read_free" IN
    TypeOK /\ (Size + e - b + freesz + IF reading THEN 1 ELSE 0) % Size = 0

\* The assertion of buf_read holds: a thread that was woken up finds a
\* character.
ReaderFindsChar == failed # "read_assert"

\* A reader has taken t from wblkt and has yet to wake it up.  It is awake itself,
\* unless the serial line interrupted it and its handler waits for writelock, which
\* t holds: then neither of them ever runs again.
WakesNext(t) ==
    /\ wake = t
    /\ \E r \in Readers \ {t} : /\ pc[r] \in {"read_clear", "read_run"}
                                /\ state[r] # "BLOCKED" \/ InQueue(waitq["writelock"], r)

\* A thread that sleeps in the buffer is known to the other side: a reader to the
\* handlers, by rblkt; a handler that waits for a place to the readers, by wblkt or
\* as the thread that one of them is about to wake up.
SleeperKnown ==
    \A t \in Threads : state[t] = "BLOCKED" =>
        /\ pc[t] = "read_take" /\ hpc[t] = "none" => rblkt = t
        /\ hpc[t] = "write_put" => wblkt = t \/ WakesNext(t)

\* A thread sleeps in the buffer only where the other side knows it, although the
\* handler can run between any two of the statements with which buf_read wakes it
\* up; and a reader wakes up to what it waited for.
SleeperServed == SleeperKnown /\ ReaderFindsChar

-----------------------------------------------------------------------------
(***************************************************************************)
(* What the code asserts and does not keep                                 *)
(***************************************************************************)

\* schd_run is called on a BLOCKED thread only: panic("schd run bug.\n").
WakesBlocked == failed # "schd_run"
=============================================================================

------------------------------ MODULE Services ------------------------------
(***************************************************************************)
(* Services and the file server.  A process registers a service by name;   *)
(* srv_call sends a message to its box and waits at a new box for the      *)
(* reply (kernel/srv/srv.c; a box keeps the promise of Mailbox).  The file *)
(* server (usr/fssrv) has six services, a thread that listens for each,    *)
(* and a new thread for every request; nothing locks its tree of files.    *)
(* A file is known by its path, the sequence of the names that path_cut    *)
(* makes, in which the name of a directory ends in '/'.                    *)
(***************************************************************************)
EXTENDS Integers, Sequences, FiniteSets, SequencesExt

CONSTANTS NULL, Clients,
          Offers,       \* which of the services there are, in the order init registers them
          Paths(_),     \* the paths that are asked for, per service
          Loaded,       \* the root file and the files of load_file
          Strays,       \* the paths that stand for an undefined result of path_cut
          IsDir(_),     \* whether a name ends in '/'
          MaxCalls,     \* bound on the calls
          MaxFails      \* how often memory runs out

VARIABLES Names,        \* the services of this file server, one of Offers
          rw,           \* SRV.rbt_rwlock
          srv,          \* SRV.srv_rbt: the owners of the services
          inserting,    \* who is inside rbt_insert of SRV.srv_rbt, or NULL
          inbox,        \* the messages in the boxes of the services: who calls
          boot,         \* how far the main thread of the file server is
          listener,     \* per service: where service_listen is
          cl,           \* per client: pc and the call
          h,            \* per client: the thread that handles its call
          tree,         \* the trees subfile_rbt: path to number of file_t
          files,        \* the file_t that were made: type, data and size
          linking,      \* the directory whose tree is being changed, or NULL
          base, done,   \* history: the files when no call was in progress, and what was
                        \* answered since
          calls, fails, leaked, failed

vars == <<Names, rw, srv, inserting, inbox, boot, listener, cl, h, tree, files, linking, base, done, calls, fails, leaked, failed>>

Services == Range(Names)
Prefix(p) == SubSeq(p, 1, Len(p) - 1)
Children(t, d) == {p \in DOMAIN t : Len(p) = Len(d) + 1 /\ Prefix(p) = d}
File(p) == [type |-> IF p = << >> \/ IsDir(Last(p)) THEN "FILE_DIR" ELSE "FILE_ENTITY", data |-> 0, size |-> 0]

NoCall == [pc |-> "idle", op |-> NULL, path |-> << >>, val |-> 0]
NoHandler == [pc |-> "off", way |-> << >>, at |-> 0, f |-> 0, data |-> 0, names |-> {}, res |-> NULL]

Init ==
    /\ Names \in Offers
    /\ rw = 0 /\ srv = << >> /\ inserting = NULL
    /\ inbox = [s \in Services |-> << >>]
    /\ boot = 0
    /\ listener = [s \in Services |-> "off"]
    /\ cl = [c \in Clients |-> NoCall]
    /\ h = [c \in Clients |-> NoHandler]
    /\ files = [i \in DOMAIN Loaded |-> File(Loaded[i])]
    /\ tree = [p \in Range(Loaded) |-> CHOOSE i \in DOMAIN Loaded : Loaded[i] = p]
    /\ linking = NULL
    /\ base = << >> /\ done = {}
    /\ calls = 0 /\ fails = 0 /\ leaked = FALSE /\ failed = "no"

fsVars == <<h, tree, files, linking>>
history == <<base, done>>
srvVars == <<rw, srv, inserting, leaked>>

\* Memory runs out.
NoMemory == fails < MaxFails /\ fails' = fails + 1

Enough == UNCHANGED fails

-----------------------------------------------------------------------------
(***************************************************************************)
(* spin_rwlock_t                                                           *)
(***************************************************************************)

\* Mutant: a reader does not mind a writer.
spin_read_lock_Rude == rw' = rw + 1

spin_read_lock == rw # -1 /\ rw' = rw + 1

spin_read_unlock == rw' = rw - 1

spin_write_lock == rw = 0 /\ rw' = -1

spin_write_unlock == rw' = 0

-----------------------------------------------------------------------------
(***************************************************************************)
(* srv_sys_register, of the file server or of a client                     *)
(***************************************************************************)

\* The write lock is taken.
register_lock(who) ==
    /\ inserting = NULL
    /\ spin_write_lock
    /\ inserting' = who
    /\ UNCHANGED <<srv, leaked>>

\* Three ways to return with the lock held: the name is known, and no memory for
\* the service or for its box
register_fails(who, s) ==
    /\ inserting = who
    /\ \/ s \in DOMAIN srv /\ Enough
       \/ s \notin DOMAIN srv /\ NoMemory
    /\ leaked' = TRUE
    /\ inserting' = NULL
    /\ UNCHANGED <<rw, srv>>

register_inserts(who, s) ==
    /\ inserting = who
    /\ s \notin DOMAIN srv
    /\ srv' = (s :> who) @@ srv
    /\ spin_write_unlock
    /\ inserting' = NULL
    /\ Enough
    /\ UNCHANGED leaked

\* init and service_enable: the services are registered, whatever the result, and
\* one thread is made for each.
boot_register ==
    /\ boot < 2 * Len(Names)
    /\ LET s == Names[boot \div 2 + 1]
       IN  IF boot % 2 = 0 THEN register_lock("fssrv") /\ Enough
           ELSE register_fails("fssrv", s) \/ register_inserts("fssrv", s)
    /\ boot' = boot + 1
    /\ UNCHANGED <<inbox, listener, cl, fsVars, history, calls, failed>>

service_enable ==
    /\ boot = 2 * Len(Names)
    /\ boot' = boot + 1
    /\ listener' = [s \in Services |-> "called"]
    /\ UNCHANGED <<srvVars, inbox, cl, fsVars, history, calls, fails, failed>>

-----------------------------------------------------------------------------
(***************************************************************************)
(* The calling thread                                                      *)
(***************************************************************************)

View == [p \in DOMAIN tree |-> files[tree[p]]]

Active == {c \in Clients : cl[c].pc # "idle"}

\* What a thread does next: a call, or the registration of a service
call(c) == \E op \in Services \cup {"register", "info"} : \E p \in Paths(op) :
    /\ failed = "no" /\ calls < MaxCalls
    /\ cl[c].pc = "idle"
    /\ calls' = calls + 1
    /\ cl' = [cl EXCEPT ![c] = [pc |-> IF op \in Services THEN "find" ELSE op, op |-> op, path |-> p,
                                val |-> IF op = "write" THEN calls + 1 ELSE 0]]
    /\ base' = IF Active = {} THEN View ELSE base
    /\ UNCHANGED <<srvVars, inbox, boot, listener, fsVars, done, fails, failed>>

Goto(c, pc) == cl' = [cl EXCEPT ![c].pc = pc] /\ UNCHANGED history

\* The call returns; rs is what it was answered.
Returns(c, rs) ==
    /\ cl' = [cl EXCEPT ![c] = NoCall]
    /\ IF Active = {c} THEN base' = << >> /\ done' = {}
       ELSE done' = done \cup rs /\ UNCHANGED base

Return(c) == Returns(c, {})

client_register(c) ==
    /\ \/ cl[c].pc = "register" /\ register_lock(c) /\ Goto(c, "registers") /\ Enough
       \/ /\ cl[c].pc = "registers"
          /\ \E s \in Services : register_fails(c, s) \/ register_inserts(c, s)
          /\ Return(c)
    /\ UNCHANGED <<inbox, boot, listener, fsVars, calls, failed>>

\* srv_sys_info; without memory for the answer the lock stays held.
client_info(c) ==
    /\ \/ cl[c].pc = "info" /\ spin_read_lock /\ Goto(c, "infos") /\ Enough /\ UNCHANGED leaked
       \/ cl[c].pc = "infos" /\ Return(c) /\ Enough /\ spin_read_unlock /\ UNCHANGED leaked
       \/ cl[c].pc = "infos" /\ Return(c) /\ NoMemory /\ leaked' = TRUE /\ UNCHANGED rw
    /\ UNCHANGED <<srv, inserting, inbox, boot, listener, fsVars, calls, failed>>

\* rbt_find without the lock.  What it meets while a service is being inserted may
\* be anything.
srv_call_find(c) ==
    /\ cl[c].pc = "find"
    /\ \/ IF cl[c].op \in DOMAIN srv THEN Goto(c, "send") ELSE Return(c)
       \/ inserting # NULL /\ Return(c)
    /\ failed' \in IF inserting = NULL THEN {"no"} ELSE {"no", "srv tree race"}
    /\ UNCHANGED <<srvVars, inbox, boot, listener, fsVars, calls, fails>>

\* The box of a service is BOX_RCV_BLK from when its listener goes to sleep until that
\* runs again, and msg_send calls schd_run each time: a second call stops the kernel.
\* This is about one CPU.
Wakes(s) ==
    /\ listener' = IF listener[s] = "asleep" THEN [listener EXCEPT ![s] = "woken"] ELSE listener
    /\ failed' = IF listener[s] = "woken" THEN "schd_run" ELSE "no"

\* The message, with the number of a new box, is made and sent.
srv_call_send(c) ==
    /\ cl[c].pc = "send"
    /\ \/ NoMemory /\ Return(c) /\ UNCHANGED <<inbox, listener, failed>>
       \/ /\ Enough
          /\ Goto(c, "wait")
          /\ inbox' = [inbox EXCEPT ![cl[c].op] = Append(@, c)]
          /\ Wakes(cl[c].op)
    /\ UNCHANGED <<srvVars, boot, fsVars, calls>>

\* A request that was answered, and the path that its thread went by
Answered(c) == [op |-> cl[c].op, path |-> cl[c].path, val |-> cl[c].val, way |-> h[c].way, res |-> h[c].res]

srv_call_reply(c) ==
    /\ cl[c].pc = "wait"
    /\ h[c].pc = "sent"
    /\ h' = [h EXCEPT ![c] = NoHandler]
    /\ Returns(c, {Answered(c)})
    /\ UNCHANGED <<srvVars, inbox, boot, listener, tree, files, linking, calls, fails, failed>>

-----------------------------------------------------------------------------
(***************************************************************************)
(* service_listen and srv_called                                           *)
(***************************************************************************)
Listens(s, pc) == listener' = [listener EXCEPT ![s] = pc]

srv_called_lock(s) ==
    /\ listener[s] = "called"
    /\ spin_read_lock
    /\ Listens(s, "find")
    /\ UNCHANGED <<srv, inserting, leaked, inbox, boot, cl, fsVars, history, calls, fails, failed>>

\* A service that is not there, or belongs to another process, is a panic.
srv_called_find(s) ==
    /\ listener[s] = "find"
    /\ spin_read_unlock
    /\ IF s \in DOMAIN srv /\ srv[s] = "fssrv" THEN Listens(s, "recieve") /\ UNCHANGED failed
       ELSE failed' = "called error" /\ UNCHANGED listener
    /\ UNCHANGED <<srv, inserting, leaked, inbox, boot, cl, fsVars, history, calls, fails>>

\* The box is empty, and the listener is blocked.
srv_called_sleep(s) ==
    /\ listener[s] = "recieve"
    /\ inbox[s] = << >>
    /\ Listens(s, "asleep")
    /\ UNCHANGED <<srvVars, inbox, boot, cl, fsVars, history, calls, fails, failed>>

\* Mutant: a message is received, and the listener goes on without a thread for it.
srv_called_recieve_Drops(s) ==
    /\ listener[s] \in {"recieve", "woken"}
    /\ inbox[s] # << >>
    /\ inbox' = [inbox EXCEPT ![s] = Tail(@)]
    /\ Listens(s, "called")
    /\ UNCHANGED <<srvVars, boot, cl, fsVars, history, calls, fails, failed>>

\* A message is received, and a thread is made for it.
srv_called_recieve(s) ==
    /\ listener[s] \in {"recieve", "woken"}
    /\ inbox[s] # << >>
    /\ inbox' = [inbox EXCEPT ![s] = Tail(@)]
    /\ \/ NoMemory /\ failed' = "listener panic" /\ UNCHANGED <<h, listener>>
       \/ /\ Enough
          /\ h' = [h EXCEPT ![Head(inbox[s])].pc = "cut"]
          /\ Listens(s, "called")
          /\ UNCHANGED failed
    /\ UNCHANGED <<srvVars, boot, cl, tree, files, linking, history, calls>>

-----------------------------------------------------------------------------
(***************************************************************************)
(* The handlers, the thread for the call of c                              *)
(***************************************************************************)
Handles(c, pc) == failed = "no" /\ h[c].pc = pc

Reply(c, err, out) == h' = [h EXCEPT ![c].pc = "reply", ![c].res = <<err, out>>, ![c].data = 0, ![c].names = {}]

Fails(what) == failed' = what /\ UNCHANGED <<h, tree, files, linking, fails>>

handlerRest == <<srvVars, inbox, boot, listener, cl, history, calls>>

\* path_cut makes the names of the path and returns nothing.  Its callers use what is
\* left in the register: the path, another one, or an address that nothing is mapped at.
path_cut(c) ==
    /\ Handles(c, "cut")
    /\ \/ NoMemory /\ failed' = "path_cut assertion" /\ UNCHANGED h
       \/ Enough /\ failed' = "wild read" /\ UNCHANGED h
       \/ /\ Enough
          /\ \E w \in {cl[c].path} \cup Strays :
                h' = [h EXCEPT ![c].pc = "walk", ![c].way = w, ![c].f = tree[<< >>]]
          /\ UNCHANGED failed
    /\ UNCHANGED <<handlerRest, tree, files, linking>>

\* The directory that the walk is in, and the file it looks for
Dir(c) == SubSeq(h[c].way, 1, h[c].at)
Child(c) == SubSeq(h[c].way, 1, h[c].at + 1)

AtEnd(c) == h[c].at = Len(h[c].way)

\* One round of the loops of file_find and file_create: rbt_find
file_walk(c) ==
    /\ Handles(c, "walk")
    /\ ~ AtEnd(c)
    /\ IF linking = Dir(c) THEN Fails("tree race")
       ELSE /\ IF Child(c) \in DOMAIN tree
               THEN h' = [h EXCEPT ![c].at = @ + 1, ![c].f = tree[Child(c)]]
               ELSE IF cl[c].op = "create" THEN h' = [h EXCEPT ![c].pc = "new"]
               ELSE Reply(c, "E_NOTFOUND", 0)
            /\ UNCHANGED <<tree, files, linking, fails, failed>>
    /\ UNCHANGED handlerRest

\* The last name gets the type that the path asks for, the others are directories.
file_new(c) ==
    /\ Handles(c, "new")
    /\ \/ NoMemory /\ Reply(c, "E_NOMEM", 0) /\ UNCHANGED files
       \/ /\ Enough
          /\ files' = Append(files, File(IF Child(c) = h[c].way THEN cl[c].path ELSE << >>))
          /\ h' = [h EXCEPT ![c].pc = "insert", ![c].f = Len(files) + 1]
    /\ UNCHANGED <<handlerRest, tree, linking, failed>>

\* rbt_insert goes down the tree and links the file ...
file_insert(c) ==
    /\ Handles(c, "insert")
    /\ IF linking = Dir(c) THEN Fails("tree race")
       ELSE IF Child(c) \in DOMAIN tree THEN Fails("create assertion")
       ELSE /\ linking' = Dir(c)
            /\ h' = [h EXCEPT ![c].pc = "link"]
            /\ UNCHANGED <<tree, files, fails, failed>>
    /\ UNCHANGED handlerRest

\* ... and balances it.
file_link(c) ==
    /\ Handles(c, "link")
    /\ tree' = (Child(c) :> h[c].f) @@ tree
    /\ linking' = NULL
    /\ h' = [h EXCEPT ![c].pc = "walk", ![c].at = @ + 1]
    /\ UNCHANGED <<handlerRest, files, fails, failed>>

\* file_create and file_find are done.
file_found(c) ==
    /\ Handles(c, "walk")
    /\ AtEnd(c)
    /\ IF cl[c].op \in {"create", "find"} THEN Reply(c, "E_OK", 0)
       ELSE h' = [h EXCEPT ![c].pc = cl[c].op]
    /\ UNCHANGED <<handlerRest, tree, files, linking, fails, failed>>

\* *addr = file->data, and *size = file->size
file_read(c) ==
    /\ \/ Handles(c, "read") /\ h' = [h EXCEPT ![c].data = files[h[c].f].data, ![c].pc = "reads"]
       \/ Handles(c, "reads") /\ Reply(c, "E_OK", <<h[c].data, files[h[c].f].size>>)
    /\ UNCHANGED <<handlerRest, tree, files, linking, fails, failed>>

\* Mutant: the size is forgotten.
file_write_Data(c) ==
    /\ Handles(c, "write") /\ files' = [files EXCEPT ![h[c].f].data = cl[c].val] /\ Reply(c, "E_OK", 0)
    /\ UNCHANGED <<handlerRest, tree, linking, fails, failed>>

\* file->data = addr, and file->size = size
file_write(c) ==
    /\ \/ /\ Handles(c, "write")
          /\ files' = [files EXCEPT ![h[c].f].data = cl[c].val]
          /\ h' = [h EXCEPT ![c].pc = "writes"]
       \/ /\ Handles(c, "writes")
          /\ files' = [files EXCEPT ![h[c].f].size = cl[c].val]
          /\ Reply(c, "E_OK", 0)
    /\ UNCHANGED <<handlerRest, tree, linking, fails, failed>>

\* The names are counted, and copied to a cache that has just the room for them.
file_subfile(c) == LET names == Children(tree, h[c].way) IN
    /\ \/ /\ Handles(c, "subfile")
          /\ IF files[h[c].f].type # "FILE_DIR" THEN Reply(c, "E_INVAL", 0) /\ Enough
             ELSE IF names = {} THEN Reply(c, "E_NOTFOUND", 0) /\ Enough
             ELSE \/ NoMemory /\ Reply(c, "E_NOMEM", 0)
                  \/ Enough /\ h' = [h EXCEPT ![c].names = names, ![c].pc = "copies"]
          /\ UNCHANGED failed
       \/ /\ Handles(c, "copies")
          /\ Reply(c, "E_OK", names)
          /\ failed' = IF Cardinality(names) > Cardinality(h[c].names) THEN "overflow" ELSE "no"
          /\ Enough
    /\ UNCHANGED <<handlerRest, tree, files, linking>>

\* _file_delete goes by ffile, which nothing sets: the root of some other tree, or
\* of none, is written.  A file that is alone in its directory stays there, so a
\* directory that is not empty is emptied for ever.
file_delete(c) ==
    LET p == h[c].way
        out == [q \in DOMAIN tree \ {p} |-> tree[q]]
    IN  /\ Handles(c, "delete")
        /\ \/ Fails("wild write")
           \/ /\ IF Children(tree, p) # {} THEN h' = [h EXCEPT ![c].pc = "hung"] /\ UNCHANGED tree
                 ELSE /\ tree' \in IF p = << >> \/ Children(tree, Prefix(p)) = {p} THEN {tree} ELSE {tree, out}
                      /\ Reply(c, "E_OK", 0)
              /\ UNCHANGED <<files, linking, fails, failed>>
        /\ UNCHANGED handlerRest

\* srv_reply; nobody looks at its result.
srv_reply(c) ==
    /\ Handles(c, "reply")
    /\ \/ NoMemory /\ h' = [h EXCEPT ![c].pc = "hung"]
       \/ Enough /\ h' = [h EXCEPT ![c].pc = "sent"]
    /\ UNCHANGED <<handlerRest, tree, files, linking, failed>>

-----------------------------------------------------------------------------
Client(c) == failed = "no" /\ 
    (client_register(c) \/ client_info(c) \/ srv_call_find(c) \/ srv_call_send(c) \/ srv_call_reply(c))

Listener(s) == failed = "no" /\ (srv_called_lock(s) \/ srv_called_find(s) \/ srv_called_sleep(s) \/ srv_called_recieve(s))

Handler(c) ==
    \/ path_cut(c) \/ file_walk(c) \/ file_new(c) \/ file_insert(c) \/ file_link(c) \/ file_found(c)
    \/ file_read(c) \/ file_write(c) \/ file_subfile(c) \/ file_delete(c) \/ srv_reply(c)

Boot == failed = "no" /\ (boot_register \/ service_enable)

Next ==
    /\ UNCHANGED Names
    /\ \/ Boot
       \/ \E s \in Services : Listener(s)
       \/ \E c \in Clients : call(c) \/ Client(c) \/ Handler(c)

\* Every thread goes on; only that a client makes a call is up to it.
Fairness ==
    /\ WF_vars(Boot /\ UNCHANGED Names)
    /\ \A i \in 1 .. Max({Len(o) : o \in Offers}) :
        WF_vars(i <= Len(Names) /\ Listener(Names[i]) /\ UNCHANGED Names)
    /\ \A c \in Clients : WF_vars((Client(c) \/ Handler(c)) /\ UNCHANGED Names)

Spec == Init /\ [][Next]_vars /\ Fairness

-----------------------------------------------------------------------------
(***************************************************************************)
(* Properties                                                              *)
(***************************************************************************)

\* While a service is inserted, no thread is inside the search of srv_called or the
\* walk of srv_sys_info.
SearchExclusive ==
    inserting # NULL => /\ \A s \in Services : listener[s] # "find"
                        /\ \A c \in Clients : cl[c].pc # "infos"

\* The results of a file system whose operations are atomic
Result(op, p, fs) ==
    IF (IF op = "create" THEN Prefix(p) ELSE p) \notin DOMAIN fs THEN <<"E_NOTFOUND", 0>>
    ELSE CASE op \in {"create", "write", "find"} -> <<"E_OK", 0>>
           [] op = "read" -> <<"E_OK", <<fs[p].data, fs[p].size>>>>
           [] op = "subfile" -> IF fs[p].type # "FILE_DIR" THEN <<"E_INVAL", 0>>
                                ELSE IF Children(fs, p) = {} THEN <<"E_NOTFOUND", 0>>
                                ELSE <<"E_OK", Children(fs, p)>>

After(op, p, fs, val) ==
    CASE op = "create" -> fs @@ (p :> File(p))
      [] op = "write" /\ p \in DOMAIN fs -> [fs EXCEPT ![p].data = val, ![p].size = val]
      [] OTHER -> fs

\* Two requests that use the contents of one file, one of them to write
Clash(r, q) == r # q /\ r.path = q.path /\ r.op = "write" /\ q.op \in {"read", "write"}

\* A creation makes the directories of the path and then the file, each by itself.
Parts(r) == IF r.op # "create" THEN {r}
            ELSE {[r EXCEPT !.path = SubSeq(r.path, 1, i)] : i \in 1 .. Len(r.path)}

\* Requests and parts of requests, one after the other: the results and the files
InOrder(rs) ==
    FoldLeft(LAMBDA a, r : [ok |-> a.ok /\ r.res = Result(r.op, r.path, a.fs),
                            fs |-> After(r.op, r.path, a.fs, r.val)],
             [ok |-> TRUE, fs |-> base], rs)

\* Requests whose threads met in the tree of files, without a lock, are answered, and
\* leave the files, as if they had been handled one after the other, a creation name by
\* name.  This is not said of file_delete, of requests that ran out of memory or met in
\* the contents of one file, nor of those for which path_cut did not return the path.
\* Where they met in a change of one directory, or made the same file, the server has
\* stopped.
OverlapIsAtomic ==
    LET rs == done \cup {Answered(c) : c \in {d \in Clients : h[d].pc = "sent"}}
    IN  /\ failed = "no" /\ rs # {}
        /\ \A c \in Clients : h[c].pc \in {"off", "cut", "sent"}
        /\ \A r \in rs : r.op # "delete" /\ r.way = r.path /\ r.res[1] # "E_NOMEM"
        /\ ~ \E r, q \in rs : Clash(r, q)
        => \E order \in SetToSeqs(UNION {Parts(r) : r \in rs}) :
              LET end == InOrder(order) IN end.ok /\ end.fs = View

\* A call that was sent is answered, unless memory ran out, a registration or the list of
\* the services left the lock held, a directory was to be deleted, or the file server or
\* the kernel stopped.  The last is what two calls of a service do that come before its
\* listener runs again (failed = "schd_run").
CallAnswered ==
    \A c \in Clients :
        cl[c].pc = "wait" ~> \/ cl[c].pc = "idle"
                             \/ fails > 0 \/ leaked \/ failed # "no" \/ h[c].pc = "hung"
=============================================================================

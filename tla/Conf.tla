-------------------------------- MODULE Conf --------------------------------
(***************************************************************************)
(* Runs of the configuration programs (kconfig/conf.c, and kconfig/mconf.c *)
(* in Mconf), one after the other, over the files they share:              *)
(*   disk  .config and .config.old, another configuration, the minimal     *)
(*         one, autoconf.h and auto.conf, the empty header files of the    *)
(*         symbols touched, what the last build was made from and, as      *)
(*         history, the configuration saved last and the one before it     *)
(*   job   the program that runs: where it is, its mode, the entries still *)
(*         to visit (a stack), conf_cnt, rootEntry, what it has yet to put *)
(*         on disk and where, and the state of the menu program            *)
(* A program may be killed between any two steps on the disk.              *)
(***************************************************************************)
EXTENDS Confdata

CONSTANTS MaxJobs,      \* programs run
          Numbers       \* numbers the user may type

VARIABLES disk, job, jobs

cvars == <<kc, st, disk, job, jobs>>

Asking == {"oldaskconfig", "oldconfig", "silentoldconfig", "listnewconfig", "olddefconfig"}

AllOf == [allyesconfig |-> "yes", allmodconfig |-> "mod", allnoconfig |-> "no", alldefconfig |-> "default",
          defconfig |-> "default"]

\* A file, with the values the program had that wrote it, if it was written to the end
File(lines, values) == [lines |-> lines, values |-> values]

Absent == File(NoLines, << >>)

NoJob == [at |-> "idle", mode |-> "none", sync |-> FALSE, todo |-> << >>, cnt |-> 0, root |-> 1,
          out |-> Absent, to |-> "config", file |-> "config", back |-> FALSE, edits |-> 0,
          all |-> FALSE, some |-> FALSE, unfolded |-> {}, missed |-> FALSE, failed |-> FALSE]

MenuModes == {"menuconfig", "single_menu"}

\* No build has been made, and nothing but perhaps a configuration is there.
EmptyDisk(lines) ==
    [config |-> File(lines, << >>), old |-> Absent, last |-> File(lines, << >>), before |-> Absent, alt |-> Absent, minimal |-> Absent,
     header |-> << >>, auto |-> << >>, synced |-> FALSE, touched |-> {}, made |-> FALSE, built |-> << >>]

Real == {s \in Symbols : ~sym_is_choice(s)}

\* The values once everything is calculated
All(x) == CalcEach(x, Order)

Values(x) == [s \in Real |-> sym_get_string_value(x, s)]

-----------------------------------------------------------------------------
(***************************************************************************)
(* main: reading                                                           *)
(***************************************************************************)
Visit(what, list) == [i \in DOMAIN list |-> <<what, list[i]>>]

Started(mode) ==
    [NoJob EXCEPT !.mode = mode,
                  !.at = IF mode \in Asking THEN "ask" ELSE IF mode \in MenuModes THEN "menu"
                         ELSE IF mode = "randconfig" THEN "random"
                         ELSE IF mode = "savedefconfig" THEN "minimal" ELSE "write",
                  !.sync = mode = "silentoldconfig",
                  !.todo = IF mode = "oldaskconfig" THEN <<<<"conf", 1>>>>
                           ELSE IF mode \in MenuModes THEN <<<<"menu", 1>>>> ELSE << >>,
                  !.cnt = IF mode \in Asking THEN 1 ELSE 0]

\* conf_parse leaves everything to be written.
start(mode) ==
    /\ job.at = "idle" /\ jobs < MaxJobs
    /\ mode = "silentoldconfig" => disk.config # Absent
    /\ mode = "defconfig" => disk.minimal # Absent
    /\ st' = CASE mode = "defconfig" -> conf_set_all_new_symbols(conf_read(st, disk.minimal.lines), "default")
               [] mode \in DOMAIN AllOf \ {"defconfig"} -> conf_set_all_new_symbols(st, AllOf[mode])
               [] mode = "randconfig" -> st
               [] OTHER -> conf_read(st, disk.config.lines)
    /\ job' = Started(mode) /\ jobs' = jobs + 1
    /\ UNCHANGED <<kc, disk>>

\* One pass of randconfig; rnd is what rand() gives.
RandomValue(x, c, s) ==
    [x EXCEPT !.def = [t \in Symbols |-> IF t \notin Range(kc.values[c]) THEN @[t] ELSE IF t = s THEN yes ELSE no],
              !.defval[c] = s, !.user = @ \cup {c} \cup Range(kc.values[c]), !.valid = @ \ ({c} \cup Range(kc.values[c]))]

\* The state, and whether anything changed
randomize_choice_values(x, c, rnd) ==
    IF x.cur[c] # yes THEN Value(x, FALSE)
    ELSE Value(RandomValue(x, c, kc.values[c][(rnd[c] % Len(kc.values[c])) + 1]), TRUE)

RECURSIVE RandomChoices(_, _, _)
RandomChoices(r, list, rnd) ==
    IF list = << >> THEN r
    ELSE IF ~sym_is_choice(Head(list)) \/ Head(list) \in r.x.user THEN RandomChoices(r, Tail(list), rnd)
    ELSE RandomChoices(randomize_choice_values(sym_calc_value(r.x, Head(list)), Head(list), rnd), Tail(list), rnd)

RandomPass(x, rnd) == RandomChoices(Value(AllNew(x, rnd, Real), NewSymbols(x) # {}), Order, rnd)

RandomDone(r) == st' = r.x /\ job' = [job EXCEPT !.at = IF r.v THEN "random" ELSE "write"]

random(rnd) ==
    /\ job.at = "random"
    /\ RandomDone(RandomPass(st, rnd))
    /\ UNCHANGED <<kc, disk, jobs>>

-----------------------------------------------------------------------------
(***************************************************************************)
(* conf and check_conf: the entries in turn, with the questions they ask   *)
(***************************************************************************)

\* The next entry is done: the state, and the entries to visit in its place
Done(x, more) == st' = x /\ job' = [job EXCEPT !.todo = more \o Tail(@)]

\* conf_askvalue: is the user asked?
Asked(x, s) == sym_is_changable(x, s) /\ (job.mode = "oldaskconfig" \/ ~sym_has_value(x, s))

\* conf_sym and conf_string: asked again until the answer is accepted
Answer(x, s, v) == IF Tri(s) THEN sym_set_tristate_value(x, s, v) ELSE sym_set_string_value(x, s, v)

Accepts(r, more) == r.v /\ Done(r.x, more)

AskSymbol(x, s, more) ==
    IF Asked(x, s) THEN \E v \in IF Tri(s) THEN {no, mod, yes} ELSE Numbers : Accepts(Answer(x, s, v), more)
    ELSE Done(x, more)

Kids(what, m) == Visit(what, kc.menu[m].list)

\* conf_choice asks for the choice itself, and then, when it is y, for its value.
Choice(x, m, s) == AskSymbol(x, s, <<<<IF sym_has_value(x, s) THEN "old" ELSE "new", m>>>>)

conf(x, m) ==
    IF kc.menu[m].prompt # 0 /\ kc.prop[kc.menu[m].prompt].type = "MENU"
       /\ job.mode \in {"silentoldconfig", "listnewconfig", "olddefconfig"} /\ job.root # m
    THEN Done(x, <<<<"check", m>>>>)
    ELSE IF kc.menu[m].sym = NULL THEN Done(x, Kids("conf", m))
    ELSE IF sym_is_choice(kc.menu[m].sym) THEN Choice(x, m, kc.menu[m].sym)
    ELSE AskSymbol(x, kc.menu[m].sym, Kids("conf", m))

\* The children of a choice that are visible, with the state after looking
Shown(x, m) == FoldLeft(LAMBDA r, c : LET v == menu_is_visible(r.x, c) IN
                                      Value(v.x, IF v.v /\ kc.menu[c].sym # NULL THEN Append(r.v, c) ELSE r.v),
                        Value(x, << >>), kc.menu[m].list)

Choose(x, c) ==
    Done(sym_set_tristate_value(x, kc.menu[c].sym, yes).x, Append(Kids("conf", c), <<"end", kc.menu[c].parent>>))

\* Is the user asked for the value, and which can be taken?
NewValues(what) == what = "new" \/ job.mode = "oldaskconfig"

Takes(r, new, s) == {i \in DOMAIN r.v : new \/ Len(r.v) = 1 \/ kc.menu[r.v[i]].sym = r.x.curval[s]}

AskValue(r, new, s) == \E i \in Takes(r, new, s) : Choose(r.x, r.v[i])

choose(x, m, new) ==
    CASE TriOf(x, kc.menu[m].sym) = no  -> Done(x, << >>)
      [] TriOf(x, kc.menu[m].sym) = mod -> Done(x, Kids("conf", m))
      [] TriOf(x, kc.menu[m].sym) = yes -> AskValue(Shown(x, m), new, kc.menu[m].sym)

\* menu_get_parent_menu
RECURSIVE ParentMenu(_)
ParentMenu(m) ==
    IF m = 1 \/ (kc.menu[m].prompt # 0 /\ kc.prop[kc.menu[m].prompt].type = "MENU") THEN m
    ELSE ParentMenu(kc.menu[m].parent)

\* Mutant: what has a value is new again.
IsNew_Any(x, s) == s # NULL /\ (sym_is_changable(x, s) \/ (sym_is_choice(s) /\ TriOf(x, s) = yes))

IsNew(x, s) ==
    /\ s # NULL /\ ~sym_has_value(x, s)
    /\ sym_is_changable(x, s) \/ (sym_is_choice(s) /\ TriOf(x, s) = yes)

check_conf(x, m) ==
    IF IsNew(x, kc.menu[m].sym) /\ job.mode \notin {"listnewconfig", "olddefconfig"}
    THEN /\ st' = x
         /\ job' = [job EXCEPT !.todo = <<<<"conf", ParentMenu(m)>>>> \o Kids("check", m) \o Tail(@),
                               !.cnt = 1, !.root = ParentMenu(m)]
    ELSE Done(x, Kids("check", m))

IfShown(r, what, m) ==
    IF ~r.v THEN Done(r.x, << >>) ELSE IF what = "conf" THEN conf(r.x, m) ELSE check_conf(r.x, m)

visit ==
    /\ job.at = "ask" /\ job.todo # << >>
    /\ LET what == Head(job.todo)[1]
           m    == Head(job.todo)[2]
       IN IF what = "end" THEN Done(st, IF TriOf(st, kc.menu[m].sym) = mod THEN Kids("conf", m) ELSE << >>)
          ELSE IF what \in {"old", "new"} THEN choose(sym_calc_value(st, kc.menu[m].sym), m, NewValues(what))
          ELSE IfShown(menu_is_visible(st, m), what, m)
    /\ UNCHANGED <<kc, disk, jobs>>

\* Until a loop caused no more changes
again ==
    /\ job.at = "ask" /\ job.todo = << >>
    /\ job' = IF job.cnt # 0
              THEN [job EXCEPT !.todo = <<<<"check", 1>>>>, !.cnt = 0,
                               !.mode = IF @ = "oldaskconfig" THEN "silentoldconfig" ELSE @]
              ELSE [job EXCEPT !.at = IF job.mode = "listnewconfig" THEN "idle"
                                      ELSE IF job.sync /\ ~st.changes THEN "split" ELSE "write"]
    /\ UNCHANGED <<kc, st, disk, jobs>>

-----------------------------------------------------------------------------
(***************************************************************************)
(* The disk                                                                *)
(***************************************************************************)
Goes(at) == [job EXCEPT !.at = at]

Exited == st' = NoValues /\ job' = NoJob

\* conf_write: a temporary file, the old one renamed, the new one renamed
\* (after a rename that failed, the symbols that were written lack SYMBOL_WRITE until
\* they are calculated again, so the next file may lack them)
WithOut(w, at) ==
    st' = w.x /\ job' = [job EXCEPT !.at = at, !.out = File(w.lines, IF job.failed THEN << >> ELSE Values(w.x))]

write ==
    /\ job.at = "write" /\ WithOut(conf_write(st), "rename_old")
    /\ UNCHANGED <<kc, disk, jobs>>

\* Mutant: the old file goes even when there is no .config to take its place.
rename_old_Always ==
    /\ job.at = "rename_old" /\ job' = Goes("rename")
    /\ disk' = IF job.to = "alt" THEN [disk EXCEPT !.alt = Absent]
               ELSE [disk EXCEPT !.old = disk.config, !.config = Absent]
    /\ UNCHANGED <<kc, st, jobs>>

rename_old ==
    /\ job.at = "rename_old" /\ job' = Goes("rename")
    /\ disk' = IF job.to = "alt" THEN [disk EXCEPT !.alt = Absent]
               ELSE IF disk.config = Absent THEN disk ELSE [disk EXCEPT !.old = disk.config, !.config = Absent]
    /\ UNCHANGED <<kc, st, jobs>>

rename ==
    /\ job.at = "rename"
    /\ disk' = IF job.to = "alt" THEN [disk EXCEPT !.alt = job.out]
               ELSE [disk EXCEPT !.config = job.out, !.last = job.out, !.before = disk.last, !.synced = FALSE]
    /\ \/ job.sync /\ st' = [st EXCEPT !.changes = FALSE] /\ job' = Goes("split")
       \/ job.back /\ st' = [st EXCEPT !.changes = FALSE]
          /\ job' = [job EXCEPT !.at = "menu", !.out = Absent, !.file = job.to, !.missed = job.failed, !.failed = FALSE]
       \/ ~job.sync /\ ~job.back /\ Exited
    /\ UNCHANGED <<kc, jobs>>

\* The file cannot be put in its place; the menu program says so and goes on.
rename_fails ==
    /\ job.at = "rename" /\ job.back
    /\ job' = [job EXCEPT !.at = "menu", !.out = Absent, !.failed = TRUE]
    /\ UNCHANGED <<kc, st, disk, jobs>>

\* conf_write_defconfig: the file is emptied when it is opened, ...
MinimalOpened(w) == job' = [job EXCEPT !.at = "fill", !.out = File(w.lines, Values(w.x))]

minimal ==
    /\ job.at = "minimal" /\ MinimalOpened(conf_write_defconfig(st))
    /\ disk' = [disk EXCEPT !.minimal = File(<< >>, << >>)]
    /\ UNCHANGED <<kc, st, jobs>>

\* ... gets its first lines when the buffer of stdio is full, ...
minimal_flush ==
    /\ job.at = "fill"
    /\ \E n \in Len(disk.minimal.lines) + 1 .. Len(job.out.lines) :
          disk' = [disk EXCEPT !.minimal = File(SubSeq(job.out.lines, 1, n), << >>)]
    /\ UNCHANGED <<kc, st, job, jobs>>

\* ... and is whole when it is closed.
minimal_close ==
    /\ job.at = "fill" /\ disk' = [disk EXCEPT !.minimal = job.out]
    /\ Exited /\ UNCHANGED <<kc, jobs>>

\* conf_write_autoconf: the headers of the symbols that changed, then the files
InOrder(set) == SelectSeq(Order, LAMBDA s : s \in set)

split ==
    /\ job.at = "split"
    /\ st' = All(sym_clear_all_valid(st))
    /\ job' = [job EXCEPT !.at = "touch", !.todo = InOrder(conf_split_config(sym_clear_all_valid(st), disk.auto))]
    /\ UNCHANGED <<kc, disk, jobs>>

touch ==
    /\ job.at = "touch" /\ job.todo # << >>
    /\ disk' = [disk EXCEPT !.touched = @ \cup {Head(job.todo)}]
    /\ job' = [job EXCEPT !.todo = Tail(@)]
    /\ UNCHANGED <<kc, st, jobs>>

rename_header ==
    /\ job.at = "touch" /\ job.todo = << >>
    /\ disk' = [disk EXCEPT !.header = conf_write_autoconf(st)]
    /\ job' = Goes("auto")
    /\ UNCHANGED <<kc, st, jobs>>

rename_auto ==
    /\ job.at = "auto"
    /\ disk' = [disk EXCEPT !.auto = conf_write_autoconf(st), !.synced = TRUE]
    /\ Exited /\ UNCHANGED <<kc, jobs>>

\* The program is killed.
killed == job.at \notin {"parse", "parsed", "exit", "idle"} /\ Exited /\ UNCHANGED <<kc, disk, jobs>>

\* make runs silentoldconfig first if auto.conf is older than .config, and compiles
\* what depends on a header that was touched: fixdep makes a file depend on the
\* headers of all the symbols that it names.
build ==
    /\ job.at = "idle" /\ disk.synced
    /\ disk' = [disk EXCEPT !.made = TRUE, !.built = disk.header, !.touched = {}]
    /\ disk' # disk
    /\ UNCHANGED <<kc, st, job, jobs>>
=============================================================================

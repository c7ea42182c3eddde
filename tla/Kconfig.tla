------------------------------ MODULE Kconfig -------------------------------
(***************************************************************************)
(* The configuration tool as a whole: a Kconfig file is parsed, and the    *)
(* programs run on it.                                                     *)
(***************************************************************************)
EXTENDS Mconf

CONSTANTS Texts,        \* Kconfig files, for the parser alone
          Projects      \* a Kconfig file, the .config there is at first, the number of
                        \* programs that count as run, and those that may be run

VARIABLES text,         \* the Kconfig file
          checked,      \* the marks sym_check_deps left, once it is parsed
          modes         \* the programs that may be run

kvars == <<text, checked, modes, cvars>>

Batch == Asking \cup DOMAIN AllOf \cup {"savedefconfig", "randconfig"}

\* What rand() may give for the symbols of the file
Drawn == {s \in Symbols : Tri(s) /\ PropsOf(s, {"SYMBOL"}) # << >>}

Rnd == {f \in [Drawn -> {no, mod, yes}] : \A s \in Drawn : Has(s, "bool") => f[s] # mod}

Init ==
    /\ kc = NoFile /\ checked = NoMarks
    /\ \/ \E t \in Texts : text = t /\ modes = {} /\ disk = EmptyDisk(NoLines) /\ jobs = MaxJobs
       \/ \E p \in Projects : text = p[1] /\ modes = p[4] /\ disk = EmptyDisk(p[2]) /\ jobs = p[3]
    /\ st = NoValues /\ job = [NoJob EXCEPT !.at = "parse"]

parse ==
    /\ job.at = "parse"
    /\ kc' = Finalized(text)
    /\ checked' = DepsChecked(kc', Order)
    /\ st' = NoValues'
    /\ job' = [NoJob EXCEPT !.at = IF checked'.errs THEN "exit" ELSE IF jobs = MaxJobs THEN "parsed" ELSE "idle"]
    /\ UNCHANGED <<text, modes, disk, jobs>>

run ==
    /\ UNCHANGED <<text, checked, modes>>
    /\ \/ \E mode \in modes : start(mode)
       \/ job.at = "random" /\ \E rnd \in Rnd : random(rnd)
       \/ visit \/ again \/ menu \/ handle_exit
       \/ write \/ rename_old \/ rename \/ rename_fails \/ split \/ touch \/ rename_header \/ rename_auto
       \/ minimal \/ minimal_flush \/ minimal_close \/ killed \/ build

Next == parse \/ run

Asks == (visit \/ again) /\ UNCHANGED <<text, checked, modes>>

\* conf_choice asks in vain when the choice is y and none of its values can be taken.
InVain(todo) ==
    /\ todo # << >> /\ todo[1][1] \in {"old", "new"}
    /\ LET m == todo[1][2]
           x == sym_calc_value(st, kc.menu[m].sym)
       IN TriOf(x, kc.menu[m].sym) = yes /\ Takes(Shown(x, m), NewValues(todo[1][1]), kc.menu[m].sym) = {}

\* The user answers what can be answered, and the program goes on.
Answered == []<>~(job.at = "ask" /\ ~InVain(job.todo)) \/ []<><<Asks>>_kvars

-----------------------------------------------------------------------------
(***************************************************************************)
(* What the conditions of a file mean, for given values of the symbols     *)
(***************************************************************************)
Tristate == {no, mod, yes}

\* Of the symbols that occur in the conditions
Occurring(k) == (Symbols \cap {k.modules}) \cup {c \in Symbols : IsChoice(k, c)}
                \cup UNION {Range(SymbolsOf(k.prop[i].vis)) : i \in DOMAIN k.prop}
                \cup UNION {Range(SymbolsOf(k.menu[m].dep)) : m \in DOMAIN k.menu}

EvalTri(f, s) == IF s \in DOMAIN f THEN f[s] ELSE IF s \in DOMAIN ConstTri THEN ConstTri[s] ELSE no

Valuations(set) == {f \in [set -> Tristate] :
                      \A s \in set : f[s] = mod => Has(s, "tristate") /\ EvalTri(f, kc.modules) # no}

RECURSIVE Eval(_, _)

Eval(f, e) ==
    IF e = NONE THEN yes
    ELSE CASE e[1] = "SYMBOL" -> EvalTri(f, e[2])
           [] e[1] = "NOT" -> 2 - Eval(f, e[2])
           [] e[1] = "AND" -> EXPR_AND(Eval(f, e[2]), Eval(f, e[3]))
           [] e[1] = "OR" -> EXPR_OR(Eval(f, e[2]), Eval(f, e[3]))
           [] OTHER -> IF Compare(e[1], Rank(e[2], EvalTri(f, e[2])), Rank(e[3], EvalTri(f, e[3]))) THEN yes ELSE no

\* The condition of an entry of the file: its own and those of what it is in
RECURSIVE Holds(_, _, _)
ParentHolds(f, k, p) ==
    IF p = 0 THEN yes
    ELSE IF k.menu[p].sym # NULL /\ IsChoice(k, k.menu[p].sym) THEN f[k.menu[p].sym]
    ELSE IF k.menu[p].prompt # 0 THEN EXPR_AND(Eval(f, k.prop[k.menu[p].prompt].vis), Holds(f, k, p))
    ELSE Holds(f, k, p)

\* A bool value of a tristate choice needs the choice to be y.
ChoiceIsYes(f, k, m) ==
    LET c == IF k.menu[m].parent = 0 THEN NULL ELSE k.menu[k.menu[m].parent].sym
    IN IF c # NULL /\ IsChoice(k, c) /\ Has(c, "tristate") /\ k.menu[m].sym # NULL /\ ~Has(k.menu[m].sym, "tristate")
       THEN IF f[c] = yes THEN yes ELSE no
       ELSE yes

Holds(f, k, m) == EXPR_AND(EXPR_AND(Eval(f, k.menu[m].dep), ChoiceIsYes(f, k, m)), ParentHolds(f, k, k.menu[m].parent))

Same(s, a, b) == IF s # NULL /\ Has(s, "tristate") THEN a = b ELSE (a = no) = (b = no)

\* What a file says is what its entries are subject to: the condition that
\* parsing and menu_finalize leave for every prompt, default, select and range
\* has, whatever the values of the symbols, the value of the conditions written
\* at it and at all it is in.
VisibleMeansDeps ==
    job.at = "parsed" =>
      LET k == Parsed(text)
      IN \A f \in Valuations(Occurring(k)) : \A i \in DOMAIN kc.prop :
           kc.prop[i].type # "CHOICE" =>
             Same(kc.prop[i].sym, Eval(f, kc.prop[i].vis),
                  EXPR_AND(Eval(f, k.prop[i].vis), Holds(f, k, k.prop[i].menu)))

\* A symbol's value depends on another's; the values of a choice and the choice
\* are one, but for the condition of each value on the choice.
Group(s) == IF s \in DOMAIN kc.choice THEN kc.choice[s] ELSE s

Dependent == {<<s, t>> \in Symbols \X Symbols : t \in Range(Needs(kc, s)) /\ ~(s \in DOMAIN kc.choice /\ t = kc.choice[s])}

RECURSIVE Reach(_, _)
Reach(edges, set) ==
    LET more == set \cup {e[2] : e \in {d \in edges : d[1] \in set}}
    IN IF more = set THEN set ELSE Reach(edges, more)

Cyclic(edges) == \E e \in edges : e[1] \in Reach(edges, {e[2]})

\* A recursive dependency is reported when there is one, and only then, whatever
\* symbol the check starts from and whatever it has already checked.
CyclesReported ==
    job.at \in {"parsed", "exit"} => (checked.reported <=> Cyclic({<<Group(d[1]), Group(d[2])>> : d \in Dependent}))

\* What a Kconfig file says is what the tree of menus says, and a file that
\* cannot be evaluated is reported.
FileMeant == VisibleMeansDeps /\ CyclesReported

-----------------------------------------------------------------------------
(***************************************************************************)
(* Values                                                                  *)
(***************************************************************************)
Running == job.at \in {"ask", "menu"}

Recalculated == CalcEach([st EXCEPT !.valid = {}], Reverse(Order))

\* A tristate choice that was set keeps its value, until the next calculation,
\* when a value of it shows that the user has not seen.
Forgetting(x) == \E c \in DOMAIN kc.values : Has(c, "tristate") /\ c \notin st.user /\ st.cur[c] # x.cur[c]

SameValues(x) == \A s \in st.valid \cap Real : st.cur[s] = x.cur[s]

\* What is kept is what would be calculated: while a program runs, every value
\* that is marked valid is the one that follows from the user's values and the
\* file, in whatever order the symbols are calculated.
Fresh == Running => SameValues(Recalculated) \/ Forgetting(Recalculated)

\* A choice that is y has exactly one of its values y, and no other one set.
ChoiceExclusive ==
    Running => LET x == All(st)
               IN \A c \in DOMAIN kc.values :
                    /\ x.cur[c] = yes => Cardinality({s \in Range(kc.values[c]) : x.cur[s] = yes}) = 1
                    /\ x.cur[c] = no  => \A s \in Range(kc.values[c]) : x.cur[s] = no

\* After any edits the values are those that follow from the user's choices.
ValuesExact == Fresh /\ ChoiceExclusive

ReadBack(file) == Values(All(conf_read(NoValues, file.lines)))

\* What a program wrote is what the next one reads: the values in .config, or
\* in .config.old while there is no .config, are those of the program that
\* wrote it.
RoundTrip ==
    job.at = "idle" =>
        \A file \in {disk.config, disk.old} : file.values # << >> => ReadBack(file) = file.values

\* Nothing is lost: when nothing counts as changed, so that the menu program ends
\* without a question, its values are those of the file it would write, unless
\* a file to load was not there, which makes the program forget its changes, or the
\* file was saved after a save that failed, and may lack what that one had written.
NothingLost ==
    job.at = "menu" /\ ~st.changes /\ ~job.missed /\ disk[job.file] # Absent =>
        Values(All(st)) = ReadBack(disk[job.file])

\* A minimal configuration that was written to the end stands for the whole one it was
\* made from.  It is written in place: a program that is killed leaves a part of it.
DefconfigRoundTrip ==
    job.at = "idle" /\ disk.minimal.values # << >> =>
        Values(All(conf_set_all_new_symbols(conf_read(NoValues, disk.minimal.lines), "default"))) = disk.minimal.values

\* The files that conf and mconf write say what the programs held.
FilesExact == RoundTrip /\ DefconfigRoundTrip

InHeader(h, s) == IF s \in DOMAIN h THEN h[s] ELSE Empty

\* Whenever a build may start, every symbol whose value is not the one of the
\* last build has its header touched, even when programs were killed between.
ChangesRebuilt ==
    disk.synced /\ disk.made =>
        \A s \in Real : InHeader(disk.header, s) # InHeader(disk.built, s) => s \in disk.touched

\* Wherever conf_write is killed or fails, again and again, the configuration that was
\* saved last is in .config or, while there is none, in .config.old, which otherwise holds
\* the one saved before it.
ConfigKept ==
    IF disk.config = Absent THEN disk.old = disk.last
    ELSE disk.config = disk.last /\ disk.old = disk.before

\* oldconfig ends.
OldconfigEnds == job.at = "ask" ~> job.at # "ask"
=============================================================================

------------------------------- MODULE Mconf --------------------------------
(***************************************************************************)
(* The menu program (kconfig/mconf.c).  job.todo is the stack of the calls *)
(* of conf and search_conf, each <<"menu", entry>> or <<"search", symbol>>;*)
(* job.all is show_all_options, job.some whether child_count is not 0,     *)
(* job.unfolded the menus with menu->data, job.file is filename.  The      *)
(* boxes are modal: what the user does in one is part of the step, and     *)
(* what is only looked at (help, messages) is left out.                    *)
(***************************************************************************)
EXTENDS Conf

CONSTANTS MaxEdits,     \* what is set, loaded and saved in one run
          MaxDepth      \* calls of conf and search_conf

-----------------------------------------------------------------------------
(***************************************************************************)
(* build_conf: the items of a menu, each an entry and a tag                *)
(***************************************************************************)
PromptType(m) == IF kc.menu[m].prompt = 0 THEN "none" ELSE kc.prop[kc.menu[m].prompt].type

Item(b, m, tag) == [b EXCEPT !.items = Append(@, <<m, tag>>), !.some = TRUE]

\* The entry of the menu that is shown heads it, and is not counted.
Title(b, m) == [b EXCEPT !.items = Append(@, <<m, ":">>)]

RECURSIVE build_conf(_, _), BuildEach(_, _), BuildEntry(_, _, _)

BuildEach(b, list) == FoldLeft(build_conf, b, list)

\* The last child that shows the value of the choice, or 0
DefMenu(r, s) ==
    LET own == {i \in DOMAIN r.v : kc.menu[r.v[i]].sym = r.x.curval[s]}
    IN  IF own = {} THEN 0 ELSE r.v[Max(own)]

BuildChoice(b, m, s, def) ==
    LET i == Item(b, m, IF sym_is_changable(b.x, s) \/ def # 0 THEN "t" ELSE ":")
    IN  IF TriOf(b.x, s) # yes THEN BuildEach(i, kc.menu[m].list)
        ELSE IF def = 0 \/ kc.menu[def].list = << >> THEN i ELSE build_conf(i, def)

ChoiceSeen(b, r, m, s) == BuildChoice([b EXCEPT !.x = r.x], m, s, DefMenu(r, s))

BuildSymbol(b, m, s) ==
    IF m = b.current THEN BuildEach(Title(b, m), kc.menu[m].list)
    ELSE LET i == Item(b, m, IF sym_is_choice_value(s) /\ TriOf(b.x, s) = yes THEN ":" ELSE IF Tri(s) THEN "t" ELSE "s")
         IN  IF Tri(s) /\ PromptType(m) = "MENU" THEN i ELSE BuildEach(i, kc.menu[m].list)

BuildEntry(b, m, s) ==
    CASE s # NULL /\ sym_is_choice(s)  -> ChoiceSeen(b, Shown(sym_calc_value(b.x, s), m), m, s)
      [] s # NULL /\ ~sym_is_choice(s) -> BuildSymbol([b EXCEPT !.x = sym_calc_value(@, s)], m, s)
      [] s = NULL /\ m # b.current /\ PromptType(m) = "MENU" ->
            IF m \in job.unfolded THEN BuildEach(Item(b, m, "m"), kc.menu[m].list) ELSE Item(b, m, "m")
      [] s = NULL /\ m # b.current /\ PromptType(m) = "COMMENT" -> BuildEach(Item(b, m, ":"), kc.menu[m].list)
      [] OTHER -> BuildEach(b, kc.menu[m].list)

BuildIf(b, r, m) ==
    IF IF job.all THEN kc.menu[m].prompt # 0 ELSE r.v
    THEN BuildEntry([b EXCEPT !.x = r.x], m, kc.menu[m].sym) ELSE [b EXCEPT !.x = r.x]

build_conf(b, m) == BuildIf(b, menu_is_visible(b.x, m), m)

Built(m) == build_conf([x |-> st, items |-> << >>, some |-> job.some, current |-> m], m)

-----------------------------------------------------------------------------
(***************************************************************************)
(* conf                                                                    *)
(***************************************************************************)
Call(frame) == Len(job.todo) < MaxDepth /\ job' = [job EXCEPT !.todo = <<frame>> \o @, !.some = TRUE]

Set(x, y) ==
    /\ job.edits < MaxEdits /\ y # x
    /\ st' = y /\ job' = [job EXCEPT !.edits = @ + 1, !.some = TRUE]

\* y, or m when y is not accepted
SetYes(r, s) == IF r.v THEN r.x ELSE sym_set_tristate_value(r.x, s, mod).x

select(x, m, tag) ==
    \/ /\ tag = "m" /\ st' = x
       /\ IF job.mode = "single_menu"
          THEN job' = [job EXCEPT !.some = TRUE, !.unfolded = IF m \in @ THEN @ \ {m} ELSE @ \cup {m}]
          ELSE Call(<<"menu", m>>)
    \/ /\ tag = "t" /\ PromptType(m) = "MENU" /\ ~sym_is_choice(kc.menu[m].sym)
       /\ st' = x /\ Call(<<"menu", m>>)

conf_choice(x, m, tag) ==
    /\ tag = "t" /\ sym_is_choice(kc.menu[m].sym) /\ TriOf(x, kc.menu[m].sym) = yes
    /\ \E c \in Range(Shown(x, m).v) : Set(x, sym_set_tristate_value(Shown(x, m).x, kc.menu[c].sym, yes).x)

conf_string(x, m, tag) ==
    tag = "s" /\ \E v \in Numbers : Set(x, sym_set_string_value(x, kc.menu[m].sym, v).x)

set_value(x, m, tag) ==
    /\ tag = "t"
    /\ \/ Set(x, SetYes(sym_set_tristate_value(x, kc.menu[m].sym, yes), kc.menu[m].sym))
       \/ \E val \in {no, mod} : Set(x, sym_set_tristate_value(x, kc.menu[m].sym, val).x)
       \/ Set(x, sym_toggle_tristate_value(x, kc.menu[m].sym))

\* Space opens a menu even in single_menu mode.
toggle_menu(x, m, tag) == tag = "m" /\ job.mode = "single_menu" /\ st' = x /\ Call(<<"menu", m>>)

\* When there is no such file the values stay, and count as not changed.
conf_load(x, name) ==
    /\ job.edits < MaxEdits
    /\ IF disk[name] # Absent
       THEN /\ st' = [conf_read(x, disk[name].lines) EXCEPT !.changes = TRUE]
            /\ job' = [job EXCEPT !.edits = @ + 1, !.some = TRUE, !.file = name, !.missed = FALSE]
       ELSE /\ st' = [sym_calc_value(x, kc.modules) EXCEPT !.changes = FALSE]
            /\ job' = [job EXCEPT !.edits = @ + 1, !.some = TRUE, !.missed = TRUE]

\* conf_write follows.
conf_save(x, name) ==
    /\ job.edits < MaxEdits /\ st' = x
    /\ job' = [job EXCEPT !.edits = @ + 1, !.some = TRUE, !.at = "write", !.to = name, !.back = TRUE]

\* What a search may find; the model looks at one symbol of it.
sym_re_search == {s \in Real : \E i \in DOMAIN kc.prop : kc.prop[i].sym = s}

conf_menu(b) ==
    \/ st' = b.x /\ job' = [job EXCEPT !.todo = Tail(@), !.some = b.some]
    \/ \E i \in DOMAIN b.items :
          \/ select(b.x, b.items[i][1], b.items[i][2])
          \/ conf_choice(b.x, b.items[i][1], b.items[i][2])
          \/ conf_string(b.x, b.items[i][1], b.items[i][2])
          \/ set_value(b.x, b.items[i][1], b.items[i][2])
          \/ toggle_menu(b.x, b.items[i][1], b.items[i][2])
    \/ b.some /\ \E name \in {"config", "alt"} : conf_load(b.x, name) \/ conf_save(b.x, name)
    \/ b.some /\ \E s \in sym_re_search : st' = sym_calc_value(b.x, s) /\ Call(<<"search", s>>)
    \/ b.some /\ st' = b.x /\ job' = [job EXCEPT !.all = ~@, !.some = TRUE]

-----------------------------------------------------------------------------
(***************************************************************************)
(* search_conf: one can go to the menu of a symbol that was found, or to   *)
(* the nearest one that shows                                              *)
(***************************************************************************)
RECURSIVE Location(_, _)
LocatedAt(r, m) == IF r.v THEN Value(r.x, m) ELSE Location(r.x, kc.menu[m].parent)

Location(x, m) == IF m = 1 THEN Value(x, 0) ELSE LocatedAt(menu_is_visible(x, m), m)

JumpFrom(r, m, location) == st' = r.x /\ Call(<<"menu", kc.menu[IF r.v THEN m ELSE location].parent>>)

JumpIf(l, m) == l.v # 0 /\ JumpFrom(menu_is_visible(l.x, m), m, l.v)

get_prompt_str(m) == JumpIf(Location(st, kc.menu[m].parent), m)

search_conf(s) ==
    \/ job' = [job EXCEPT !.todo = Tail(@)] /\ UNCHANGED st
    \/ \E i \in DOMAIN kc.prop : kc.prop[i].sym = s /\ kc.prop[i].type \in Prompts /\ get_prompt_str(kc.prop[i].menu)

menu ==
    /\ job.at = "menu" /\ job.todo # << >>
    /\ IF Head(job.todo)[1] = "menu" THEN conf_menu(Built(Head(job.todo)[2])) ELSE search_conf(Head(job.todo)[2])
    /\ UNCHANGED <<kc, disk, jobs>>

-----------------------------------------------------------------------------
\* handle_exit, after the main menu is left or on SIGINT: the user is asked only if
\* something counts as changed, and may go back to the main menu, but not on SIGINT.
handle_exit ==
    /\ job.at = "menu"
    /\ \/ (job.todo = << >> \/ ~st.changes) /\ Exited
       \/ st.changes /\ job' = [job EXCEPT !.at = "write", !.to = job.file, !.back = FALSE, !.todo = << >>] /\ UNCHANGED st
       \/ st.changes /\ job.todo = << >> /\ job' = [job EXCEPT !.todo = <<<<"menu", 1>>>>] /\ UNCHANGED st
    /\ UNCHANGED <<kc, disk, jobs>>
=============================================================================

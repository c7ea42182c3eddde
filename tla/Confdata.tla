------------------------------ MODULE Confdata ------------------------------
(***************************************************************************)
(* Configuration files (kconfig/confdata.c) and what is visible of a menu  *)
(* (menu.c).  A file is a sequence of lines <<symbol, value>>; "is not     *)
(* set" is the value n.                                                    *)
(***************************************************************************)
EXTENDS Symbol

NoLines == <<<<"none", 0>>>>      \* there is no such file

-----------------------------------------------------------------------------
(***************************************************************************)
(* menu_is_visible                                                         *)
(***************************************************************************)
RECURSIVE menu_is_visible(_, _), AnyVisible(_, _)

AnyVisible(x, list) ==
    IF list = << >> THEN Value(x, FALSE)
    ELSE LET r == menu_is_visible(x, Head(list)) IN IF r.v THEN r ELSE AnyVisible(r.x, Tail(list))

\* A symbol whose prompt is hidden shows when something below it does, and then
\* counts as the user's.
ThroughChildren(r, s) == Value([r.x EXCEPT !.user = IF r.v THEN @ \cup {s} ELSE @], r.v)

SymbolVisible(x, m, s) ==
    IF x.pvis[kc.menu[m].prompt] # no THEN Value(x, TRUE)
    ELSE IF TriOf(x, s) = no THEN Value(x, FALSE)
    ELSE ThroughChildren(AnyVisible(x, kc.menu[m].list), s)

TriVisible(r, m) == Value(SetPvis(r.x, kc.menu[m].prompt, r.v), r.v # no)

IfVisible(r, m) ==
    IF r.v = no THEN Value(r.x, FALSE)
    ELSE IF kc.menu[m].sym = NULL THEN TriVisible(expr_calc_value(r.x, kc.prop[kc.menu[m].prompt].vis), m)
    ELSE SymbolVisible(sym_calc_value(r.x, kc.menu[m].sym), m, kc.menu[m].sym)

menu_is_visible(x, m) ==
    IF kc.menu[m].prompt = 0 THEN Value(x, FALSE) ELSE IfVisible(expr_calc_value(x, kc.menu[m].vis), m)

-----------------------------------------------------------------------------
(***************************************************************************)
(* Reading                                                                 *)
(***************************************************************************)

\* The state, whether a line was warned of, and whether the file differs from what will
\* be written: conf_warnings and conf_unsaved
Reading(x, warnings, unsaved) == [x |-> x, warnings |-> warnings, unsaved |-> unsaved]

With(r, x) == Reading(x, r.warnings, r.unsaved)

Warned(r, x) == Reading(x, TRUE, r.unsaved)

Valid(s, v) == CASE SymType[s] = "bool" -> v \in {no, yes} [] SymType[s] = "tristate" -> v \in {no, mod, yes} [] OTHER -> v >= 0

\* A line for a choice value, cs its choice
ChoiceLine(r, cs, s, v) ==
    CASE v = no -> r
      [] v = mod -> IF r.x.def[cs] = yes
                    THEN Warned(r, [r.x EXCEPT !.user = @ \ {cs}])
                    ELSE With(r, [r.x EXCEPT !.def[cs] = mod])
      [] v = yes -> Reading([r.x EXCEPT !.defval[cs] = s, !.def[cs] = yes], r.warnings \/ r.x.def[cs] # no, r.unsaved)

conf_set_sym_val(r, s, v) == Reading(UserSet(r.x, s, v), r.warnings \/ s \in r.x.user, r.unsaved)

\* Mutant: the choice is not told of its value.
ReadLine_Plain(r, line) ==
    IF line[1] \notin Symbols THEN With(r, [r.x EXCEPT !.changes = TRUE])
    ELSE IF ~Valid(line[1], line[2]) THEN Warned(r, r.x)
    ELSE conf_set_sym_val(r, line[1], line[2])

ReadLine(r, line) ==
    IF line[1] \notin Symbols THEN With(r, [r.x EXCEPT !.changes = TRUE])
    ELSE IF ~Valid(line[1], line[2]) THEN Warned(r, r.x)
    ELSE IF sym_is_choice_value(line[1])
    THEN ChoiceLine(conf_set_sym_val(r, line[1], line[2]), kc.choice[line[1]], line[1], line[2])
    ELSE conf_set_sym_val(r, line[1], line[2])

\* What is known of the user's values is forgotten.
Forgotten(x) ==
    [x EXCEPT !.valid = {}, !.user = {s \in Symbols : sym_is_choice(s)}, !.changes = FALSE,
              !.def = NoValues.def, !.defval = NoValues.defval]

conf_read_simple(x, lines) == FoldLeft(ReadLine, Reading(Forgotten(x), FALSE, FALSE), lines)

\* Does the calculated value agree with the saved one?
Agrees(x, s) ==
    IF sym_has_value(x, s) THEN s \in x.write /\ x.def[s] = x.cur[s] ELSE s \notin x.write

CheckValues(r, x) == Reading(x, r.warnings, r.unsaved \/ \E s \in Symbols : ~sym_is_choice(s) /\ ~Agrees(x, s))

CalcAndCheck(r) == CheckValues(r, CalcEach(r.x, Order))

\* A value that is not visible is not the user's any more; nor is one out of range.
ResetHidden(r, s) ==
    IF r.x.vis[s] = no /\ ~r.unsaved THEN With(r, [r.x EXCEPT !.user = @ \ {s}]) ELSE r

ResetIfNot(w, r, s) ==
    IF w.v THEN With(r, w.x)
    ELSE Reading([w.x EXCEPT !.valid = @ \ {s}, !.user = @ \ {s}], r.warnings, TRUE)

ResetRange(r, s) == IF Tri(s) THEN r ELSE ResetIfNot(sym_string_within_range(r.x, s, r.x.def[s]), r, s)

RECURSIVE ResetEach(_, _)
ResetEach(r, list) ==
    IF list = << >> THEN r
    ELSE IF ~sym_has_value(r.x, Head(list)) \/ sym_is_choice_value(Head(list)) THEN ResetEach(r, Tail(list))
    ELSE ResetEach(ResetRange(ResetHidden(r, Head(list)), Head(list)), Tail(list))

WithModules(r) == With(r, sym_calc_value(r.x, kc.modules))

WithChanges(r) == [r.x EXCEPT !.changes = @ \/ r.warnings \/ r.unsaved]

conf_read(x, lines) ==
    IF lines = NoLines THEN sym_calc_value([x EXCEPT !.changes = TRUE], kc.modules)
    ELSE WithChanges(ResetEach(CalcAndCheck(WithModules(conf_read_simple(x, lines))), Order))

-----------------------------------------------------------------------------
(***************************************************************************)
(* Writing.  Both files are written in the order of the menus.             *)
(***************************************************************************)
RECURSIVE Preorder(_)
Preorder(m) == <<m>> \o FlattenSeq([i \in DOMAIN kc.menu[m].list |-> Preorder(kc.menu[m].list[i])])

Entries == Tail(Preorder(1))

\* The symbols of the entries, and headings, are calculated in turn.
RECURSIVE CalcEntries(_, _)
CalcEntries(x, list) ==
    IF list = << >> THEN x
    ELSE IF kc.menu[Head(list)].sym = NULL THEN CalcEntries(menu_is_visible(x, Head(list)).x, Tail(list))
    ELSE IF kc.menu[Head(list)].sym \in x.valid \/ sym_is_choice(kc.menu[Head(list)].sym) THEN CalcEntries(x, Tail(list))
    ELSE CalcEntries(sym_calc_value(x, kc.menu[Head(list)].sym), Tail(list))

\* The symbols to write, and those once the flag of each is cleared
Written(x) == SelectSeq([i \in DOMAIN Entries |-> kc.menu[Entries[i]].sym], LAMBDA s : s \in x.write /\ ~sym_is_choice(s))

Writing(x, symbols) ==
    [x |-> [x EXCEPT !.write = @ \ Range(symbols)],
     lines |-> [i \in DOMAIN symbols |-> <<symbols[i], sym_get_string_value(x, symbols[i])>>]]

WriteAll(x) == Writing(x, Written(x))

conf_write(x) == WriteAll(CalcEntries(IF x.changes THEN x ELSE sym_clear_all_valid(x), Entries))

\* conf_write_defconfig: only what can be changed and is not the default.  A bool
\* that is the default of a choice that is not optional is not written either.
IsDefaultChoice(x, s) ==
    /\ s \in DOMAIN kc.choice /\ kc.choice[s] \notin kc.optional
    /\ sym_choice_default(x, kc.choice[s]).v = s
    /\ SymType[s] = "bool" /\ x.cur[s] = yes

IsMinimal(x, s) ==
    /\ sym_is_changable(x, s)
    /\ sym_get_string_value(x, s) # sym_get_string_default(x, s).v
    /\ ~IsDefaultChoice(x, s)

WriteMinimal(x) == Writing(x, SelectSeq(Written(x), LAMBDA s : IsMinimal(x, s)))

conf_write_defconfig(x) == WriteMinimal(CalcEntries(sym_clear_all_valid(x), Entries))

\* conf_write_autoconf: every symbol that is written and is not n
InAuto(x, s) == s \in x.write /\ ~sym_is_choice(s) /\ ~(Tri(s) /\ sym_get_string_value(x, s) = no)

AutoLines(x) == [s \in {t \in Symbols : InAuto(x, t)} |-> sym_get_string_value(x, s)]

conf_write_autoconf(x) == AutoLines(CalcEach(x, Order))

\* conf_split_config: the symbols whose value is not the one in auto.conf
\* Mutant: a symbol that is gone is not seen.
AutoChanged_Written(x, s, auto) ==
    s \in x.write /\ IF s \in DOMAIN auto THEN x.cur[s] # auto[s] ELSE Tri(s) => x.cur[s] # no

AutoChanged(x, s, auto) ==
    IF s \in x.write
    THEN IF s \in DOMAIN auto THEN x.cur[s] # auto[s] ELSE Tri(s) => x.cur[s] # no
    ELSE s \in DOMAIN auto

ChangedSymbols(x, auto) == {s \in Symbols : ~sym_is_choice(s) /\ AutoChanged(x, s, auto)}

conf_split_config(x, auto) == ChangedSymbols(CalcEach(x, Order), auto)

-----------------------------------------------------------------------------
(***************************************************************************)
(* conf_set_all_new_symbols                                                *)
(***************************************************************************)
ModeValue(mode, s) ==
    CASE mode = "yes" -> yes [] mode = "mod" -> mod
      [] mode = "no" -> IF s \in kc.allno_y THEN yes ELSE no

NewSymbols(x) == {s \in Symbols : Tri(s) /\ s \notin x.user /\ s \notin x.valid}

AllNew(x, vals, users) ==
    sym_clear_all_valid([x EXCEPT !.def = [s \in Symbols |-> IF s \in NewSymbols(x) \cap DOMAIN vals THEN vals[s] ELSE @[s]],
                                  !.user = @ \cup (NewSymbols(x) \cap users)])

NeedChoices(x) == [x EXCEPT !.need = @ \cup {s \in Symbols : sym_is_choice_value(s) \/ (sym_is_choice(s) /\ s \notin x.user)}]

RECURSIVE SetNewChoices(_, _)
SetNewChoices(x, list) ==
    IF list = << >> THEN x
    ELSE IF ~sym_is_choice(Head(list)) \/ Head(list) \in x.user THEN SetNewChoices(x, Tail(list))
    ELSE SetNewChoices(set_all_choice_values(sym_calc_value(x, Head(list)), Head(list)), Tail(list))

conf_set_all_new_symbols(x, mode) ==
    SetNewChoices(NeedChoices(IF mode = "default" THEN sym_clear_all_valid(x)
                              ELSE AllNew(x, [s \in Symbols |-> ModeValue(mode, s)], Symbols)), Order)
=============================================================================

------------------------------- MODULE Symbol -------------------------------
(***************************************************************************)
(* The values of configuration symbols (kconfig/symbol.c): how they follow *)
(* from the user's values, the defaults, the conditions and the selects,   *)
(* and how the user sets them.  A symbol's value is kept until it is       *)
(* marked invalid.  kc is the parsed file (module Menu), st the state of   *)
(* the symbols:                                                            *)
(*   valid, write, user, need   the symbols with SYMBOL_VALID, _WRITE,     *)
(*          _DEF_USER and _NEED_SET_CHOICE_VALUES                          *)
(*   def, defval   the user's value, and for a choice the chosen symbol    *)
(*   cur, curval   the calculated ones                                     *)
(*   vis, dir, rev   visible, dir_dep.tri and rev_dep.tri                  *)
(*   pvis   visible.tri of each property                                   *)
(*   mods   modules_val                                                    *)
(*   changes   whether sym_change_count is not 0                           *)
(* The operators take and return such a state, as the C functions change   *)
(* the one there is.                                                       *)
(***************************************************************************)
EXTENDS Menu

CONSTANTS Number,       \* the value of each numeric constant
          Order         \* the symbols, in the order of the hash table

VARIABLES kc, st

Empty == -1

Tri(s) == SymType[s] \in {"bool", "tristate"}

ConstTri == [n |-> no, m |-> mod, y |-> yes]

NoValues ==
    [valid |-> {}, write |-> {}, user |-> {}, need |-> {},
     def |-> [s \in Symbols |-> IF Tri(s) THEN no ELSE Empty], defval |-> [s \in Symbols |-> NULL],
     cur |-> [s \in Symbols |-> IF Tri(s) THEN no ELSE Empty], curval |-> [s \in Symbols |-> NULL],
     vis |-> [s \in Symbols |-> no], dir |-> [s \in Symbols |-> no], rev |-> [s \in Symbols |-> no],
     pvis |-> [i \in DOMAIN kc.prop |-> no], mods |-> no, changes |-> TRUE]

sym_is_choice(s) == s \in DOMAIN kc.values

sym_is_choice_value(s) == s \in DOMAIN kc.choice

sym_has_value(x, s) == s \in x.user

PropsOf(s, types) == SelectSeq([i \in DOMAIN kc.prop |-> i],
                               LAMBDA i : kc.prop[i].sym = s /\ kc.prop[i].type \in types)

sym_get_type(x, s) ==
    IF SymType[s] = "tristate" /\ (x.mods = no \/ (sym_is_choice_value(s) /\ x.vis[s] = yes)) THEN "bool"
    ELSE SymType[s]

\* The tristate value of a symbol in an expression, and what it compares as
TriOf(x, s) == IF s \in DOMAIN ConstTri THEN ConstTri[s]
               ELSE IF s \in Symbols /\ Tri(s) THEN x.cur[s] ELSE no

ModulesTri(x) == TriOf(x, kc.modules)

\* sym_get_string_value
sym_get_string_value(x, s) ==
    IF s \in DOMAIN Number THEN Number[s]
    ELSE IF s \in DOMAIN ConstTri THEN ConstTri[s]
    ELSE IF Tri(s) /\ x.cur[s] = mod /\ ModulesTri(x) = no THEN no
    ELSE x.cur[s]

\* "m" < "n" < "y"
Rank(s, v) == IF s \in DOMAIN ConstTri \/ (s \in Symbols /\ Tri(s)) THEN <<1, 0, 2>>[v + 1] ELSE v

Compare(type, a, b) ==
    CASE type = "EQUAL" -> a = b [] type = "UNEQUAL" -> a # b [] type = "LTH" -> a < b
      [] type = "LEQ" -> a <= b  [] type = "GTH" -> a > b     [] type = "GEQ" -> a >= b

-----------------------------------------------------------------------------
(***************************************************************************)
(* Expressions.  The symbols in one are calculated, in the order they      *)
(* occur, and then its value v follows from the state x after that.        *)
(***************************************************************************)
RECURSIVE sym_calc_value(_, _), CalcEach(_, _), ExprValue(_, _)

CalcEach(x, list) ==
    IF list = << >> THEN x
    ELSE IF Head(list) \in x.valid THEN CalcEach(x, Tail(list))
    ELSE CalcEach(sym_calc_value(x, Head(list)), Tail(list))

Compared(x, e) ==
    IF Compare(e[1], Rank(e[2], sym_get_string_value(x, e[2])), Rank(e[3], sym_get_string_value(x, e[3])))
    THEN yes ELSE no

ExprValue(x, e) ==
    IF e = NONE THEN yes
    ELSE CASE e[1] = "SYMBOL" -> TriOf(x, e[2])
           [] e[1] = "AND" -> EXPR_AND(ExprValue(x, e[2]), ExprValue(x, e[3]))
           [] e[1] = "OR"  -> EXPR_OR(ExprValue(x, e[2]), ExprValue(x, e[3]))
           [] e[1] = "NOT" -> EXPR_NOT(ExprValue(x, e[2]))
           [] OTHER -> Compared(x, e)

Value(x, v) == [x |-> x, v |-> v]

ValueIn(x, e) == Value(x, ExprValue(x, e))

expr_calc_value(x, e) == ValueIn(CalcEach(x, SymbolsOf(e)), e)

-----------------------------------------------------------------------------
(***************************************************************************)
(* Conditions: visible, dir_dep and rev_dep                                *)
(***************************************************************************)

\* A choice value that is to be m is not visible while its choice is y.
PromptTri(x, s, v) ==
    IF v = mod /\ sym_is_choice_value(s) /\ SymType[s] = "tristate" /\ x.cur[kc.choice[s]] = yes THEN no ELSE v

SetPvis(x, i, v) == [x EXCEPT !.pvis[i] = v]

YesIf(cond, v) == IF v = mod /\ cond THEN yes ELSE v

Largest(set) == CHOOSE v \in set : \A w \in set : w <= v

SetVis(x, s, tri) ==
    [x EXCEPT !.pvis = tri @@ @,
              !.vis[s] = YesIf(SymType[s] # "tristate" \/ x.mods = no, Largest({no} \cup {tri[i] : i \in DOMAIN tri}))]

SetVisible(x, s) ==
    SetVis(x, s, [i \in Range(PropsOf(s, Prompts)) |-> PromptTri(x, s, ExprValue(x, kc.prop[i].vis))])

\* A dependency that is missing is y; a select that is missing is n.
SetDeps(x, s) ==
    [x EXCEPT !.dir[s] = YesIf(TRUE, ExprValue(x, kc.dir[s])),
              !.rev[s] = IF kc.rev[s] = NONE THEN no
                         ELSE YesIf(sym_get_type(x, s) = "bool", ExprValue(x, kc.rev[s]))]

ConditionSymbols(s) ==
    FlattenSeq([i \in DOMAIN PropsOf(s, Prompts) |-> SymbolsOf(kc.prop[PropsOf(s, Prompts)[i]].vis)])
    \o (IF sym_is_choice_value(s) THEN << >> ELSE SymbolsOf(kc.dir[s]) \o SymbolsOf(kc.rev[s]))

SetConditions(x, s) == IF sym_is_choice_value(s) THEN SetVisible(x, s) ELSE SetDeps(SetVisible(x, s), s)

sym_calc_visibility(x, s) == SetConditions(CalcEach(x, ConditionSymbols(s)), s)

\* The first of the properties whose condition is not n, or 0
RECURSIVE FirstVisible(_, _), ThisOrNext(_, _)
ThisOrNext(r, props) ==
    IF r.v # no THEN Value(SetPvis(r.x, Head(props), r.v), Head(props))
    ELSE FirstVisible(SetPvis(r.x, Head(props), no), Tail(props))

FirstVisible(x, props) ==
    IF props = << >> THEN Value(x, 0) ELSE ThisOrNext(expr_calc_value(x, kc.prop[Head(props)].vis), props)

sym_get_default_prop(x, s) == FirstVisible(x, PropsOf(s, {"DEFAULT"}))

sym_get_range_prop(x, s) == FirstVisible(x, PropsOf(s, {"RANGE"}))

-----------------------------------------------------------------------------
(***************************************************************************)
(* sym_calc_value                                                          *)
(***************************************************************************)
Wrote(x, s) == [x EXCEPT !.write = @ \cup {s}]

WroteIf(cond, x, s) == IF cond THEN Wrote(x, s) ELSE x

\* A default, and'ed with its condition
DefaultTri(r, i) == Value(r.x, EXPR_AND(r.v, r.x.pvis[i]))

FromDefault(r, s) ==
    IF r.v = 0 THEN Value(r.x, no) ELSE DefaultTri(expr_calc_value(Wrote(r.x, s), kc.prop[r.v].expr), r.v)

OrSelected(r, s) == Value(r.x, EXPR_OR(r.v, r.x.rev[s]))

UserOrDefault(x, s) ==
    IF x.vis[s] # no /\ sym_has_value(x, s) THEN Value(x, EXPR_AND(x.def[s], x.vis[s]))
    ELSE IF sym_is_choice(s) THEN Value(WroteIf(x.rev[s] # no, x, s), no)
    ELSE FromDefault(sym_get_default_prop(WroteIf(x.rev[s] # no, x, s), s), s)

\* Mutant: a choice value is like any other.
NewTri_Own(x, s) == OrSelected(UserOrDefault(x, s), s)

NewTri(x, s) ==
    IF sym_is_choice_value(s) /\ x.vis[s] = yes
    THEN Value(x, IF x.curval[kc.choice[s]] = s THEN yes ELSE no)
    ELSE OrSelected(UserOrDefault(x, s), s)

SetTri(r, s) == [r.x EXCEPT !.cur[s] = YesIf(sym_get_type(r.x, s) = "bool", r.v)]

\* A number: the value of the symbol the default names
NumberOf(x, s) == IF s \in DOMAIN Number THEN Number[s] ELSE x.cur[s]

CopyNumber(x, s, ds) == [x EXCEPT !.cur[s] = NumberOf(x, ds)]

NumberDefault(r, s) ==
    IF r.v = 0 THEN r.x
    ELSE CopyNumber(sym_calc_value(Wrote(r.x, s), kc.prop[r.v].expr[2]), s, kc.prop[r.v].expr[2])

NewNumber(x, s) ==
    IF x.vis[s] # no /\ sym_has_value(x, s) THEN [x EXCEPT !.cur[s] = x.def[s]]
    ELSE NumberDefault(sym_get_default_prop(x, s), s)

\* strtoll of no digits is 0.
AsNumber(v) == IF v = Empty THEN 0 ELSE v

InRange(v, lo, hi) == v >= lo /\ v <= hi

Clamp(v, lo, hi) == IF v < lo THEN lo ELSE IF v > hi THEN hi ELSE v

RangeApplied(x, s, lo, hi) ==
    IF InRange(AsNumber(x.cur[s]), lo, hi) THEN x ELSE [x EXCEPT !.cur[s] = Clamp(AsNumber(@), lo, hi)]

RangeOf(x, i) == [lo |-> AsNumber(NumberOf(x, kc.prop[i].expr[2])), hi |-> AsNumber(NumberOf(x, kc.prop[i].expr[3]))]

WithBounds(x, i) == sym_calc_value(sym_calc_value(x, kc.prop[i].expr[2]), kc.prop[i].expr[3])

ApplyRange(x, s, r) == RangeApplied(x, s, r.lo, r.hi)

ValidateWith(x, s, i) == ApplyRange(x, s, RangeOf(x, i))

RangeFound(r, s) == IF r.v = 0 THEN r.x ELSE ValidateWith(WithBounds(r.x, r.v), s, r.v)

sym_validate_range(x, s) == IF SymType[s] = "int" THEN RangeFound(sym_get_range_prop(x, s), s) ELSE x

\* The default of a choice: a visible default, or the first visible value
RECURSIVE ChoiceDefaults(_, _)
ChoiceDefault(r, props) ==
    IF r.v # 0 /\ r.x.vis[kc.prop[r.v].expr[2]] # no THEN Value(r.x, kc.prop[r.v].expr[2])
    ELSE ChoiceDefaults(r.x, Tail(props))

ChoiceDefaults(x, props) ==
    IF props = << >> THEN Value(x, NULL) ELSE ChoiceDefault(FirstVisible(x, <<Head(props)>>), props)

FirstValue(x, values) == IF values = << >> THEN NULL ELSE Head(values)

ElseFirst(r, c) ==
    IF r.v # NULL THEN r ELSE Value(r.x, FirstValue(r.x, SelectSeq(kc.values[c], LAMBDA s : r.x.vis[s] # no)))

sym_choice_default(x, c) == ElseFirst(ChoiceDefaults(x, PropsOf(c, {"DEFAULT"})), c)

\* A choice is the user's when all its visible values are.
ChoiceUser(x, c) ==
    IF \A s \in Range(kc.values[c]) : x.vis[s] # no => s \in x.user THEN x ELSE [x EXCEPT !.user = @ \ {c}]

SetChoice(r, c) == [r.x EXCEPT !.curval[c] = r.v, !.cur[c] = IF r.v = NULL THEN no ELSE @]

ChosenOrDefault(x, c) ==
    IF x.defval[c] # NULL /\ x.vis[x.defval[c]] # no THEN Value(x, x.defval[c]) ELSE sym_choice_default(x, c)

sym_calc_choice(x, c) ==
    SetChoice(ChosenOrDefault(ChoiceUser(FoldLeft(sym_calc_visibility, x, kc.values[c]), c), c), c)

\* What follows for the values of a choice
ValuesWritten(x, c) ==
    IF c \notin x.write THEN x
    ELSE [x EXCEPT !.write = (@ \cup {s \in Range(kc.values[c]) : x.vis[s] # no}) \ {c}]

set_all_choice_values(x, c) ==
    [x EXCEPT !.def = [s \in Symbols |-> IF s \in Range(kc.values[c]) \ x.user THEN no ELSE @[s]],
              !.user = @ \cup {c}, !.valid = @ \ {c}, !.need = @ \ {c}]

SetValuesIfNeeded(x, c) == IF c \in x.need THEN set_all_choice_values(x, c) ELSE x

Chosen(x, c) == IF x.cur[c] = yes THEN sym_calc_choice(x, c) ELSE x

SetModules(x, s) == IF s = kc.modules THEN [x EXCEPT !.mods = x.cur[s]] ELSE x

NewValue(x, s) ==
    IF ~Tri(s) THEN sym_validate_range(NewNumber(x, s), s)
    ELSE IF sym_is_choice(s)
    THEN SetValuesIfNeeded(ValuesWritten(Chosen(SetTri(NewTri(x, s), s), s), s), s)
    ELSE SetModules(SetTri(NewTri(x, s), s), s)

\* The value while the symbol is calculated
Cleared(x, s) == [x EXCEPT !.cur[s] = IF Tri(s) THEN no ELSE Empty, !.curval[s] = NULL]

Marked(x, s) == [x EXCEPT !.valid = @ \cup {s}, !.write = IF sym_is_choice_value(s) THEN @ ELSE @ \ {s}]

ChoiceFirst(x, s) ==
    IF sym_is_choice_value(s) /\ s \in x.need
    THEN sym_calc_value([x EXCEPT !.need = @ \ {s}], kc.choice[s]) ELSE x

\* What is visible is written; a choice sees to its values.
Calculate(x, s) ==
    IF x.vis[s] = no \/ (sym_is_choice_value(s) /\ x.vis[s] = yes) THEN NewValue(Cleared(x, s), s)
    ELSE NewValue(Wrote(Cleared(x, s), s), s)

sym_calc_value(x, s) ==
    IF s \notin Symbols \/ s \in x.valid THEN x
    ELSE Calculate(sym_calc_visibility(Marked(ChoiceFirst(x, s), s), s), s)

-----------------------------------------------------------------------------
(***************************************************************************)
(* What the user does                                                      *)
(***************************************************************************)
\* Mutant: nothing counts as changed.
sym_clear_all_valid_Quiet(x) == sym_calc_value([x EXCEPT !.valid = {}], kc.modules)

sym_clear_all_valid(x) == sym_calc_value([x EXCEPT !.valid = {}, !.changes = TRUE], kc.modules)

sym_is_changable(x, s) == x.vis[s] > x.rev[s]

sym_tristate_within_range(x, s, val) ==
    /\ x.vis[s] # no
    /\ val = mod => sym_get_type(x, s) # "bool"
    /\ x.vis[s] > x.rev[s]
    /\ IF sym_is_choice_value(s) /\ x.vis[s] = yes THEN val = yes ELSE InRange(val, x.rev[s], x.vis[s])

\* Setting a choice value makes all the visible ones the user's.
ChoiceSet(x, s) ==
    [x EXCEPT !.defval[kc.choice[s]] = s,
              !.user = @ \cup {kc.choice[s]} \cup {t \in Range(kc.values[kc.choice[s]]) : x.vis[t] # no}]

UserSet(x, s, val) == [x EXCEPT !.user = @ \cup {s}, !.def[s] = val]

TriSet(x, s, val) == IF sym_is_choice_value(s) /\ val = yes THEN ChoiceSet(UserSet(x, s, val), s) ELSE UserSet(x, s, val)

\* The state after, and whether the value was accepted
sym_set_tristate_value(x, s, val) ==
    IF x.cur[s] = val THEN Value(TriSet(x, s, val), TRUE)
    ELSE IF ~sym_tristate_within_range(x, s, val) THEN Value(x, FALSE)
    ELSE Value(sym_clear_all_valid(TriSet(x, s, val)), TRUE)

\* n, m, y, n ...: the next one that is accepted
RECURSIVE Toggle(_, _, _)
Toggled(r, s, val) == IF r.v THEN r.x ELSE Toggle(r.x, s, (val + 1) % 3)
Toggle(x, s, val) == Toggled(sym_set_tristate_value(x, s, val), s, val)

sym_toggle_tristate_value(x, s) == Toggle(x, s, (x.cur[s] + 1) % 3)

WithinFound(r, val) ==
    Value(r.x, r.v = 0 \/ InRange(val, RangeOf(r.x, r.v).lo, RangeOf(r.x, r.v).hi))

BoundsFound(r) == IF r.v = 0 THEN r ELSE Value(WithBounds(r.x, r.v), r.v)

sym_string_within_range(x, s, val) == WithinFound(BoundsFound(sym_get_range_prop(x, s)), val)

NumberSet(x, s, val) == IF x.def[s] = val THEN UserSet(x, s, val) ELSE sym_clear_all_valid(UserSet(x, s, val))

IfWithin(r, s, val) == IF r.v THEN Value(NumberSet(r.x, s, val), TRUE) ELSE r

\* A number; what is no number is refused.
sym_set_string_value(x, s, val) == IfWithin(sym_string_within_range(x, s, val), s, val)

\* The value without the user's: mod is yes without modules, and for a bool
StringDefault(r, s) ==
    Value(r.x, YesIf(SymType[s] = "bool" \/ (~sym_is_choice_value(s) /\ ModulesTri(r.x) = no),
                     EXPR_OR(r.v, r.x.rev[s])))

TriDefault(r) == IF r.v = 0 THEN Value(r.x, no) ELSE DefaultTri(expr_calc_value(r.x, kc.prop[r.v].expr), r.v)

NumberFrom(x, s) == Value(x, NumberOf(x, s))

NumberIfAny(r) == IF r.v = 0 THEN Value(r.x, Empty)
                  ELSE NumberFrom(sym_calc_value(r.x, kc.prop[r.v].expr[2]), kc.prop[r.v].expr[2])

DefaultOf(x, s) ==
    IF Tri(s) THEN StringDefault(TriDefault(sym_get_default_prop(x, s)), s)
    ELSE NumberIfAny(sym_get_default_prop(x, s))

sym_get_string_default(x, s) == DefaultOf(sym_calc_value(sym_calc_visibility(x, s), kc.modules), s)
=============================================================================

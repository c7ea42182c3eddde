-------------------------------- MODULE Menu --------------------------------
(***************************************************************************)
(* From a Kconfig file to the tree of menus (kconfig/zconf.y, menu.c and   *)
(* the check for recursive dependencies of symbol.c).  A file is a         *)
(* sequence of statements; what its parsing and menu_finalize leave is one *)
(* record:                                                                 *)
(*   menu   the entries, numbered as they are read; 1 is the root          *)
(*   entry, top   current_entry and current_menu                           *)
(*   prop   the properties, in the order they are added; that of a symbol  *)
(*          is the subsequence with its name                               *)
(*   rev, dir   the expressions rev_dep and dir_dep of a symbol            *)
(*   choice, values   the choice a symbol belongs to, the symbols of one   *)
(*   modules   modules_sym                                                 *)
(***************************************************************************)
EXTENDS Expr, SequencesExt

Symbols == DOMAIN SymType

NULL == "NULL"

EmptyMenu(s, parent) == [sym |-> s, parent |-> parent, dep |-> NONE, vis |-> NONE, prompt |-> 0, list |-> << >>]

NoFile == [menu |-> <<EmptyMenu(NULL, 0)>>, entry |-> 1, top |-> 1, prop |-> << >>,
           rev |-> [s \in Symbols |-> NONE], dir |-> [s \in Symbols |-> NONE],
           choice |-> << >>, values |-> << >>, optional |-> {}, allno_y |-> {}, modules |-> "n"]

-----------------------------------------------------------------------------
(***************************************************************************)
(* The actions of the parser                                               *)
(***************************************************************************)

\* m on its own needs modules.
RECURSIVE menu_check_dep(_, _)
menu_check_dep(k, e) ==
    IF e = NONE THEN e
    ELSE CASE e[1] \in {"AND", "OR"} -> <<e[1], menu_check_dep(k, e[2]), menu_check_dep(k, e[3])>>
           [] e[1] = "NOT" -> <<"NOT", menu_check_dep(k, e[2])>>
           [] e = Sym("m") -> <<"AND", e, Sym(k.modules)>>
           [] OTHER -> e

\* A prompt is subject to the "visible if" of the menus it is in.
RECURSIVE UpperVisibility(_, _, _)
UpperVisibility(k, m, e) ==
    IF m = 0 THEN e ELSE UpperVisibility(k, k.menu[m].parent, expr_alloc_and(e, k.menu[m].vis))

Prompts == {"PROMPT", "MENU", "COMMENT"}

PropVisible(k, type, dep) ==
    IF type = "PROMPT" THEN UpperVisibility(k, k.menu[k.entry].parent, menu_check_dep(k, dep))
    ELSE menu_check_dep(k, dep)

menu_add_prop(k, type, e, dep) ==
    [k EXCEPT !.prop = Append(@, [sym |-> k.menu[k.entry].sym, menu |-> k.entry, type |-> type,
                                  expr |-> e, vis |-> PropVisible(k, type, dep)]),
              !.menu[k.entry].prompt = IF type \in Prompts THEN Len(k.prop) + 1 ELSE @]

NewEntry(k, s) ==
    [k EXCEPT !.menu = Append([@ EXCEPT ![k.top].list = Append(@, Len(k.menu) + 1)], EmptyMenu(s, k.top)),
              !.entry = Len(k.menu) + 1]

menu_add_entry(k, s) ==
    IF s = NULL THEN NewEntry(k, s) ELSE menu_add_prop(NewEntry(k, s), "SYMBOL", Sym(s), NONE)

menu_add_dep(k, dep) == [k EXCEPT !.menu[k.entry].dep = expr_alloc_and(@, menu_check_dep(k, dep))]

menu_add_visibility(k, e) == [k EXCEPT !.menu[k.entry].vis = expr_alloc_and(@, e)]

menu_add_menu(k) == [k EXCEPT !.top = k.entry]

menu_end_menu(k) == [k EXCEPT !.top = k.menu[k.top].parent]

\* One statement of the file, or one option of an entry
zconfparse(k, stmt) ==
    CASE stmt[1] = "config" -> menu_add_entry([k EXCEPT !.optional = @ \cup {stmt[2]}], stmt[2])
      [] stmt[1] = "prompt"    -> menu_add_prop(k, "PROMPT", NONE, stmt[2])
      [] stmt[1] = "default"   -> menu_add_prop(k, "DEFAULT", stmt[2], stmt[3])
      [] stmt[1] = "select"    -> menu_add_prop(k, "SELECT", Sym(stmt[2]), stmt[3])
      [] stmt[1] = "range"     -> menu_add_prop(k, "RANGE", <<"RANGE", stmt[2], stmt[3]>>, stmt[4])
      [] stmt[1] = "depends"   -> menu_add_dep(k, stmt[2])
      [] stmt[1] = "modules"   -> [k EXCEPT !.modules = k.menu[k.entry].sym]
      [] stmt[1] = "allnoconfig_y" -> [k EXCEPT !.allno_y = @ \cup {k.menu[k.entry].sym}]
      [] stmt[1] = "choice"    -> menu_add_prop(menu_add_entry(k, stmt[2]), "CHOICE", NONE, NONE)
      [] stmt[1] = "menuconfig" -> [k EXCEPT !.prop[k.menu[k.entry].prompt].type = "MENU"]
      [] stmt[1] = "optional"  -> [k EXCEPT !.optional = @ \cup {k.menu[k.entry].sym}]
      [] stmt[1] = "menu"      -> menu_add_prop(menu_add_entry(k, NULL), "MENU", NONE, NONE)
      [] stmt[1] = "visible"   -> menu_add_visibility(k, stmt[2])
      [] stmt[1] = "block"     -> menu_add_menu(k)
      [] stmt[1] = "if"        -> menu_add_menu(menu_add_dep(menu_add_entry(k, NULL), stmt[2]))
      [] stmt[1] = "comment"   -> menu_add_prop(menu_add_entry(k, NULL), "COMMENT", NONE, NONE)
      [] stmt[1] = "end"       -> menu_end_menu(k)

Parsed(text) == FoldLeft(zconfparse, menu_add_prop(NoFile, "MENU", NONE, NONE), text)

-----------------------------------------------------------------------------
(***************************************************************************)
(* menu_finalize: the conditions                                           *)
(***************************************************************************)

IsChoice(k, s) == \E i \in DOMAIN k.prop : k.prop[i].sym = s /\ k.prop[i].type = "CHOICE"

\* What an entry's children inherit
ParentDep(k, p) ==
    IF k.menu[p].sym # NULL /\ IsChoice(k, k.menu[p].sym) THEN Sym(k.menu[p].sym)
    ELSE IF k.menu[p].prompt # 0 THEN k.prop[k.menu[p].prompt].vis
    ELSE k.menu[p].dep

BoolIfNot(s, e) == IF s # NULL /\ ~Has(s, "tristate") THEN expr_trans_bool(e) ELSE e

\* Mutant: what the entry inherits is left out.
PropDep_Own(s, base, e) == BoolIfNot(s, expr_eliminate_dups(expr_transform(e)))

PropDep(s, base, e) == BoolIfNot(s, expr_eliminate_dups(expr_alloc_and(base, expr_transform(e))))

WithProps(k, m, base) ==
    [k EXCEPT !.menu[m].dep = base,
              !.prop = [i \in DOMAIN @ |-> IF @[i].menu = m THEN [@[i] EXCEPT !.vis = PropDep(k.menu[m].sym, base, @)]
                                           ELSE @[i]]]

\* A select is a reverse dependency of its target.
AddSelect(k, p) ==
    IF p.type # "SELECT" THEN k
    ELSE [k EXCEPT !.rev[p.expr[2]] = expr_alloc_or(@, expr_alloc_and(Sym(p.sym), p.vis))]

WithSelects(k, m) == FoldLeft(AddSelect, k, SelectSeq(k.prop, LAMBDA p : p.menu = m))

PropagateTo(k, p, m) ==
    WithSelects(WithProps(k, m, expr_eliminate_dups(expr_alloc_and(ParentDep(k, p), expr_transform(k.menu[m].dep)))), m)

Propagate(k, p) == FoldLeft(LAMBDA r, m : PropagateTo(r, p, m), k, k.menu[p].list)

-----------------------------------------------------------------------------
(***************************************************************************)
(* menu_finalize: the tree.  Entry p is the i-th of the list of par.       *)
(***************************************************************************)

\* What makes the entry after a symbol one of its submenu
NotNo(e) == expr_eliminate_dups(expr_transform(expr_trans_compare(e, "UNEQUAL", "n")))

Condition(k, m) == IF k.menu[m].prompt # 0 THEN k.prop[k.menu[m].prompt].vis ELSE k.menu[m].dep

BaseDep(k, p) == NotNo(IF k.menu[p].prompt # 0 THEN k.prop[k.menu[p].prompt].vis ELSE NONE)

Follows(s, base, dep) ==
    /\ expr_contains_symbol(dep, s)
    /\ \/ expr_depends_symbol(dep, s)
       \/ expr_is_yes(expr_eliminate_eq(NotNo(dep), base)[2])

\* Those entries move from the list they are in to that of p.
MoveBelow(k, par, p, i, n) ==
    IF n = 0 THEN k
    ELSE [k EXCEPT !.menu[p].list = SubSeq(k.menu[par].list, i + 1, i + n),
                   !.menu[par].list = SubSeq(@, 1, i) \o SubSeq(@, i + n + 1, Len(@))]

\* A choice value, whose condition is that of its choice as well
ChoiceDep(k, c, m) ==
    IF Has(c, "tristate") /\ ~Has(k.menu[m].sym, "tristate")
    THEN [k EXCEPT !.menu[m].dep = expr_alloc_and(<<"EQUAL", c, "y">>, @),
                   !.prop = [i \in DOMAIN @ |-> IF @[i].menu = m
                                                THEN [@[i] EXCEPT !.vis = expr_alloc_and(<<"EQUAL", c, "y">>, @)]
                                                ELSE @[i]]]
    ELSE k

AddValue(k, c, s) ==
    [k EXCEPT !.choice = [t \in DOMAIN @ \cup {s} |-> IF t = s THEN c ELSE @[t]],
              !.values = [d \in DOMAIN @ \cup {c} |-> IF d # c THEN @[d]
                                                      ELSE IF c \in DOMAIN @ THEN Append(@[c], s) ELSE <<s>>]]

ChoiceValue(k, p, m) ==
    IF /\ k.menu[p].sym # NULL /\ IsChoice(k, k.menu[p].sym)
       /\ k.menu[m].sym # NULL /\ k.menu[m].sym \notin DOMAIN k.choice
    THEN AddValue(ChoiceDep(k, k.menu[p].sym, m), k.menu[p].sym, k.menu[m].sym)
    ELSE k

\* The children of an entry without a prompt come after it.
Splice(k, p, m, j) ==
    IF k.menu[m].list = << >> \/ k.menu[m].prompt # 0 THEN k
    ELSE [k EXCEPT !.menu = [x \in DOMAIN @ |->
                               IF x = p THEN [@[x] EXCEPT !.list = SubSeq(@, 1, j) \o k.menu[m].list
                                                                   \o SubSeq(@, j + 1, Len(@))]
                               ELSE IF x = m THEN [@[x] EXCEPT !.list = << >>]
                               ELSE IF \E i \in DOMAIN k.menu[m].list : k.menu[m].list[i] = x
                               THEN [@[x] EXCEPT !.parent = p] ELSE @[x]]]

RECURSIVE Settle(_, _, _)
Settle(k, p, j) ==
    IF j > Len(k.menu[p].list) THEN k
    ELSE Settle(Splice(ChoiceValue(k, p, k.menu[p].list[j]), p, k.menu[p].list[j], j), p, j + 1)

\* A choice that is not optional has a value when its prompt is visible.
Required(k, p) ==
    IF k.menu[p].sym # NULL /\ k.menu[p].sym \notin k.optional /\ k.menu[p].prompt # 0
    THEN [k EXCEPT !.rev[k.menu[p].sym] = expr_alloc_or(@, expr_alloc_and(k.prop[k.menu[p].prompt].vis, Sym("m")))]
    ELSE k

WithDirDep(k, p) == [k EXCEPT !.dir[k.menu[p].sym] = expr_alloc_or(@, k.menu[p].dep)]

RECURSIVE menu_finalize(_, _, _, _), FinalizeKids(_, _, _), Submenu(_, _, _, _, _)

FinalizeKids(k, p, j) ==
    IF j > Len(k.menu[p].list) THEN k
    ELSE FinalizeKids(menu_finalize(k, p, j, k.menu[p].list[j]), p, j + 1)

TakeNext(k, p, m) == [k EXCEPT !.menu[m].parent = p]

Submenu(k, par, p, i, n) ==
    IF /\ par # 0 /\ i + n + 1 <= Len(k.menu[par].list)
       /\ Follows(k.menu[p].sym, BaseDep(k, p), Condition(k, k.menu[par].list[i + n + 1]))
    THEN Submenu(TakeNext(menu_finalize(k, par, i + n + 1, k.menu[par].list[i + n + 1]), p, k.menu[par].list[i + n + 1]),
                 par, p, i, n + 1)
    ELSE MoveBelow(k, par, p, i, n)

menu_finalize(k, par, i, p) ==
    Required(Settle(IF k.menu[p].list # << >> THEN FinalizeKids(Propagate(k, p), p, 1)
                    ELSE IF k.menu[p].sym # NULL THEN WithDirDep(Submenu(k, par, p, i, 0), p)
                    ELSE k, p, 1), p)

Finalized(text) == menu_finalize(Parsed(text), 0, 0, 1)

-----------------------------------------------------------------------------
(***************************************************************************)
(* sym_check_deps.  The marks t: chk and done are the symbols with         *)
(* SYMBOL_CHECK and SYMBOL_CHECKED, reported says that a recursive         *)
(* dependency was printed.  The result v is the symbol the recursion is    *)
(* about, or NULL.                                                         *)
(***************************************************************************)
NoMarks == [chk |-> {}, done |-> {}, reported |-> FALSE, errs |-> FALSE]

Found(t, v) == [t |-> t, v |-> v]

\* The symbols of an expression, in order
RECURSIVE SymbolsOf(_)
SymbolsOf(e) ==
    IF e = NONE THEN << >>
    ELSE CASE e[1] \in {"AND", "OR"} -> SymbolsOf(e[2]) \o SymbolsOf(e[3])
           [] e[1] = "NOT" -> SymbolsOf(e[2])
           [] OTHER -> SelectSeq(Tail(e), LAMBDA s : s \in Symbols)

\* What sym_check_sym_deps looks at: selects of the symbol, conditions and defaults
PropSymbols(k, p) ==
    SymbolsOf(p.vis) \o (IF p.type = "DEFAULT" /\ ~IsChoice(k, p.sym) THEN SymbolsOf(p.expr) ELSE << >>)

Needs(k, s) ==
    SymbolsOf(k.rev[s]) \o
    FlattenSeq([i \in DOMAIN k.prop |-> IF k.prop[i].sym = s /\ k.prop[i].type \notin {"CHOICE", "SELECT"}
                                        THEN PropSymbols(k, k.prop[i]) ELSE << >>])

\* Until one of the symbols is found to be recursive
RECURSIVE sym_check_deps(_, _, _)
OrNext(k, r, s) == IF r.v # NULL THEN r ELSE sym_check_deps(k, r.t, s)

sym_check_sym_deps(k, t, s) == FoldLeft(LAMBDA r, d : OrNext(k, r, d), Found(t, NULL), Needs(k, s))

Mark(t, set) == [t EXCEPT !.chk = @ \cup set, !.done = @ \cup set]

Unmark(r, set) == Found([r.t EXCEPT !.chk = @ \ set], r.v)

OrNextValue(k, r, s) == IF r.v # NULL THEN r ELSE sym_check_sym_deps(k, r.t, s)

AboutChoice(k, r, c) == Found(r.t, IF r.v \in Range(k.values[c]) THEN c ELSE r.v)

sym_check_choice_deps(k, t, c) ==
    AboutChoice(k, Unmark(FoldLeft(LAMBDA r, s : OrNextValue(k, r, s),
                                   Unmark(sym_check_sym_deps(k, Mark(t, {c} \cup Range(k.values[c])), c), {c}),
                                   k.values[c]),
                          Range(k.values[c])), c)

CheckUnmarked(k, t, s) ==
    IF s \in DOMAIN k.choice THEN sym_check_deps(k, t, k.choice[s])
    ELSE IF s \in DOMAIN k.values THEN sym_check_choice_deps(k, t, s)
    ELSE Unmark(sym_check_sym_deps(k, Mark(t, {s}), s), {s})

Elsewhere(r, s) == Found(r.t, IF r.v = s THEN NULL ELSE r.v)

sym_check_deps(k, t, s) ==
    IF s \in t.chk THEN Found([t EXCEPT !.reported = TRUE], s)
    ELSE IF s \in t.done THEN Found(t, NULL)
    ELSE Elsewhere(CheckUnmarked(k, t, s), s)

\* conf_parse, after menu_finalize: errs is whether zconfnerrs is not 0.
Counted(r) == [r.t EXCEPT !.errs = @ \/ r.v # NULL]

DepsChecked(k, symbols) == FoldLeft(LAMBDA t, s : Counted(sym_check_deps(k, t, s)), NoMarks, symbols)
=============================================================================

-------------------------------- MODULE Expr --------------------------------
(***************************************************************************)
(* Dependency expressions of the configuration tool (kconfig/expr.c): how  *)
(* they are simplified.  An expression is <<"SYMBOL", s>>, <<"NOT", e>>,   *)
(* <<"AND", e, e>>, <<"OR", e, e>> or a comparison of two symbols, such as *)
(* <<"EQUAL", s, s>>; the missing one is the empty tuple.  What the C code *)
(* changes in place is the value returned here.                            *)
(***************************************************************************)
EXTENDS Integers, Sequences

CONSTANT SymType        \* the type of each symbol a Kconfig file defines

no  == 0
mod == 1
yes == 2

EXPR_AND(a, b) == IF a < b THEN a ELSE b
EXPR_OR(a, b)  == IF a > b THEN a ELSE b
EXPR_NOT(a)    == 2 - a

NONE == << >>

Orders == {"LTH", "LEQ", "GTH", "GEQ"}

Comparisons == {"EQUAL", "UNEQUAL"} \cup Orders

Sym(s) == <<"SYMBOL", s>>

Has(s, type) == s \in DOMAIN SymType /\ SymType[s] = type

expr_alloc_and(e1, e2) == IF e1 = NONE THEN e2 ELSE IF e2 = NONE THEN e1 ELSE <<"AND", e1, e2>>

expr_alloc_or(e1, e2)  == IF e1 = NONE THEN e2 ELSE IF e2 = NONE THEN e1 ELSE <<"OR", e1, e2>>

expr_is_yes(e) == e = NONE \/ e = Sym("y")

-----------------------------------------------------------------------------
(***************************************************************************)
(* y and n as operands of || and &&                                        *)
(***************************************************************************)

\* The operand that decides, and the one that has no effect
Zero(type) == Sym(IF type = "AND" THEN "n" ELSE "y")
Unit(type) == Sym(IF type = "AND" THEN "y" ELSE "n")

Reduced(type, e1, e2) ==
    IF e1 = Zero(type) THEN e1
    ELSE IF e1 = Unit(type) THEN e2
    ELSE IF e2 = Zero(type) THEN e2
    ELSE IF e2 = Unit(type) THEN e1
    ELSE <<type, e1, e2>>

RECURSIVE expr_eliminate_yn(_)
expr_eliminate_yn(e) ==
    IF e # NONE /\ e[1] \in {"AND", "OR"}
    THEN Reduced(e[1], expr_eliminate_yn(e[2]), expr_eliminate_yn(e[3]))
    ELSE e

-----------------------------------------------------------------------------
(***************************************************************************)
(* Equal operands of two expressions                                       *)
(***************************************************************************)
RECURSIVE EliminateEq(_, _), expr_eq(_, _)

\* The operands of e1, one after the other, against e2; and the other way round
ThenRight(type, p, e)  == LET q == EliminateEq(type, <<e, p[2]>>) IN <<<<type, p[1], q[1]>>, q[2]>>
ThenSecond(type, p, e) == LET q == EliminateEq(type, <<p[1], e>>) IN <<q[1], <<type, p[2], q[2]>>>>

\* __expr_eliminate_eq: the pair of expressions without the operands they share
EliminateEq(type, p) ==
    IF p[1][1] = type
    THEN ThenRight(type, EliminateEq(type, <<p[1][2], p[2]>>), p[1][3])
    ELSE IF p[2][1] = type
    THEN ThenSecond(type, EliminateEq(type, <<p[1], p[2][2]>>), p[2][3])
    ELSE IF (p[1] = p[2] /\ p[1] \in {Sym("y"), Sym("n")}) \/ ~expr_eq(p[1], p[2])
    THEN p
    ELSE <<Unit(type), Unit(type)>>

EliminateFirst(p)  == IF p[1][1] \in {"AND", "OR"} THEN EliminateEq(p[1][1], p) ELSE p

EliminateSecond(p) == IF p[1][1] # p[2][1] /\ p[2][1] \in {"AND", "OR"} THEN EliminateEq(p[2][1], p) ELSE p

BothYn(p) == <<expr_eliminate_yn(p[1]), expr_eliminate_yn(p[2])>>

expr_eliminate_eq(e1, e2) ==
    IF e1 = NONE \/ e2 = NONE THEN <<e1, e2>> ELSE BothYn(EliminateSecond(EliminateFirst(<<e1, e2>>)))

SameSymbol(p) == p[1][1] = "SYMBOL" /\ p[1] = p[2]

expr_eq(e1, e2) ==
    /\ e1[1] = e2[1]
    /\ CASE e1[1] = "NOT" -> expr_eq(e1[2], e2[2])
         [] e1[1] \in {"AND", "OR"} -> SameSymbol(expr_eliminate_eq(e1, e2))
         [] OTHER -> e1 = e2

-----------------------------------------------------------------------------
(***************************************************************************)
(* Two operands made one: expr_join_or and expr_join_and                   *)
(***************************************************************************)

Simple == {"EQUAL", "UNEQUAL", "SYMBOL", "NOT"}

\* The symbol an operand is about
About(e) == IF e[1] = "NOT" THEN e[2][2] ELSE e[2]

Joinable(e1, e2) ==
    /\ e1[1] \in Simple /\ e2[1] \in Simple
    /\ e1[1] = "NOT" => e1[2][1] \in Simple \ {"NOT"}
    /\ e2[1] = "NOT" => e2[2][1] = "SYMBOL"
    /\ About(e1) = About(e2)
    /\ Has(About(e1), "bool") \/ Has(About(e1), "tristate")

Constants == {"y", "m", "n"}

\* The two comparisons, of these kinds, with two constants of which this is not one
Others(e1, e2, type) ==
    IF e1[1] = type /\ e2[1] = type /\ {e1[3], e2[3]} \subseteq Constants
    THEN Constants \ {e1[3], e2[3]} ELSE {}

expr_join_or(e1, e2) ==
    IF expr_eq(e1, e2) THEN e1
    ELSE IF ~Joinable(e1, e2) THEN NONE
    ELSE IF Has(About(e1), "tristate")
    THEN IF Others(e1, e2, "EQUAL") # {}
         THEN <<"UNEQUAL", e1[2], CHOOSE c \in Others(e1, e2, "EQUAL") : TRUE>>
         ELSE NONE
    ELSE IF {e1, e2} = {Sym(About(e1)), <<"NOT", Sym(About(e1))>>} THEN Sym("y")
    ELSE NONE

\* One is the symbol itself and the other a comparison of it with c.
WithSymbol(e1, e2, type, c) ==
    \/ e1[1] = "SYMBOL" /\ e2 = <<type, e1[2], c>>
    \/ e2[1] = "SYMBOL" /\ e1 = <<type, e2[2], c>>

\* (a='b') && (a!='c')
Decided(eq, uneq) == IF eq[3] # uneq[3] THEN eq ELSE Sym("n")

expr_join_and(e1, e2) ==
    IF expr_eq(e1, e2) THEN e1
    ELSE IF ~Joinable(e1, e2) THEN NONE
    ELSE IF WithSymbol(e1, e2, "EQUAL", "y")   THEN <<"EQUAL", About(e1), "y">>
    ELSE IF WithSymbol(e1, e2, "UNEQUAL", "n") THEN Sym(About(e1))
    ELSE IF WithSymbol(e1, e2, "UNEQUAL", "m") THEN <<"EQUAL", About(e1), "y">>
    ELSE IF Has(About(e1), "bool") THEN NONE
    ELSE IF e1[1] = "EQUAL" /\ e2[1] = "UNEQUAL" /\ {e1[3], e2[3]} \subseteq Constants THEN Decided(e1, e2)
    ELSE IF e1[1] = "UNEQUAL" /\ e2[1] = "EQUAL" /\ {e1[3], e2[3]} \subseteq Constants THEN Decided(e2, e1)
    ELSE IF Others(e1, e2, "UNEQUAL") # {}
    THEN <<"EQUAL", e1[2], CHOOSE c \in Others(e1, e2, "UNEQUAL") : TRUE>>
    ELSE NONE

-----------------------------------------------------------------------------
(***************************************************************************)
(* Operands of one expression made one.  The two operands are named by     *)
(* their paths from the root, as the C code names them by pointers into    *)
(* the expression.                                                         *)
(***************************************************************************)
RECURSIVE At(_, _), Put(_, _, _)

At(e, path) == IF path = << >> THEN e ELSE At(e[Head(path)], Tail(path))

Put(e, path, new) == IF path = << >> THEN new ELSE [e EXCEPT ![Head(path)] = Put(@, Tail(path), new)]

\* The expression, and the number of operands joined so far
NoCount(e) == [e |-> e, count |-> 0]

Join(type, e1, e2) == IF type = "OR" THEN expr_join_or(e1, e2) ELSE expr_join_and(e1, e2)

Joined(t, type, p1, p2, tmp) ==
    IF tmp = NONE THEN t
    ELSE [e |-> Put(Put(t.e, p1, Unit(type)), p2, tmp), count |-> t.count + 1]

JoinAt(t, type, p1, p2) == Joined(t, type, p1, p2, Join(type, At(t.e, p1), At(t.e, p2)))

RECURSIVE expr_eliminate_dups1(_, _, _, _)
expr_eliminate_dups1(t, type, p1, p2) ==
    IF At(t.e, p1)[1] = type
    THEN expr_eliminate_dups1(expr_eliminate_dups1(t, type, Append(p1, 2), p2), type, Append(p1, 3), p2)
    ELSE IF At(t.e, p2)[1] = type
    THEN expr_eliminate_dups1(expr_eliminate_dups1(t, type, p1, Append(p2, 2)), type, p1, Append(p2, 3))
    ELSE IF p1 = p2 THEN t
    ELSE IF At(t.e, p1)[1] \in {"AND", "OR"}
    THEN JoinAt(expr_eliminate_dups1(t, At(t.e, p1)[1], p1, p1), type, p1, p2)
    ELSE JoinAt(t, type, p1, p2)

RECURSIVE expr_eliminate_dups(_), DupsAgain(_)
DupsAgain(t) == IF t.count = 0 THEN t.e ELSE expr_eliminate_dups(expr_eliminate_yn(t.e))

expr_eliminate_dups(e) ==
    IF e = NONE \/ e[1] \notin {"AND", "OR"} THEN e
    ELSE DupsAgain(expr_eliminate_dups1(NoCount(e), e[1], << >>, << >>))

-----------------------------------------------------------------------------
(***************************************************************************)
(* Rewriting                                                               *)
(***************************************************************************)

\* A tristate symbol compared with n, where only n counts
RECURSIVE expr_trans_bool(_)
expr_trans_bool(e) ==
    IF e = NONE THEN e
    ELSE IF e[1] \in {"AND", "OR"} THEN <<e[1], expr_trans_bool(e[2]), expr_trans_bool(e[3])>>
    ELSE IF e[1] = "NOT" THEN <<"NOT", expr_trans_bool(e[2])>>
    ELSE IF e[1] = "UNEQUAL" /\ Has(e[2], "tristate") /\ e[3] = "n" THEN Sym(e[2])
    ELSE e

Opposite == [EQUAL |-> "UNEQUAL", UNEQUAL |-> "EQUAL", LEQ |-> "GTH", GTH |-> "LEQ", LTH |-> "GEQ", GEQ |-> "LTH"]

Negation == [y |-> "n", m |-> "m", n |-> "y"]

\* A bool symbol compared with a constant
BoolTest(s, equal, c) ==
    CASE c = "m" -> Sym(IF equal THEN "n" ELSE "y")
      [] (c = "y") = equal -> Sym(s)
      [] OTHER -> <<"NOT", Sym(s)>>

RECURSIVE expr_transform(_), Negated(_)

\* !e, for an e already transformed
Negated(e) ==
    CASE e[1] = "NOT" -> expr_transform(e[2])
      [] e[1] \in Comparisons -> <<Opposite[e[1]], e[2], e[3]>>
      [] e[1] = "OR"  -> expr_transform(<<"AND", <<"NOT", e[2]>>, <<"NOT", e[3]>>>>)
      [] e[1] = "AND" -> expr_transform(<<"OR", <<"NOT", e[2]>>, <<"NOT", e[3]>>>>)
      [] OTHER -> IF e[2] \in Constants THEN Sym(Negation[e[2]]) ELSE <<"NOT", e>>

expr_transform(e) ==
    IF e = NONE THEN e
    ELSE CASE e[1] = "NOT" -> Negated(expr_transform(e[2]))
           [] e[1] \in {"AND", "OR"} -> <<e[1], expr_transform(e[2]), expr_transform(e[3])>>
           [] e[1] \in {"EQUAL", "UNEQUAL"} /\ Has(e[2], "bool") /\ e[3] \in Constants ->
                 BoolTest(e[2], e[1] = "EQUAL", e[3])
           [] OTHER -> e

RECURSIVE expr_contains_symbol(_, _)
expr_contains_symbol(e, s) ==
    IF e = NONE THEN FALSE
    ELSE CASE e[1] \in {"AND", "OR"} -> expr_contains_symbol(e[2], s) \/ expr_contains_symbol(e[3], s)
           [] e[1] = "NOT" -> expr_contains_symbol(e[2], s)
           [] OTHER -> \E i \in 2 .. Len(e) : e[i] = s

\* The expression is n when s is.
RECURSIVE expr_depends_symbol(_, _)
expr_depends_symbol(e, s) ==
    IF e = NONE THEN FALSE
    ELSE IF e[1] = "AND" THEN expr_depends_symbol(e[2], s) \/ expr_depends_symbol(e[3], s)
    ELSE e \in {Sym(s), <<"EQUAL", s, "y">>, <<"EQUAL", s, "m">>, <<"UNEQUAL", s, "n">>}

\* e = c or e != c, as an expression
NotIf(cond, e) == IF cond THEN <<"NOT", e>> ELSE e

RECURSIVE expr_trans_compare(_, _, _)
expr_trans_compare(e, type, c) ==
    IF e = NONE THEN NotIf(type = "UNEQUAL", Sym(c))
    ELSE CASE e[1] \in {"AND", "OR"} ->
                NotIf(type = "UNEQUAL",
                      <<IF (e[1] = "AND") = (c = "y") THEN "AND" ELSE "OR",
                        expr_trans_compare(e[2], "EQUAL", c), expr_trans_compare(e[3], "EQUAL", c)>>)
           [] e[1] = "NOT" -> expr_trans_compare(e[2], Opposite[type], c)
           [] e[1] = "SYMBOL" -> <<type, e[2], c>>
           [] OTHER -> NotIf((type = "EQUAL") = (c = "n"), e)
=============================================================================

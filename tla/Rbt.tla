-------------------------------- MODULE Rbt --------------------------------
(***************************************************************************)
(* The red-black trees of lib/rbt.c, which usr/lib/rbt.c repeats.  A tree  *)
(* is a value: the root and, for each node, color, father f and sons l     *)
(* and r.  The nodes are numbers and a node is its own key.  The code      *)
(* writes every case twice, for the left and for the right; here a side d  *)
(* is a parameter.  A node that is removed loses its links, which nothing  *)
(* reads any more.                                                         *)
(***************************************************************************)
EXTENDS Integers, Sequences

CONSTANT NULL

Other(d) == IF d = "l" THEN "r" ELSE "l"

rbt_init(Nodes) ==
    LET none == [n \in Nodes |-> NULL]
    IN  [root |-> NULL, color |-> [n \in Nodes |-> "RED"], f |-> none, l |-> none, r |-> none]

Black(t, n) == n = NULL \/ t.color[n] = "BLACK"

SetFather(t, n, f) == IF n = NULL THEN t ELSE [t EXCEPT !.f[n] = f]

\* The side of node n below its father f
Side(t, n, f) == IF t.l[f] = n THEN "l" ELSE "r"

\* m takes the place of n below the father of n, or as the root.
Replace(t, n, m) ==
    LET f == t.f[n]
    IN  IF f = NULL THEN [t EXCEPT !.root = m] ELSE [t EXCEPT ![Side(t, n, f)][f] = m]

\* rotate_left for d = "l", rotate_right for d = "r"
rotate(t, n, d) ==
    LET s == t[Other(d)][n]
    IN  [SetFather([Replace(t, n, s) EXCEPT ![Other(d)][n] = t[d][s], ![d][s] = n], t[d][s], n)
            EXCEPT !.f[s] = t.f[n], !.f[n] = s]

BlackRoot(t) == [t EXCEPT !.color[t.root] = "BLACK"]

-----------------------------------------------------------------------------
(***************************************************************************)
(* Insertion                                                               *)
(***************************************************************************)

\* The descent of the _rbt_insert functions: the father and the side of a new
\* node n below node p, or n itself if it is there already.
RECURSIVE Descend(_, _, _)
Descend(t, n, p) ==
    LET d == IF n < p THEN "l" ELSE "r"
    IN  IF n = p THEN [f |-> n, d |-> d]
        ELSE IF t[d][p] = NULL THEN [f |-> p, d |-> d] ELSE Descend(t, n, t[d][p])

\* rb_link_node
rb_link_node(t, n) ==
    LET t0 == [t EXCEPT !.l[n] = NULL, !.r[n] = NULL, !.f[n] = NULL]
        at == Descend(t, n, t.root)
    IN  IF t.root = NULL THEN [t0 EXCEPT !.root = n]
        ELSE [t0 EXCEPT !.f[n] = at.f, ![at.d][at.f] = n]

\* The father f of n is red and the uncle is black; g is the grandfather, and f
\* is its son on side d.
Outer(t, g, d) ==
    LET f == t[d][g] IN rotate([t EXCEPT !.color[f] = "BLACK", !.color[g] = "RED"], g, Other(d))

\* The loop of rbt_insert_color
RECURSIVE Recolor(_, _), RecolorBelow(_, _, _, _, _)
RecolorBelow(t, n, f, g, d) ==
    LET u == t[Other(d)][g]
        inner == t[Other(d)][f] = n
    IN  IF ~ Black(t, u)
        THEN Recolor([t EXCEPT !.color[u] = "BLACK", !.color[f] = "BLACK", !.color[g] = "RED"], g)
        ELSE Recolor(Outer(IF inner THEN rotate(t, f, d) ELSE t, g, d), IF inner THEN f ELSE n)
Recolor(t, n) ==
    LET f == t.f[n]
    IN  IF Black(t, f) THEN t ELSE RecolorBelow(t, n, f, t.f[f], Side(t, f, t.f[f]))

rbt_insert_color(t, n) == BlackRoot(Recolor([t EXCEPT !.color[n] = "RED"], n))

-----------------------------------------------------------------------------
(***************************************************************************)
(* Neighbours                                                              *)
(***************************************************************************)

\* The last node below n on side d
RECURSIVE Extreme(_, _, _)
Extreme(t, n, d) == IF t[d][n] = NULL THEN n ELSE Extreme(t, t[d][n], d)

\* The first ancestor of n that has n on the other side than d
RECURSIVE Climb(_, _, _)
Climb(t, n, d) ==
    LET f == t.f[n] IN IF f = NULL \/ t[d][f] # n THEN f ELSE Climb(t, f, d)

Neighbour(t, n, d) == IF t[d][n] # NULL THEN Extreme(t, t[d][n], Other(d)) ELSE Climb(t, n, d)

rbt_next(t, n) == Neighbour(t, n, "r")

rbt_prev(t, n) == Neighbour(t, n, "l")

\* The nodes that rbt_rep visits, from n on
RECURSIVE From(_, _)
From(t, n) == IF n = NULL THEN <<>> ELSE <<n>> \o From(t, rbt_next(t, n))

RECURSIVE First(_, _)
First(t, n) == IF rbt_prev(t, n) = NULL THEN n ELSE First(t, rbt_prev(t, n))

rbt_first(t) == IF t.root = NULL THEN NULL ELSE First(t, t.root)

rbt_rep(t) == From(t, rbt_first(t))

-----------------------------------------------------------------------------
(***************************************************************************)
(* Removal                                                                 *)
(***************************************************************************)

\* The other son of p than the one on side d becomes black.
BlackOther(t, p, d) ==
    LET s == t[Other(d)][p]
    IN  IF t.color[s] = "BLACK" THEN t
        ELSE rotate([t EXCEPT !.color[s] = "BLACK", !.color[p] = "RED"], p, d)

\* Its outer son becomes red.
RedOuter(t, p, d) ==
    LET o == Other(d)
        s == t[o][p]
    IN  IF ~ Black(t, t[o][s]) THEN t
        ELSE rotate([t EXCEPT !.color[t[d][s]] = "BLACK", !.color[s] = "RED"], s, o)

LastRotation(t, p, d) ==
    LET o == Other(d)
        s == t[o][p]
    IN  rotate([t EXCEPT !.color[s] = t.color[p], !.color[p] = "BLACK", !.color[t[o][s]] = "BLACK"], p, d)

\* n, which may be NULL, is below p and lacks one black node on its paths.
RECURSIVE rbt_delete_color(_, _, _), LackBelow(_, _, _)
LackBelow(t, p, d) ==
    LET s == t[Other(d)][p]
    IN  IF Black(t, t.l[s]) /\ Black(t, t.r[s])
        THEN rbt_delete_color([t EXCEPT !.color[s] = "RED"], p, t.f[p])
        ELSE BlackRoot(LastRotation(RedOuter(t, p, d), p, d))
rbt_delete_color(t, n, p) ==
    IF ~ Black(t, n) \/ n = t.root THEN IF n = NULL THEN t ELSE [t EXCEPT !.color[n] = "BLACK"]
    ELSE LackBelow(BlackOther(t, p, Side(t, n, p)), p, Side(t, n, p))

\* n has at most one son, s.
Splice(t, n, s) ==
    LET t1 == SetFather(Replace(t, n, s), s, t.f[n])
    IN  IF t.color[n] = "BLACK" THEN rbt_delete_color(t1, s, t.f[n]) ELSE t1

\* n has two sons; the next node m takes its place and color.  s, the son of m,
\* comes below f.
Swap(t, n, m, s, f) ==
    LET t1 == Replace(t, n, m)
        t2 == IF f = m THEN t1
              ELSE SetFather([t1 EXCEPT !.l[f] = s, !.r[m] = t.r[n], !.f[t.r[n]] = m], s, f)
    IN  [t2 EXCEPT !.f[m] = t.f[n], !.color[m] = t.color[n], !.l[m] = t.l[n], !.f[t.l[n]] = m]

SwapNext(t, n, m) ==
    LET f == IF t.f[m] = n THEN m ELSE t.f[m]
        t1 == Swap(t, n, m, t.r[m], f)
    IN  IF t.color[m] = "BLACK" THEN rbt_delete_color(t1, t.r[m], f) ELSE t1

rbt_delete(t, n) ==
    LET t1 == IF t.l[n] = NULL THEN Splice(t, n, t.r[n])
              ELSE IF t.r[n] = NULL THEN Splice(t, n, t.l[n]) ELSE SwapNext(t, n, Extreme(t, t.r[n], "l"))
    IN  [t1 EXCEPT !.color[n] = "RED", !.f[n] = NULL, !.l[n] = NULL, !.r[n] = NULL]

-----------------------------------------------------------------------------
(***************************************************************************)
(* The nodes, in order, on which rbt_update calls its function             *)
(***************************************************************************)
RECURSIVE rbt_update(_, _)
rbt_update(t, n) ==
    LET f == t.f[n]
        b == IF t.l[f] = n /\ t.r[f] # NULL THEN t.r[f] ELSE t.l[f]
    IN  IF f = NULL THEN <<n>>
        ELSE <<n>> \o (IF b = NULL THEN <<>> ELSE <<b>>) \o rbt_update(t, f)

rbt_insert_update(t, n) ==
    rbt_update(t, IF t.l[n] # NULL THEN t.l[n] ELSE IF t.r[n] # NULL THEN t.r[n] ELSE n)

\* The deepest node whose subtree changes when n is removed
rbt_delete_update_begin(t, n) ==
    LET m == rbt_next(t, n)
    IN  IF t.l[n] = NULL /\ t.r[n] = NULL THEN t.f[n]
        ELSE IF t.r[n] = NULL THEN t.l[n]
        ELSE IF t.l[n] = NULL THEN t.r[n]
        ELSE IF t.r[m] # NULL THEN t.r[m] ELSE IF t.f[m] # n THEN t.f[m] ELSE m

rbt_delete_update_end(t, n) == IF n = NULL THEN <<>> ELSE rbt_update(t, n)

-----------------------------------------------------------------------------
(***************************************************************************)
(* What makes a tree a red-black search tree                               *)
(***************************************************************************)

\* The number of black nodes on the paths down from n, -1 if they differ
RECURSIVE BlackHeight(_, _)
BlackHeight(t, n) ==
    LET h == BlackHeight(t, t.l[n])
    IN  IF n = NULL THEN 0
        ELSE IF h = -1 \/ h # BlackHeight(t, t.r[n]) THEN -1
        ELSE IF t.color[n] = "BLACK" THEN h + 1 ELSE h

RECURSIVE Below(_, _)
Below(t, n) == IF n = NULL THEN {} ELSE {n} \cup Below(t, t.l[n]) \cup Below(t, t.r[n])

IsRedBlack(t) ==
    /\ Black(t, t.root)
    /\ t.root # NULL => t.f[t.root] = NULL
    /\ BlackHeight(t, t.root) # -1
    /\ \A n \in Below(t, t.root) :
        /\ \A d \in {"l", "r"} : t[d][n] # NULL => t.f[t[d][n]] = n /\ (Black(t, n) \/ Black(t, t[d][n]))
        /\ \A m \in Below(t, t.l[n]) : m < n
        /\ \A m \in Below(t, t.r[n]) : n < m
=============================================================================

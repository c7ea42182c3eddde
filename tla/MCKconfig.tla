------------------------------ MODULE MCKconfig ------------------------------
EXTENDS Kconfig, Dialog

MCSymType == [MODULES |-> "bool", A |-> "tristate", B |-> "bool", C |-> "tristate", V |-> "tristate",
              W |-> "bool", X |-> "tristate", N |-> "int"]

MCNumber == [one |-> 1, three |-> 3]
MCOrder == <<"N", "W", "X", "B", "V", "MODULES", "A", "C">>

Atoms == {Sym("A"), Sym("B"), <<"NOT", Sym("A")>>, <<"EQUAL", "A", "y">>, <<"EQUAL", "A", "m">>, <<"UNEQUAL", "A", "n">>,
          <<"NOT", Sym("B")>>, <<"EQUAL", "B", "n">>, Sym("m"), NONE}
Few == {NONE, Sym("A"), <<"NOT", Sym("B")>>}
Pairs == {<<t, a, b>> : t \in {"AND", "OR"}, a \in Atoms \ {NONE}, b \in Atoms \ {NONE}}

Modules == <<<<"config", "MODULES">>, <<"modules">>, <<"prompt", NONE>>>>

InIf(s, e1, e2, e3) == Modules \o <<<<"if", e1>>, <<"config", s>>, <<"depends", e2>>, <<"prompt", e3>>, <<"end">>>>

InMenu(s, e1, e2, e3) ==
    Modules \o <<<<"menu">>, <<"depends", e1>>, <<"visible", e2>>, <<"block">>,
                 <<"config", s>>, <<"prompt", NONE>>, <<"default", Sym("y"), e3>>, <<"end">>>>

InChoice(e1, e2, e3) ==
    Modules \o <<<<"choice", "C">>, <<"prompt", e1>>, <<"block">>,
                 <<"config", "V">>, <<"prompt", e2>>, <<"config", "W">>, <<"depends", e3>>, <<"prompt", NONE>>, <<"end">>>>

Cycle(e1, e2, e3, e4) ==
    <<<<"choice", "C">>, <<"prompt", e1>>, <<"block">>,
      <<"config", "V">>, <<"prompt", e2>>, <<"config", "W">>, <<"prompt", NONE>>, <<"end">>,
      <<"config", "A">>, <<"prompt", e3>>, <<"select", "B", e4>>, <<"config", "B">>, <<"default", e4, NONE>>>>

Names == {NONE, Sym("V"), Sym("W"), Sym("A"), Sym("B")}

MCTexts ==
    {InIf(s, e1, e2, e3) : s \in {"V", "W"}, e1 \in {NONE, <<"NOT", Sym("B")>>}, e2 \in Pairs, e3 \in {NONE, Sym("A")}} \cup
    {InMenu(s, e1, e2, e3) : s \in {"V", "W"}, e1 \in Few, e2 \in Atoms, e3 \in Atoms} \cup
    {InChoice(e1, e2, e3) : e1 \in Few, e2 \in Atoms, e3 \in Atoms} \cup
    {Cycle(e1, e2, e3, e4) : e1 \in Names, e2 \in Names, e3 \in Names, e4 \in Names}

\* Numbers: a range, and a symbol that follows from the number
P1 == Modules \o <<<<"config", "A">>, <<"prompt", NONE>>, <<"default", Sym("m"), NONE>>,
                   <<"config", "N">>, <<"prompt", Sym("A")>>, <<"range", "one", "three", NONE>>, <<"default", Sym("one"), NONE>>,
                   <<"config", "B">>, <<"default", Sym("y"), <<"EQUAL", "N", "three">>>>>>
\* A tristate choice
P2 == Modules \o <<<<"config", "A">>, <<"prompt", NONE>>,
                   <<"choice", "C">>, <<"prompt", NONE>>, <<"block">>,
                   <<"config", "V">>, <<"prompt", Sym("A")>>, <<"config", "X">>, <<"prompt", NONE>>, <<"end">>>>
\* Selects and submenus
P3 == <<<<"config", "A">>, <<"prompt", NONE>>, <<"select", "B", NONE>>,
        <<"config", "B">>, <<"prompt", NONE>>,
        <<"config", "W">>, <<"prompt", Sym("B")>>, <<"default", Sym("y"), Sym("A")>>, <<"menuconfig">>,
        <<"menu">>, <<"visible", Sym("W")>>, <<"block">>, <<"config", "V">>, <<"prompt", NONE>>, <<"end">>>>
\* Small enough for three programs
P4 == <<<<"config", "B">>, <<"prompt", NONE>>, <<"config", "W">>, <<"default", Sym("y"), Sym("B")>>>>
\* A choice that may be n
P5 == <<<<"choice", "C">>, <<"prompt", NONE>>, <<"optional">>, <<"block">>,
        <<"config", "W">>, <<"prompt", NONE>>, <<"config", "B">>, <<"prompt", NONE>>, <<"end">>>>

MCProjects ==
    {<<P1, NoLines, 1, Batch>>, <<P1, <<<<"A", 2>>, <<"N", 2>>>>, 1, Batch>>,
     <<P2, <<<<"A", 2>>, <<"C", 2>>, <<"V", 1>>, <<"X", 2>>>>, 1, Batch>>,
     <<P3, <<<<"V", 1>>, <<"OLD", 1>>>>, 1, Batch>>,
     <<P5, NoLines, 2, Batch \cup {"menuconfig"}>>,
     <<P4, <<<<"B", 2>>, <<"W", 2>>>>, 0, Batch \cup {"menuconfig"}>>,
     <<P1, <<<<"A", 2>>, <<"N", 2>>>>, 2, {"menuconfig"}>>,
     <<P2, <<<<"A", 2>>, <<"C", 2>>, <<"V", 1>>, <<"X", 2>>>>, 2, {"menuconfig"}>>,
     <<P3, <<<<"V", 1>>, <<"B", 2>>>>, 2, MenuModes>>}

-----------------------------------------------------------------------------
\* Either the programs run, or the boxes of the menu program are used by themselves.
MCInit ==
    /\ DialogInit
    /\ \/ Init
       \/ /\ kc = NoFile /\ checked = NoMarks /\ text = << >> /\ modes = {} /\ disk = EmptyDisk(NoLines) /\ jobs = MaxJobs
          /\ st = NoValues /\ job = [NoJob EXCEPT !.at = "parsed"]

boxes == text = << >> /\ DialogNext /\ UNCHANGED kvars

MCNext == boxes \/ (Next /\ UNCHANGED dlg)

MCSpec == MCInit /\ [][MCNext]_<<kvars, dlg>> /\ Answered
=============================================================================

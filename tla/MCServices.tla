----------------------------- MODULE MCServices -----------------------------
(***************************************************************************)
(* Services for TLC: two programs and a small tree of files.               *)
(***************************************************************************)
EXTENDS Services

\* Two callers are served by at most two services at a time.
Pairs == {<<"read", "write">>, <<"create", "subfile">>, <<"delete", "find">>}
MCLoaded == << << >>, <<"d/">>, <<"d/", "f">>, <<"d/", "g">> >>
MCStrays == {<< >>}
MCPaths(op) ==
    CASE op \in {"read", "write"} -> {<<"d/">>, <<"d/", "f">>}
      [] op = "create" -> {<<"d/", "k">>, <<"e/", "x">>}
      [] op = "subfile" -> {<<"d/">>, <<"d/", "f">>, <<"e/">>}
      [] op = "delete" -> {<<"d/">>, <<"d/", "g">>, <<"d/", "k">>}
      [] op = "find" -> {<<"d/", "g">>}
      [] OTHER -> {<< >>}
EndsInSlash(n) == n \in {"d/", "e/"}
=============================================================================

---------------------------- MODULE MCImpactRead ----------------------------
(* Two files of two symbols each, and a third of a test.                   *)
EXTENDS ImpactRead

MCSymbol == {"a1", "a2", "b1", "b2", "c1"}
MCHome == [s \in MCSymbol |-> CASE s \in {"a1", "a2"} -> "a" [] s \in {"b1", "b2"} -> "b" [] OTHER -> "c"]

\* a2 is a test within the lines of a1, b1 the outline of a type, c1 a test.
MCAlike == {<<"a1", "a2">>, <<"a2", "a1">>}
MCOutline == {"b1"}
MCPenalty == [s \in MCSymbol |-> IF s \in {"a2", "c1"} THEN 60 ELSE 0]

\* a1 and b1 call each other, b2 calls b1, a1 calls a2, c1 tests b1; a1 and b2
\* import the file of c1.
MCRefs == {<<"b1", "a1", "calls">>, <<"a1", "b1", "calls">>, <<"b2", "b1", "calls">>,
           <<"a1", "a2", "calls">>, <<"c1", "b1", "tests">>,
           <<"a1", "c1", "imports">>, <<"b2", "c1", "imports">>}

\* a is changed between the commits, b is not; c is not known to git.
MCBase == [p \in Path |-> CASE p = "a" -> 1 [] p = "b" -> 2 [] OTHER -> 0]
MCHead == [p \in Path |-> CASE p = "a" -> 2 [] p = "b" -> 2 [] OTHER -> 0]

=============================================================================

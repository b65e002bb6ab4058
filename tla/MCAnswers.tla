------------------------------ MODULE MCAnswers ------------------------------
(***************************************************************************)
(* The computations that make an answer, each over inputs that grow step   *)
(* by step, as one specification: only one of them is given an input, the  *)
(* others stay at their beginning, so that their states add up.            *)
(***************************************************************************)
EXTENDS RangeMapping, Retrieval, ContextV2, FocusedSegments, ContextPacker, QueryPlan, PhpExtraction,
        TemplateExtraction, PythonSource, MCLinking, TLC

-----------------------------------------------------------------------------
(* An index and what is searched in it                                     *)

MCChunk(h, sym, path, first, last, hash, by, conf) ==
  [handle |-> h, symbol |-> sym, path |-> path, first |-> first, last |-> last, hash |-> hash, by |-> by,
   confidence |-> conf, outline |-> FALSE, named |-> TRUE]

\* 2 is the outline of 1 and holds 4, which has no name of the query; 3 is a
\* copy of 1 in another file; nothing of the query finds 5.
MCChunks ==
  {MCChunk(1, 1, 1, 1, 9, 1, {"symbol-exact", "symbol-prefix", "fts"}, 90),
   [MCChunk(2, 1, 1, 1, 20, 2, {"symbol-exact"}, 80) EXCEPT !.outline = TRUE],
   MCChunk(3, 2, 2, 1, 9, 1, {"fts", "symbol-prefix"}, 90),
   [MCChunk(4, 3, 1, 12, 15, 4, {"fts"}, 50) EXCEPT !.named = FALSE],
   [MCChunk(5, 4, 3, 3, 8, 5, {}, 90) EXCEPT !.named = FALSE]}

MCLink(from, to, kind, means, conf) ==
  [from |-> from, to |-> to, kind |-> kind, means |-> means, confidence |-> conf]

MCLinks ==
  {MCLink(4, 1, "calls", {}, 90), MCLink(4, 0, "tests", {1, 2}, 60),
   MCLink(2, 0, "calls", {1}, 40), MCLink(3, 2, "tests", {}, 80)}

MCSearch(plan, paths, changedOnly, named) ==
  [plan |-> plan, paths |-> paths, changedOnly |-> changedOnly, named |-> named,
   changed |-> {[path |-> 1, first |-> 11, last |-> 13]}]

MCRequests ==
  {MCSearch(<<"callers">>, {}, FALSE, TRUE), MCSearch(<<"tests", "callers">>, {}, FALSE, FALSE),
   MCSearch(<<>>, {2, 3}, FALSE, TRUE), MCSearch(<<"callers", "tests">>, {2, 3}, FALSE, TRUE),
   MCSearch(<<"callees">>, {}, TRUE, TRUE)}

-----------------------------------------------------------------------------
(* Candidates of a packet                                                  *)

MCRelation(kind, direction, anchor, resolved) ==
  [kind |-> kind, direction |-> direction, anchor |-> anchor, resolved |-> resolved,
   confidence |-> IF resolved THEN 95 ELSE 40]

MCCandidate(h, path, span, hash, nature, lines) ==
  [handle |-> h, path |-> path, span |-> span, hash |-> hash, nature |-> nature, lines |-> lines,
   hits |-> FALSE, changed |-> FALSE, named |-> "no", context |-> NoContext]

\* 2 comes with two provenances, 3 is a copy of 1, 4 has the lines of 2, and 6
\* has no lines.
MCOffers ==
  {[MCCandidate(1, "p", 1, 1, "implementation", 30) EXCEPT !.named = "exactly"],
   [MCCandidate(2, "q", 1, 2, "implementation", 10) EXCEPT !.context = MCRelation("callers", "incoming", 1, TRUE)],
   [MCCandidate(2, "q", 1, 2, "implementation", 10) EXCEPT !.context = MCRelation("tests", "incoming", 1, FALSE)],
   [MCCandidate(3, "p", 2, 1, "type", 50) EXCEPT !.hits = TRUE],
   [MCCandidate(4, "q", 1, 0, "test", 45) EXCEPT !.changed = TRUE],
   [MCCandidate(5, "p", 3, 0, "outline", 12) EXCEPT !.context = MCRelation("parent", "outgoing", 1, FALSE)],
   MCCandidate(6, "r", 0, 0, "config", 1)}

-----------------------------------------------------------------------------
(* Candidates of a bundle                                                  *)

MCPacked(h, class, signal, symbol, rel, lines, scored) ==
  [handle |-> h, class |-> class, signal |-> signal, symbol |-> symbol, relation |-> rel, lines |-> lines, score |-> scored]

MCPack ==
  {MCPacked(1, "code", TRUE, TRUE, "", 9, 8), MCPacked(2, "code", TRUE, FALSE, "callers", 4, 4),
   MCPacked(3, "test", TRUE, FALSE, "callers", 3, 3), MCPacked(4, "prose", FALSE, FALSE, "", 5, 8),
   MCPacked(5, "test", TRUE, FALSE, "tests", 20, 1), MCPacked(6, "code", FALSE, FALSE, "", 2, 3),
   MCPacked(7, "test", FALSE, FALSE, "", 0, 2)}

-----------------------------------------------------------------------------
(* Words of a query                                                        *)

MCForm(low, path, ident, symbol, qualified, code, common, segs, words) ==
  [lower |-> low, path |-> path, identifier |-> ident, symbol |-> symbol, qualified |-> qualified, code |-> code,
   common |-> common, segments |-> segs, words |-> words]

MCPlain(s, common) == MCForm(s, FALSE, FALSE, FALSE, FALSE, FALSE, common, <<>>, <<s>>)

MCLexicon ==
  "auth.LoginUser" :> MCForm("auth.loginuser", FALSE, TRUE, TRUE, TRUE, TRUE, FALSE, <<"auth", "LoginUser">>, <<>>) @@
  "auth.loginuser" :> MCForm("auth.loginuser", FALSE, TRUE, TRUE, TRUE, TRUE, FALSE, <<"auth", "loginuser">>, <<>>) @@
  "LoginUser" :> MCForm("loginuser", FALSE, TRUE, TRUE, FALSE, TRUE, FALSE, <<"LoginUser">>, <<"login", "user">>) @@
  "tests/auth.go" :> MCForm("tests/auth.go", TRUE, TRUE, TRUE, FALSE, TRUE, FALSE, <<"tests", "auth", "go">>, <<>>) @@
  "app\\user" :> MCForm("app\\user", FALSE, FALSE, TRUE, TRUE, TRUE, FALSE, <<"app", "user">>, <<>>) @@
  "login_user" :> MCForm("login_user", FALSE, TRUE, TRUE, FALSE, TRUE, FALSE, <<"login", "user">>, <<>>) @@
  "\"call LoginUser\"" :>
     MCForm("\"call loginuser\"", FALSE, TRUE, TRUE, FALSE, TRUE, FALSE, <<>>, <<>>) @@
  [s \in {"auth", "loginuser", "login", "user", "go", "app", "\"call loginuser\"",
          "what", "does", "breaks", "calls", "from", "call"} |-> MCPlain(s, FALSE)] @@
  [s \in {"callers", "tests", "no"} |-> MCPlain(s, TRUE)]

MCUnit(kind, written, tokens, says, means) ==
  [kind |-> kind, text |-> written, tokens |-> tokens, says |-> says, means |-> means]
MCToken(s, says) == MCUnit("token", s, <<>>, says, {})

MCUnits ==
  {MCToken(s, <<s>>) : s \in {"what", "does", "breaks", "calls", "from", "callers"}}
    \cup {MCToken("auth.LoginUser", <<"auth", ".", "loginuser">>), MCToken("LoginUser", <<"loginuser">>),
          MCToken("tests/auth.go", <<"tests", "/", "auth", ".", "go">>), MCToken("app\\user", <<"app", "\\", "user">>),
          MCToken("login_user", <<"login_user">>),
          MCUnit("phrase", "\"call LoginUser\"", <<"call", "LoginUser">>, <<"\"", "call", " ", "loginuser", "\"">>, {}),
          MCUnit("run", "no", <<"user", "no", "user">>, <<"no">>, {"references"})}

-----------------------------------------------------------------------------
(* Pieces of a PHP source, some of them broken                             *)

MCIdentifiers == {"a", "f", "g", "parent", "self", "test", "it"}

MCPieces ==
  {<<"namespace", "a", ";">>, <<"namespace", "a", "{">>, <<"class", "a", "{">>, <<"function", "f", "(", ")", "{">>,
   <<"}">>, <<"]">>, <<"public", "$v", ";">>, <<"html">>, <<"test", "(", "'s'", ",", "{">>,
   <<"use", "function", "a", "\\", "f", "as", "g", ";">>, <<"include", "f", "(", ")", ";">>,
   <<"f", "(", "new", "a", "(", "g", "(", ")", ")", ")", ";">>,
   <<"function", "f", "(", ")", "{", "g", "(", "a", "::", "f", "(", ")", ")", ";", "}">>,
   <<"public", "function", "g", "(", "static", "$v", ")", "{", "$this", "->", "f", "(", ")", ";", "}">>}

-----------------------------------------------------------------------------
(* Markup of a Smarty page, some of it broken                              *)

MCMarkup ==
  {<<"lf">>, <<"'">>, <<"}">>, <<"{", "*">>, <<"*", "}">>, <<"{", "capture", " ">>, <<"{", "block", " ", "n", "}">>,
   <<"{", "/", "block", "}">>, <<"{", "function", " ", "m", "}">>, <<"{", "literal", "}", "m", " ">>, <<"<", "/", "script", ">">>,
   <<"<", "script", ">", "lf", "function", " ", "n", "(", ")", "{">>, <<"m", "(", ")", "{", "}", "lf">>}

-----------------------------------------------------------------------------
(* Lines of a Python source                                                *)

PyLine(indent, words) == <<[indent |-> indent, words |-> words]>>

MCPyPieces ==
  {PyLine(0, <<"def", "t", "(", ")", ":">>) \o PyLine(1, <<"pass">>),
   PyLine(0, <<"class", "C", "(", "Protocol", ")", ":">>),
   PyLine(0, <<"async", "def", "o", "(", "a", ",">>) \o PyLine(1, <<"*", "t", "=", "a", ")", ":">>),
   PyLine(0, <<"def", "o", "(", ")", ":">>),
   PyLine(1, <<"def", "t", "(", "self", ")", ":">>) \o PyLine(2, <<"self", ".", "t", "(", ")">>),
   PyLine(1, <<"@", "property">>) \o PyLine(1, <<"def", "m", "(", "self", ")", ":">>),
   PyLine(2, <<"with", "a", "(", ")", "as", "(", "t", ",", "b", ")", ":">>),
   PyLine(1, <<"def", "test_t", "(", ")", ":">>) \o PyLine(2, <<"t", "=", "a">>),
   PyLine(2, <<"def", "t", "(", ")", ":">>) \o PyLine(3, <<"return", "(", "self", ".", "t", "(", ")", ")">>),
   PyLine(1, <<"t", "(", "o", "(", ")", ")">>),
   PyLine(2, <<"o", "(", ")">>) \o PyLine(2, <<>>) \o PyLine(2, <<"t", "(", ")">>),
   PyLine(1, <<"import", "a", ",", "t", ";", "o", "(", ")">>),
   PyLine(1, <<"from", "a", "import", "(">>) \o PyLine(0, <<"b", ",", "t", ")">>),
   PyLine(0, <<"if", "a", ":", "import", "a", ".", "b", "as", "t", ",", "\\">>) \o PyLine(1, <<"o", ";", "import", "b">>)}

-----------------------------------------------------------------------------
answer == <<history, view, session, text, pack, query, php, template, program, pyfile>>

Init == NoHistory /\ EmptyIndex /\ NoRequest /\ NoText /\ NothingToPack /\ NoQuery /\ NoSource /\ NoPage /\ NothingDeclared
        /\ NoPython

Idle == [history |-> NoHistory, index |-> EmptyIndex, call |-> NoRequest, text |-> NoText, pack |-> NothingToPack,
         query |-> NoQuery, php |-> NoSource, page |-> NoPage, program |-> NothingDeclared, pyfile |-> NoPython]

OnlyFor(part) == LET idle == Idle IN \A other \in DOMAIN idle \ {part} : idle[other]

Next ==
  \/ OnlyFor("history") /\ NextHistory /\ UNCHANGED <<view, session, text, pack, query, php, template, program, pyfile>>
  \/ OnlyFor("index") /\ NextSearch /\ UNCHANGED <<history, session, text, pack, query, php, template, program, pyfile>>
  \/ OnlyFor("call") /\ NextCall /\ UNCHANGED <<history, view, text, pack, query, php, template, program, pyfile>>
  \/ OnlyFor("text") /\ NextText /\ UNCHANGED <<history, view, session, pack, query, php, template, program, pyfile>>
  \/ OnlyFor("pack") /\ NextPack /\ UNCHANGED <<history, view, session, text, query, php, template, program, pyfile>>
  \/ OnlyFor("query") /\ NextQuery /\ UNCHANGED <<history, view, session, text, pack, php, template, program, pyfile>>
  \/ OnlyFor("php") /\ NextSource /\ UNCHANGED <<history, view, session, text, pack, query, template, program, pyfile>>
  \/ OnlyFor("page") /\ NextPage /\ UNCHANGED <<history, view, session, text, pack, query, php, program, pyfile>>
  \/ OnlyFor("pyfile") /\ NextPython /\ UNCHANGED <<history, view, session, text, pack, query, php, template, program>>
  \/ OnlyFor("program") /\ NextFile /\ UNCHANGED <<history, view, session, text, pack, query, php, template, pyfile>>

Spec == Init /\ [][Next]_answer

=============================================================================

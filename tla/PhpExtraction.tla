--------------------------- MODULE PhpExtraction ---------------------------
(***************************************************************************)
(* buildExtraction (extract/php): the chunks of a parsed PHP source, and   *)
(* the calls in its bodies with what they resolve to (phpscope).           *)
(*                                                                         *)
(* Every token has a line of its own, "html" has HtmlLines of them.  Names *)
(* are in lower case, and none begins with "namespace\".                   *)
(***************************************************************************)
EXTENDS PhpParser

CONSTANTS
  WindowLines, WindowOverlap,   \* of a fallback chunk
  HtmlLines

Keywords == Modifiers \cup ClassWords \cup
  {"namespace", "use", "function", "const", "new", "include", "extends", "implements", "and", "as"}

\* A declaration whose start is never found keeps the parser from returning.
Hangs(parsed) ==
  \/ \E k \in DOMAIN parsed.decls : parsed.decls[k].start = Stuck
  \/ \E k \in DOMAIN parsed.uses : parsed.uses[k].start = Stuck

-----------------------------------------------------------------------------
(* Chunks                                                                  *)

\* Of a class and of a namespace with a body, the header.
ChunkEnd(d) == IF IsClassLike(d) \/ (d.kind = "namespace" /\ d.open # 0) THEN d.header ELSE d.end

OwnTokens(d) == d.start .. Min({ChunkEnd(d), Beyond}) - 1

\* Faulty variant: classes count as covered with their bodies.
DeclaredWithBodies(parsed) ==
  UNION {parsed.decls[k].start .. parsed.decls[k].end - 1 : k \in DOMAIN parsed.decls}

\* appendFallbackChunks: what no declaration covers.
DeclaredTokens(parsed) == UNION {OwnTokens(parsed.decls[k]) : k \in DOMAIN parsed.decls}

Ranges(covered) ==
  LET firsts == {p \in DOMAIN tok \ covered : p = 1 \/ p - 1 \in covered}
  IN {[first |-> p, last |-> Min({q \in p .. Len(tok) : q = Len(tok) \/ q + 1 \in covered})] : p \in firsts}

LineOf(p) == p + (HtmlLines - 1) * Cardinality({q \in 1 .. p - 1 : tok[q] = "html"})
EndLineOf(p) == LineOf(p + 1) - 1

\* appendFallbackRange: windows that overlap.
WindowEnd(first, last) ==
  LET within == {p \in first .. last : EndLineOf(p) - LineOf(first) + 1 <= WindowLines}
      beyond == first .. last \ within
  IN IF beyond = {} THEN last ELSE Max({first, Min(beyond) - 1})

NextWindow(first, end) ==
  LET line == LineOf(end + 1) - WindowOverlap
      again == {p \in first .. end : LineOf(p) >= line}
  IN IF again = {} \/ Min(again) = first THEN end + 1 ELSE Min(again)

RECURSIVE WindowsFrom(_, _)
WindowsFrom(first, last) ==
  LET end == WindowEnd(first, last)
  IN {first .. end} \cup (IF end = last THEN {} ELSE WindowsFrom(NextWindow(first, end), last))

ChunksOf(parsed) ==
  {OwnTokens(parsed.decls[k]) : k \in DOMAIN parsed.decls}
    \cup UNION {WindowsFrom(r.first, r.last) : r \in Ranges(DeclaredTokens(parsed))}

-----------------------------------------------------------------------------
(* Names and imports                                                       *)

JoinNames(a, b) == IF a = <<>> THEN b ELSE a \o <<"\\">> \o b

RECURSIVE ClassParent(_)
ClassParent(d) == CASE d.kind = "none" -> NoDecl
                    [] d.parent.kind = "none" \/ IsClassLike(d.parent) -> d.parent
                    [] OTHER -> ClassParent(d.parent)

RECURSIVE QualifiedName(_)
QualifiedName(d) ==
  LET class == ClassParent(d) IN
  CASE d.kind = "namespace" -> d.name
    [] class # NoDecl -> QualifiedName(class) \o <<"::", d.name>>
    [] OTHER -> JoinNames(d.namespace, <<d.name>>)

\* importsInRange: what the list of a use statement imports; a group has a prefix.
RECURSIVE ImportsFrom(_, _, _, _)
ImportsFrom(p, end, default, prefix) ==
  LET kind == IF prefix # <<>> /\ TextAt(p, end) \in {"function", "const"} THEN tok[p] ELSE default
      first == IF kind = TextAt(p, end) THEN p + 1 ELSE p
      next == NameEnd(first, end)
      name == SubSeq(tok, first, next - 1)
      renamed == TextAt(next, end) = "as" /\ next + 1 < end
      alias == IF renamed THEN tok[next + 1] ELSE Last(name)
      Open(n) == IF Last(n) = "\\" THEN Front(n) ELSE n
  IN CASE TextAt(p, end) \in {";", ""} -> <<>>
       [] tok[p] \in {",", "}"} -> ImportsFrom(p + 1, end, default, prefix)
       [] next = first -> <<>>
       [] TextAt(next, end) = "{" -> ImportsFrom(next + 1, end, default, Open(name))
       [] OTHER -> <<[kind |-> kind, target |-> Canonical(JoinNames(prefix, name)), alias |-> alias]>>
                     \o ImportsFrom(IF renamed THEN next + 2 ELSE next, end, default, prefix)

ImportsOf(use) ==
  LET p == use.start + 1 IN
  CASE tok[use.start] # "use" -> <<>>
    [] TextAt(p, use.end) \in {"function", "const"} -> ImportsFrom(p + 1, use.end, tok[p], <<>>)
    [] OTHER -> ImportsFrom(p, use.end, "class", <<>>)

\* What a namespace calls alias; the last import of a name is the one it has.
AliasIn(parsed, namespace, kind, alias) ==
  LET uses == SelectSeq(parsed.uses, LAMBDA u : u.namespace = namespace)
      imports == FlattenSeq([k \in DOMAIN uses |-> ImportsOf(uses[k])])
      last == SelectLastInSeq(imports, LAMBDA i : i.kind = kind /\ i.alias = alias)
  IN IF last = 0 THEN <<>> ELSE imports[last].target

\* resolveAlias.
ResolveAlias(parsed, namespace, name) ==
  LET Aliased(alias) == IF alias # <<>> THEN alias \o Tail(name) ELSE JoinNames(namespace, name)
  IN IF name[1] = "\\" THEN Tail(name) ELSE Aliased(AliasIn(parsed, namespace, "class", name[1]))

-----------------------------------------------------------------------------
(* Calls                                                                   *)

\* qualifiedNameAt takes keywords for parts of a name.
RECURSIVE WordsEnd(_, _)
WordsEnd(p, end) == IF p < end /\ (NamePart(tok[p]) \/ tok[p] \in Keywords) THEN WordsEnd(p + 1, end) ELSE p

Callee(target, next) == [target |-> target, next |-> next]

\* Faulty variant: the scan goes on after the arguments.
CallPastArguments(p, start, end) ==
  LET next == WordsEnd(p, end) IN
  IF NamePart(tok[p]) /\ TextAt(next, end) = "("
  THEN {Callee(SubSeq(tok, p, next - 1), Max({Closing(next, end, "(", ")"), next}) + 1)}
  ELSE {}

\* callAt, in a body that begins at start: the call whose name is at p.
CallAt(p, start, end) ==
  LET next == WordsEnd(p, end)
      words == SubSeq(tok, p, next - 1)
      Text(k) == TextAt(p + k, end)
      After(k) == TextAt(next + k, end)
      IsKeyword == next - 2 >= p /\ tok[next - 2] = "\\" /\ tok[next - 1] \in Keywords
  IN CASE p > start /\ tok[p - 1] \in {"->", "::"} /\ Text(1) = "(" -> {Callee(<<"<receiver>", "->", tok[p]>>, p + 2)}
       [] tok[p] \in {"$v", "$this"} /\ Text(1) = "->" /\ IsName(p + 2, end) /\ Text(3) = "(" ->
            {Callee(<<tok[p], "->", tok[p + 2]>>, p + 4)}
       [] NamePart(tok[p]) /\ After(0) = "::" /\ IsName(next + 1, end) /\ After(2) = "(" /\ next + 3 < end ->
            {Callee(words \o <<"::", tok[next + 1]>>, next + 3)}
       [] tok[p] = "static" /\ Text(1) = "::" /\ IsName(p + 2, end) /\ Text(3) = "(" ->
            {Callee(<<"static", "::", tok[p + 2]>>, p + 4)}
       [] NamePart(tok[p]) /\ After(0) = "(" /\ ~IsKeyword -> {Callee(words, next + 1)}
       [] OTHER -> {}

\* buildBodyRelations: the targets of the calls from p.  The names after "new"
\* and before "::class", and what is included, are no calls.
RECURSIVE CallsFrom(_, _, _)
CallsFrom(p, start, end) ==
  LET next == WordsEnd(p, end)
      semi == FirstText({";"}, p + 1, end)
      calls == CallAt(p, start, end)
  IN CASE p >= end -> {}
       [] NamePart(tok[p]) /\ TextAt(next, end) = "::" /\ TextAt(next + 1, end) = "class" -> CallsFrom(next + 2, start, end)
       [] tok[p] = "include" -> CallsFrom(IF semi = 0 THEN p + 1 ELSE semi + 1, start, end)
       [] tok[p] = "new" -> CallsFrom(WordsEnd(p + 1, end), start, end)
       [] calls = {} -> CallsFrom(p + 1, start, end)
       [] OTHER -> {c.target : c \in calls} \cup CallsFrom((CHOOSE c \in calls : TRUE).next, start, end)

HasBody(d) == d.kind \in {"function", "test"} /\ d.open # 0 /\ d.close # 0

\* normalizeCallTarget: an absolute name begins with "\".  A member of a class
\* and a function.
OfClass(parsed, d, class, owner) ==
  LET Absolute(name) == <<"\\">> \o ResolveAlias(parsed, d.namespace, name)
      parent == owner = <<"parent">>
  IN CASE owner \in {<<"$this">>, <<"self">>, <<"static">>} ->
            (IF class = NoDecl THEN <<"<unknown>">> ELSE <<"\\">> \o QualifiedName(class))
       [] parent /\ (class = NoDecl \/ Len(class.extends) # 1) -> <<"<parent>">>
       [] OTHER -> Absolute(IF parent THEN class.extends[1] ELSE owner)

Plain(parsed, d, target) ==
  LET Imported(name) == IF name # <<>> THEN <<"\\">> \o name ELSE target
  IN CASE target[1] = "\\" -> target
       [] Len(target) > 1 -> <<"\\">> \o ResolveAlias(parsed, d.namespace, target)
       [] OTHER -> Imported(AliasIn(parsed, d.namespace, "function", target[1]))

Normalized(parsed, d, target) ==
  LET class == ClassParent(d)
      IsMember(op) == Len(target) > 2 /\ target[Len(target) - 1] = op
  IN CASE IsMember("->") /\ (target[1] # "$this" \/ class = NoDecl) -> target
       [] IsMember("->") \/ IsMember("::") ->
            OfClass(parsed, d, class, SubSeq(target, 1, Len(target) - 2)) \o <<"::", Last(target)>>
       [] OTHER -> Plain(parsed, d, target)

\* phpscope.Candidates: a plain name is looked for in its namespace first.
NameCandidates(d, target) ==
  CASE Contains(target, "->") \/ target[1] \in {"<unknown>", "<parent>"} -> <<>>
    [] target[1] = "\\" -> <<Tail(target)>>
    [] d.namespace = <<>> -> <<target>>
    [] OTHER -> <<JoinNames(d.namespace, target), target>>

\* phpscope.Resolve, of the symbols of the file.
Callable(parsed, name) ==
  LET method == Contains(name, "::")
  IN {k \in DOMAIN parsed.decls :
        /\ parsed.decls[k].kind = "function"
        /\ method <=> ClassParent(parsed.decls[k]) # NoDecl
        /\ QualifiedName(parsed.decls[k]) = name}

\* resolveCall: a function of the global namespace is left to the linker.
ResolveCall(parsed, d, target) ==
  LET names == NameCandidates(d, target) IN
  IF names = <<>> \/ Cardinality(Callable(parsed, names[1])) # 1 THEN {} ELSE Callable(parsed, names[1])

CallsOf(parsed, d) ==
  IF ~HasBody(d) THEN {}
  ELSE {[target |-> t, to |-> ResolveCall(parsed, d, t)] :
          t \in {Normalized(parsed, d, target) : target \in CallsFrom(d.open + 1, d.open + 1, d.close)}}

-----------------------------------------------------------------------------
(* Properties                                                              *)

\* Every token of a source, whole or broken, is in a chunk: what no
\* declaration covers is in a window, however long it is
\* (appendDeclarationChunk, appendFallbackChunks).
NothingUnsearchable(parsed) ==
  ~Hangs(parsed) => DOMAIN tok \subseteq UNION ChunksOf(parsed)

\* A name in a body before a parenthesis that is closed.  Not meant: what is
\* made by "new", declared by "function" or included, and a name after a word
\* between two names (Joined), which the code takes for a part of the first.
CallSites(d) ==
  LET body == d.open + 1 .. d.close - 1
      Begin(p) == Min({q \in body : q <= p /\ \A r \in q .. p : NamePart(tok[r])})
      Before(q) == IF q - 1 \in body THEN tok[q - 1] ELSE ""
      Joined(q) == Before(q) \in Keywords /\ q - 2 \in body /\ (NamePart(tok[q - 2]) \/ tok[q - 2] \in Keywords)
      Included(p) == \E q \in body : q < p /\ tok[q] = "include" /\ ~Holds({";"}, q, p) /\ Holds({";"}, p, d.close)
  IN IF ~HasBody(d) THEN {}
     ELSE {p \in body :
             /\ tok[p] \in Identifiers /\ TextAt(p + 1, d.close) = "(" /\ Closing(p + 1, d.close, "(", ")") # 0
             /\ Before(Begin(p)) \notin {"new", "function"} /\ ~Joined(Begin(p)) /\ ~Included(p)}

\* Every call in the body of a function is one of its relations: no call hides
\* another, in its arguments, after it or before it.  And a call of a plain
\* name in a namespace is never taken for a function of another namespace
\* while other files may have the function (buildBodyRelations, resolveCall).
CallsAreFound(parsed) ==
  ~Hangs(parsed) =>
    \A k \in DOMAIN parsed.decls :
      LET d == parsed.decls[k]
          targets == CallsFrom(d.open + 1, d.open + 1, d.close)
      IN /\ \A p \in CallSites(d) : \E t \in targets : Last(t) = tok[p]
         /\ \A c \in CallsOf(parsed, d) : \A to \in c.to :
              Len(c.target) = 1 => parsed.decls[to].namespace = d.namespace

\* Whatever a PHP source holds, broken or not, it can be found again: its text
\* in a chunk, its calls in the relations of the function that makes them.
FoundAgain(parsed) == NothingUnsearchable(parsed) /\ CallsAreFound(parsed)

PhpIsSearchable == FoundAgain(Parsed)

=============================================================================

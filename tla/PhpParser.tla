------------------------------ MODULE PhpParser ------------------------------
(***************************************************************************)
(* parsePHP (extract/php): the declarations and imports of a PHP source,   *)
(* whole or broken.                                                        *)
(*                                                                         *)
(* A source is a sequence of tokens; comments and white space are left     *)
(* out.  Keywords and punctuation are themselves, "$v" is a variable, "'s'"*)
(* a string, "html" inline HTML, and Identifiers are the identifiers.  A   *)
(* name is the sequence of its tokens.  Positions of a scope are           *)
(* p .. end - 1; 0 is no position.                                         *)
(***************************************************************************)
EXTENDS Integers, Sequences, FiniteSets, FiniteSetsExt, SequencesExt

CONSTANTS
  Identifiers,   \* "test" and "it" may be among them
  Pieces,        \* token sequences a source is made of
  MaxPieces,     \* bound
  TokenBytes     \* the bytes of a token with the white space after it

VARIABLE php     \* [text, pieces]

NoSource == php = [text |-> <<>>, pieces |-> 0]

Write(piece) ==
  /\ php.pieces < MaxPieces
  /\ php' = [text |-> php.text \o piece, pieces |-> php.pieces + 1]

NextSource == \E piece \in Pieces : Write(piece)

-----------------------------------------------------------------------------
tok == php.text
Beyond == Len(tok) + 1

Modifiers == {"public", "static"}
ClassWords == {"class", "interface", "trait", "enum"}

TextAt(p, end) == IF p < end THEN tok[p] ELSE ""
IsName(p, end) == TextAt(p, end) \in Identifiers
NamePart(t) == t \in Identifiers \cup {"\\"}
FirstText(texts, p, end) == SelectInSubSeq(tok, p, end - 1, LAMBDA t : t \in texts)
Holds(texts, p, end) == FirstText(texts, p, end) # 0

\* matchDelimiter, from the opening one.
RECURSIVE ClosingFrom(_, _, _, _, _)
ClosingFrom(p, end, opening, closing, depth) ==
  CASE p >= end -> 0
    [] tok[p] = opening -> ClosingFrom(p + 1, end, opening, closing, depth + 1)
    [] tok[p] = closing -> IF depth = 1 THEN p ELSE ClosingFrom(p + 1, end, opening, closing, depth - 1)
    [] OTHER -> ClosingFrom(p + 1, end, opening, closing, depth)

Closing(open, end, opening, closing) == ClosingFrom(open, end, opening, closing, 0)

\* findSemicolon: braces end it, except within parentheses.
RECURSIVE Semicolon(_, _, _)
Semicolon(p, end, depth) ==
  CASE p >= end -> 0
    [] tok[p] \in {"(", "["} -> Semicolon(p + 1, end, depth + 1)
    [] tok[p] \in {")", "]"} -> Semicolon(p + 1, end, IF depth > 0 THEN depth - 1 ELSE 0)
    [] tok[p] = ";" /\ depth = 0 -> p
    [] tok[p] \in {"{", "}"} /\ depth = 0 -> 0
    [] OTHER -> Semicolon(p + 1, end, depth)

-----------------------------------------------------------------------------
(* Declarations                                                            *)

NoDecl == [kind |-> "none"]
Stuck == 0

\* A declaration covers start .. end - 1, its header start .. header - 1.
Decl(kind, name, at, start, end, header, open, close) ==
  [kind |-> kind, name |-> name, namespace |-> at.namespace, start |-> start, end |-> end, header |-> header,
   open |-> open, close |-> close, parent |-> at.parent, extends |-> <<>>, implements |-> <<>>]

IsClassLike(d) == d.kind \in ClassWords

\* The bracket that the one at p closes, not before low.
RECURSIVE OpeningBefore(_, _, _)
OpeningBefore(p, low, depth) ==
  CASE p < low -> 0
    [] tok[p] = "]" -> OpeningBefore(p - 1, low, depth + 1)
    [] tok[p] = "[" -> IF depth = 1 THEN p ELSE OpeningBefore(p - 1, low, depth - 1)
    [] OTHER -> OpeningBefore(p - 1, low, depth)

\* declarationStart: modifiers and bracketed groups before the keyword belong
\* to it.  When a bracket has no partner and a modifier was found after it, the
\* loop goes on from where it is: it never ends.
RECURSIVE PrefixStart(_, _, _)
PrefixStart(s, keyword, low) ==
  LET open == OpeningBefore(s - 1, low, 0) IN
  CASE s <= low -> s
    [] tok[s - 1] \in Modifiers -> PrefixStart(s - 1, keyword, low)
    [] tok[s - 1] # "]" -> s
    [] open = 0 -> IF s # keyword THEN Stuck ELSE s
    [] OTHER -> PrefixStart(IF open > low /\ tok[open - 1] = "#" THEN open - 1 ELSE open, keyword, low)

DeclarationStart(p, low) == IF p <= low THEN p ELSE PrefixStart(p, p, low)

\* nameAfter: the first name from p, before a token of stop.
RECURSIVE NameEnd(_, _)
NameEnd(p, end) == IF p < end /\ NamePart(tok[p]) THEN NameEnd(p + 1, end) ELSE p

NameAfter(p, end, stop) ==
  LET limit == Min({end, FirstText(stop, p, end)} \ {0})
      first == SelectInSubSeq(tok, p, limit - 1, NamePart)
  IN IF first = 0 THEN <<>> ELSE SubSeq(tok, first, NameEnd(first, limit) - 1)

RECURSIVE NamesUntil(_, _, _)
NamesUntil(p, end, stop) ==
  LET name == NameAfter(p, end, stop)
      comma == FirstText({","} \cup stop, p, end)
  IN IF name = <<>> THEN <<>>
     ELSE <<name>> \o (IF TextAt(comma, end) = "," THEN NamesUntil(comma + 1, end, stop) ELSE <<>>)

Nothing == [decls |-> <<>>, uses |-> <<>>]
Both(a, b) == [decls |-> a.decls \o b.decls, uses |-> a.uses \o b.uses]

\* What one statement of a scope gives: what was found, where the next one
\* begins, and the namespace it is in.
Step(at, decls, next) == [found |-> [Nothing EXCEPT !.decls = decls], next |-> next, namespace |-> at.namespace]

-----------------------------------------------------------------------------
(* Statements; a scope is [start, end, namespace, parent, members].        *)

RECURSIVE Scope(_, _)

Names(p, end) == SelectSeq(SubSeq(tok, p, end - 1), NamePart)
Canonical(name) == IF name # <<>> /\ name[1] = "\\" THEN Tail(name) ELSE name

NamespaceAt(at, p) ==
  LET d == FirstText({";", "{"}, p + 1, at.end)
      name == IF d = 0 THEN <<>> ELSE Canonical(Names(p + 1, d))
      own == [at EXCEPT !.namespace = name, !.parent = NoDecl]
      close == Closing(d, at.end, "{", "}")
      start == DeclarationStart(p, at.start)
      Braced(end) == Decl("namespace", name, own, start, end, d + 1, d, close)
  IN CASE name = <<>> -> Step(at, <<>>, p + 1)
       [] tok[d] = ";" -> [Step(at, <<Decl("namespace", name, own, start, d + 1, d + 1, 0, 0)>>, d + 1)
                           EXCEPT !.namespace = name]
       [] close = 0 -> [Step(at, <<>>, at.end) EXCEPT
                          !.found = Both([Nothing EXCEPT !.decls = <<Braced(Beyond)>>],
                                         Scope([at EXCEPT !.start = d + 1, !.namespace = name], d + 1))]
       [] OTHER -> [Step(at, <<>>, close + 1) EXCEPT
                      !.found = Both(Scope([at EXCEPT !.start = d + 1, !.end = close, !.namespace = name,
                                                      !.parent = Braced(close + 1)], d + 1),
                                     [Nothing EXCEPT !.decls = <<Braced(close + 1)>>])]

\* findUseEnd: the end of an import, or where a declaration after a broken one
\* begins.
RECURSIVE UseEnd(_, _, _)
UseEnd(p, end, depth) ==
  CASE p >= end -> [at |-> 0, next |-> end]
    [] tok[p] = "{" -> UseEnd(p + 1, end, depth + 1)
    [] tok[p] = "}" -> IF depth = 0 THEN [at |-> 0, next |-> p] ELSE UseEnd(p + 1, end, depth - 1)
    [] tok[p] = ";" -> [at |-> IF depth = 0 THEN p ELSE 0, next |-> p + 1]
    [] tok[p] \in ClassWords -> [at |-> 0, next |-> p]
    [] tok[p] = "function" /\ IsName(p + 1, end) /\ TextAt(p + 2, end) = "(" -> [at |-> 0, next |-> p]
    [] OTHER -> UseEnd(p + 1, end, depth)

UseAt(at, p) ==
  LET use == UseEnd(p + 1, at.end, 0) IN
  IF use.at = 0 THEN Step(at, <<>>, use.next)
  ELSE [Step(at, <<>>, use.next) EXCEPT
          !.found.uses = <<[start |-> DeclarationStart(p, at.start), end |-> use.at + 1, namespace |-> at.namespace]>>]

\* parseClassLike and the scope of its members.
ClassAt(at, p) ==
  LET body == FirstText({"{", ";"}, p + 2, at.end)
      limit == IF body = 0 THEN at.end ELSE body
      close == Closing(body, at.end, "{", "}")
      start == DeclarationStart(p, 1)
      Heads(word, Of(_)) == FlattenSeq([k \in 1 .. limit - p |-> IF tok[p + k - 1] = word THEN Of(p + k) ELSE <<>>])
      Made(end, header, open, shut) ==
        [Decl(tok[p], tok[p + 1], at, start, end, header, open, shut) EXCEPT
           !.extends = Heads("extends", LAMBDA k : SelectSeq(<<NameAfter(k, at.end, {"implements", "{", ";"})>>,
                                                             LAMBDA n : n # <<>>)),
           !.implements = Heads("implements", LAMBDA k : NamesUntil(k, at.end, {"{", ";"}))]
      whole == Made(close + 1, body + 1, body, close)
  IN CASE body = 0 -> Step(at, <<Made(Beyond, Beyond, 0, 0)>>, at.end)
       [] tok[body] = ";" -> Step(at, <<Made(body + 1, body + 1, 0, 0)>>, body + 1)
       [] close = 0 -> Step(at, <<Made(Beyond, body + 1, body, 0)>>, at.end)
       [] OTHER -> [Step(at, <<>>, close + 1) EXCEPT
                      !.found = Both([Nothing EXCEPT !.decls = <<whole>>],
                                     Scope([start |-> body + 1, end |-> close, namespace |-> at.namespace,
                                            parent |-> whole, members |-> TRUE], body + 1))]

\* hasModifierBefore: within the same parameter.
HasModifierBefore(p, start) ==
  LET last == SelectLastInSubSeq(tok, start, p - 1, LAMBDA t : t \in Modifiers \cup {",", "("})
  IN last # 0 /\ tok[last] \in Modifiers

\* appendPromotedProperties.
Promoted(method) ==
  IF method.parent.kind \in {"none", "namespace"} \/ method.start = Stuck THEN <<>>
  ELSE LET vars == {k \in method.start + 1 .. Min({method.header, Beyond}) - 1 :
                      tok[k] = "$v" /\ HasModifierBefore(k, method.start)}
       IN [k \in 1 .. Cardinality(vars) |->
             [method EXCEPT !.kind = "property", !.name = "v", !.end = method.header, !.open = 0, !.close = 0]]

\* parseFunction.
FunctionAt(at, p) ==
  LET named == IF TextAt(p + 1, at.end) = "&" THEN p + 2 ELSE p + 1
      open == FirstText({"("}, named + 1, at.end)
      shut == Closing(open, at.end, "(", ")")
      body == FirstText({"{", ";"}, shut + 1, at.end)
      close == Closing(body, at.end, "{", "}")
      start == DeclarationStart(p, 1)
      Made(end, header, from, to) == Decl("function", tok[named], at, start, end, header, from, to)
      Given(d, next) == Step(at, <<d>> \o Promoted(d), next)
  IN CASE open = 0 -> Given(Made(named + 1, named + 1, 0, 0), named + 1)
       [] shut = 0 \/ body = 0 -> Given(Made(Beyond, Beyond, 0, 0), at.end)
       [] tok[body] = ";" -> Given(Made(body + 1, body + 1, 0, 0), body + 1)
       [] close = 0 -> Given(Made(Beyond, body + 1, body, 0), at.end)
       [] OTHER -> Given(Made(close + 1, body + 1, body, close), close + 1)

\* parsePestTest: the closure is an argument, or follows the call.  The header
\* of the declaration ends at a byte offset.
PestAt(at, p) ==
  LET open == p + 1
      close == Closing(open, at.end, "(", ")")
      named == FirstText({"'s'"}, open + 1, close)
      inner == SelectLastInSubSeq(tok, open + 1, close - 1, LAMBDA t : t = "{")
      innerEnd == Closing(inner, at.end, "{", "}")
      after == FirstText({"{", ";"}, close + 1, at.end)
      afterEnd == Closing(after, at.end, "{", "}")
      Made(end, from, to) ==
        Decl("test", tok[named], at, DeclarationStart(p, 1), end, close * TokenBytes, from, to)
      insideOpen == IF inner = 0 THEN 0 ELSE inner
      insideClose == IF inner = 0 THEN 0 ELSE innerEnd
  IN IF TextAt(open, at.end) # "(" \/ close = 0 \/ named = 0 THEN {}
     ELSE IF inner # 0 /\ (innerEnd = 0 \/ innerEnd >= close) THEN {Step(at, <<Made(Beyond, inner, 0)>>, at.end)}
     ELSE IF after = 0
       THEN IF inner = 0 THEN {} ELSE {Step(at, <<Made(close + 1, insideOpen, insideClose)>>, close + 1)}
     ELSE IF tok[after] = ";" THEN {Step(at, <<Made(after + 1, insideOpen, insideClose)>>, after + 1)}
     ELSE IF afterEnd = 0 THEN {Step(at, <<Made(Beyond, after, 0)>>, at.end)}
     ELSE {Step(at, <<Made(afterEnd + 1, after, afterEnd)>>, afterEnd + 1)}

\* appendConstants: the name before the first "=" of each item of the list.
RECURSIVE ConstantsFrom(_, _, _, _, _)
ConstantsFrom(p, semi, segment, depth, inValue) ==
  CASE p >= semi -> <<>>
    [] tok[p] \in {"(", "[", "{"} -> ConstantsFrom(p + 1, semi, segment, depth + 1, inValue)
    [] tok[p] \in {")", "]", "}"} -> ConstantsFrom(p + 1, semi, segment, depth - 1, inValue)
    [] tok[p] = "," /\ depth = 0 -> ConstantsFrom(p + 1, semi, p + 1, depth, FALSE)
    [] tok[p] = "=" /\ depth = 0 /\ ~inValue ->
         (IF p > segment /\ tok[p - 1] \in Identifiers THEN <<tok[p - 1]>> ELSE <<>>)
           \o ConstantsFrom(p + 1, semi, segment, depth, TRUE)
    [] OTHER -> ConstantsFrom(p + 1, semi, segment, depth, inValue)

\* parseClassMembers.
MembersAt(at, p) ==
  LET semi == Semicolon(p, at.end, 0)
      Made(kind, name) == Decl(kind, name, at, DeclarationStart(p, 1), semi + 1, semi + 1, 0, 0)
      Of(kind, names) == {Step(at, [k \in DOMAIN names |-> Made(kind, names[k])], semi + 1)}
  IN CASE semi = 0 -> {}
       [] Holds({"const"}, p, semi) -> Of("constant", ConstantsFrom(p, semi, p, 0, FALSE))
       [] Holds({"(", "{"}, p, semi) \/ ~Holds({"$v"}, p, semi) -> {}
       [] OTHER -> Of("property", SelectSeq(SubSeq(tok, p, semi - 1), LAMBDA t : t = "$v"))

\* The switch of parseScope; what no case takes may be a member of a class.
Statement(at, p) ==
  LET t == tok[p]
      after == IF TextAt(p + 1, at.end) = "&" THEN p + 2 ELSE p + 1
      pest == IF t \in {"test", "it"} /\ at.parent.kind \in {"none", "namespace"} THEN PestAt(at, p) ELSE {}
      members == IF at.members /\ t \in {"const", "$v"} \cup Modifiers THEN MembersAt(at, p) ELSE {}
  IN CASE t = "namespace" -> NamespaceAt(at, p)
       [] t = "use" /\ ~at.members -> UseAt(at, p)
       [] t \in ClassWords /\ IsName(p + 1, at.end) -> ClassAt(at, p)
       [] t = "function" /\ IsName(after, at.end) -> FunctionAt(at, p)
       [] pest # {} -> CHOOSE step \in pest : TRUE
       [] members # {} -> CHOOSE step \in members : TRUE
       [] OTHER -> Step(at, <<>>, p + 1)

\* parseScope.
Scope(at, p) ==
  LET After(step) == Both(step.found, Scope([at EXCEPT !.namespace = step.namespace], step.next))
  IN IF p >= at.end THEN Nothing ELSE After(Statement(at, p))

Parsed == Scope([start |-> 1, end |-> Beyond, namespace |-> <<>>, parent |-> NoDecl, members |-> FALSE], 1)

=============================================================================

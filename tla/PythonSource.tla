---------------------------- MODULE PythonSource ----------------------------
(***************************************************************************)
(* The Python extractor: the declarations of a source by its indentation,  *)
(* what it imports, and which declaration a call means.                    *)
(*                                                                         *)
(* A line is its indentation and its words: names, keywords and Signs.     *)
(* Strings and comments are masked before the lines are read, so that a    *)
(* line of them has no words.                                              *)
(***************************************************************************)
EXTENDS Integers, Sequences, FiniteSets, SequencesExt

CONSTANTS
  PyPieces,      \* sequences of lines a source is made of
  MaxPyPieces    \* bound

VARIABLE pyfile  \* [lines, pieces]

NoPython == pyfile = [lines |-> <<>>, pieces |-> {}]

NextPython ==
  \E piece \in PyPieces \ pyfile.pieces :
    /\ Cardinality(pyfile.pieces) < MaxPyPieces
    /\ pyfile' = [lines |-> pyfile.lines \o piece, pieces |-> pyfile.pieces \cup {piece}]

-----------------------------------------------------------------------------
PyOpen == {"(", "["}
PyClose == {")", "]"}
Signs == PyOpen \cup PyClose \cup {",", "=", ":", ".", "*", "@", ";", "\\"}

IsWord(word) == word \notin Signs
WordAt(words, k) == IF k \in DOMAIN words THEN words[k] ELSE ""
FirstWord(words, marks) == SelectInSeq(words, LAMBDA word : word \in marks)
WordsAfter(words, k) == SubSeq(words, k + 1, Len(words))
UpTo(words, k) == SubSeq(words, 1, k - 1)
Unstarred(words) ==
  LET k == SelectInSeq(words, LAMBDA word : word # "*") IN IF k = 0 THEN <<>> ELSE WordsAfter(words, k - 1)

RECURSIVE DepthBehind(_, _)
DepthBehind(words, depth) ==
  IF words = <<>> THEN depth
  ELSE DepthBehind(Tail(words), CASE Head(words) \in PyOpen -> depth + 1
                                  [] Head(words) \in PyClose /\ depth > 0 -> depth - 1
                                  [] OTHER -> depth)

(* The first of the marks outside brackets, 0 if there is none.             *)
Outside(words, marks) ==
  LET found == {k \in DOMAIN words : words[k] \in marks /\ DepthBehind(UpTo(words, k), 0) = 0}
  IN IF found = {} THEN 0 ELSE CHOOSE k \in found : \A j \in found : k <= j

RECURSIVE PartsAt(_, _)
PartsAt(words, mark) ==
  LET Cut(k) == IF k = 0 THEN <<words>> ELSE <<UpTo(words, k)>> \o PartsAt(WordsAfter(words, k), mark)
  IN Cut(Outside(words, {mark}))

PyLast == Len(pyfile.lines)
WordsOf(i) == pyfile.lines[i].words
IndentOf(i) == pyfile.lines[i].indent

RECURSIVE DepthAt(_)
DepthAt(i) == IF i = 1 THEN 0 ELSE DepthBehind(WordsOf(i - 1), DepthAt(i - 1))

IsStatement(i) == WordsOf(i) # <<>> /\ DepthAt(i) = 0

-----------------------------------------------------------------------------
(* Declarations: [kind, name, start, end, indent, parent], the parent by    *)
(* the line it starts at, 0 for none.                                       *)

PyClasses == {"class", "protocol"}
IsPyClass(d) == d.kind \in PyClasses
IsScope(d) == d.kind \notin {"type_alias", "class_variable"}

EndLine(start, indent) ==
  LET left == {j \in start + 1 .. PyLast : IndentOf(j) <= indent /\ IsStatement(j)}
  IN IF left = {} THEN PyLast ELSE (CHOOSE j \in left : \A k \in left : j <= k) - 1

(* Names that begin with test_.                                             *)
PyTests == {"test_t"}

FunctionKind(async, name, decorators, around) ==
  LET Decorated(word) == \E decorator \in decorators : Contains(decorator, word)
      IsTest == name \in PyTests \/ Decorated("pytest.mark")
      InClass == \E d \in around : IsPyClass(d)
      InFunction == \E d \in around : d.kind \in {"function", "async_function", "method", "async_method"}
  IN IF InFunction THEN "nested_function"
     ELSE IF Decorated("pytest.fixture") THEN "fixture"
     ELSE IF InClass /\ Decorated("property") THEN "property"
     ELSE IF IsTest THEN "test"
     ELSE IF InClass THEN IF async THEN "async_method" ELSE "method"
     ELSE IF async THEN "async_function" ELSE "function"

(* What a statement declares, around it the innermost open declaration.     *)
DeclaredBy(i, around, decorators) ==
  LET words == WordsOf(i)
      async == Head(words) = "async"
      def == IF async THEN 2 ELSE 1
      protocol == WordAt(words, FirstWord(words, {"("}) + 1) = "Protocol"
      IsAssignment == IsWord(Head(words)) /\ WordAt(words, 2) = "="
      IsAlias == IsAssignment /\ Len(words) > 2 /\ IsWord(words[3]) /\ ~Contains(words, "(")
      Of(kind, name, outer) ==
        {[kind |-> kind, name |-> name, start |-> i, end |-> EndLine(i, IndentOf(i)), indent |-> IndentOf(i),
          parent |-> IF outer = {} THEN 0 ELSE (CHOOSE d \in outer : TRUE).start]}
  IN IF Head(words) = "class" THEN Of(IF protocol THEN "protocol" ELSE "class", words[2], around)
     ELSE IF WordAt(words, def) = "def" /\ WordAt(words, def + 2) = "("
       THEN Of(FunctionKind(async, words[def + 1], decorators, around), words[def + 1], around)
     ELSE IF IndentOf(i) = 0 /\ IsAlias THEN Of("type_alias", Head(words), {})
     ELSE IF IsAssignment /\ \E d \in around : IsPyClass(d) THEN Of("class_variable", Head(words), around)
     ELSE {}

(* A mutant: a declaration beside another is taken to be inside it.         *)
Deeper(active, indent) == SelectSeq(active, LAMBDA d : d.indent <= indent)

StillOpen(active, indent) == SelectSeq(active, LAMBDA d : d.indent < indent)

RECURSIVE DeclarationsFrom(_, _, _)
DeclarationsFrom(i, active, decorators) ==
  IF i > PyLast THEN {}
  ELSE IF ~IsStatement(i) THEN DeclarationsFrom(i + 1, active, decorators)
  ELSE LET open == StillOpen(active, IndentOf(i))
           around == IF open = <<>> THEN {} ELSE {Last(open)}
           new == DeclaredBy(i, around, decorators)
       IN IF Head(WordsOf(i)) = "@" THEN DeclarationsFrom(i + 1, open, decorators \cup {WordsOf(i)})
          ELSE IF new = {} THEN DeclarationsFrom(i + 1, open, decorators)
          ELSE new \cup DeclarationsFrom(i + 1, open \o SetToSeq({d \in new : IsScope(d)}), {})

PyDeclarations == DeclarationsFrom(1, <<>>, {})

PyParent(d, decls) == {p \in decls : p.start = d.parent}

-----------------------------------------------------------------------------
(* What a text binds                                                       *)

RECURSIVE TargetNames(_)
TargetNames(target) ==
  LET Of(parts, leaf) ==
        IF Len(parts) > 1 THEN UNION {TargetNames(parts[k]) : k \in DOMAIN parts}
        ELSE IF Len(leaf) = 1 /\ IsWord(Head(leaf)) THEN {Head(leaf)} ELSE {}
  IN IF Len(target) >= 2 /\ <<Head(target), Last(target)>> \in {<<"(", ")">>, <<"[", "]">>}
       THEN TargetNames(SubSeq(target, 2, Len(target) - 1))
     ELSE Of(PartsAt(target, ","), Unstarred(target))

StatementNames(text) ==
  LET words == IF WordAt(text, 1) = "async" THEN Tail(text) ELSE text
      items == PartsAt(SelectSeq(WordsAfter(words, 1), LAMBDA word : word # ":"), ",")
      AsAt(item) == SelectLastInSeq(item, LAMBDA word : word = "as")
      cut == Outside(words, {":", "="})
  IN IF WordAt(words, 1) = "for" THEN TargetNames(SubSeq(words, 2, FirstWord(words, {"in"}) - 1))
     ELSE IF WordAt(words, 1) = "with"
       THEN UNION {TargetNames(WordsAfter(items[k], AsAt(items[k]))) : k \in {j \in DOMAIN items : AsAt(items[j]) # 0}}
     ELSE IF cut = 0 THEN {} ELSE TargetNames(UpTo(words, cut))

IsImport(words) == WordAt(words, 1) \in {"import", "from"}

(* Brackets are blanks, and a word with a semicolon behind it is no name:   *)
(* the semicolon stands for both.                                           *)
Unbracketed(words) ==
  LET names == SelectSeq([k \in DOMAIN words |-> IF WordAt(words, k + 1) = ";" THEN "" ELSE words[k]],
                         LAMBDA word : word # "")
  IN SelectSeq(names, LAMBDA word : word \notin {"(", ")", "\\"})

(* The items behind the keyword import.                                     *)
ImportedItems(text) ==
  LET words == Unbracketed(text)
      at == FirstWord(words, {"import"})
  IN IF Head(words) = "import" \/ (at >= 3 /\ at < Len(words))
       THEN ToSet(PartsAt(WordsAfter(words, at), ",")) \ {<<>>} ELSE {}

(* The word behind as, if that is behind a dotted name; "*" binds every     *)
(* name.                                                                    *)
ImportNames(text) ==
  LET Renamed(item) == {k \in 2 .. Len(item) - 1 : /\ item[k] = "as" /\ k % 2 = 0
                                                   /\ \A j \in 1 .. k - 1 : j % 2 = 0 => item[j] = "."}
  IN {IF Renamed(item) = {} THEN Head(item) ELSE item[Min(Renamed(item)) + 1] : item \in ImportedItems(text)}

(* An import goes on in the next line after an open bracket or a backslash. *)
HowOften(words, mark) == Len(SelectSeq(words, LAMBDA word : word = mark))

RECURSIVE ImportEnd(_, _, _)
ImportEnd(i, end, text) ==
  IF i < end /\ (HowOften(text, "(") > HowOften(text, ")") \/ Last(text) = "\\")
    THEN ImportEnd(i + 1, end, text \o WordsOf(i + 1)) ELSE i

TextOf(first, last) == FlattenSeq([k \in 1 .. last - first + 1 |-> WordsOf(first + k - 1)])

LineNames(i, last) ==
  IF IsImport(WordsOf(i)) THEN ImportNames(TextOf(i, last)) \cup StatementNames(TextOf(i, last))
  ELSE StatementNames(WordsOf(i))

(* The header goes to the first line with a closing parenthesis; without    *)
(* one the last parameter is not told from what follows it.                 *)
HeaderOf(d) ==
  LET closing == {j \in d.start .. d.end : Contains(WordsOf(j), ")")}
  IN TextOf(d.start, IF closing = {} THEN d.end ELSE CHOOSE j \in closing : \A k \in closing : j <= k)

ParametersIn(inside, close) ==
  LET parts == PartsAt(IF close = 0 THEN inside ELSE UpTo(inside, close), ",")
      names == {Unstarred(part) : part \in ToSet(IF close = 0 THEN Front(parts) ELSE parts)}
  IN {Head(name) : name \in {n \in names : n # <<>> /\ IsWord(Head(n))}}

Parameters(d) ==
  LET Inside(inside) == ParametersIn(inside, Outside(inside, {")"}))
      Of(header) == IF Contains(header, "(") THEN Inside(WordsAfter(header, FirstWord(header, {"("}))) ELSE {}
  IN Of(HeaderOf(d))

-----------------------------------------------------------------------------
(* Imports of the file, also those that share a line with other statements *)

PyCode == FlattenSeq([i \in 1 .. PyLast |-> Append(WordsOf(i), "lf")])

IsSuite(words) ==
  \/ WordAt(words, 1) \in {"if", "for", "with", "try", "def", "class"}
  \/ WordAt(words, 1) = "async" /\ WordAt(words, 2) \in {"for", "with", "def"}

EndsStatement(code, start, at, depth) ==
  depth = 0 /\ (code[at] = ";" \/ (code[at] = "lf" /\ (at = start \/ code[at - 1] # "\\")))

RECURSIVE SimpleStatements(_, _, _, _)
SimpleStatements(code, start, at, depth) ==
  LET words(end) == SelectSeq(SubSeq(code, start, end - 1), LAMBDA word : word # "lf")
  IN IF at > Len(code) THEN {words(at)}
     ELSE IF EndsStatement(code, start, at, depth) THEN {words(at)} \cup SimpleStatements(code, at + 1, at + 1, 0)
     ELSE IF code[at] = ":" /\ depth = 0 /\ IsSuite(words(at)) THEN SimpleStatements(code, at + 1, at + 1, 0)
     ELSE SimpleStatements(code, start, at + 1, DepthBehind(<<code[at]>>, depth))

(* A name from a module is the module, a dot and the name.                  *)
ImportTargets(words) ==
  LET plain == Unbracketed(words)
      module == SubSeq(plain, 2, FirstWord(plain, {"import"}) - 1)
      Written(item) == LET as == FirstWord(item, {"as"}) IN IF as = 0 THEN item ELSE UpTo(item, as)
      Target(item) ==
        CASE Head(plain) = "import" -> Written(item)
          [] Head(plain) = "from" -> IF item = <<"*">> THEN module ELSE module \o <<".">> \o Written(item)
  IN {Target(item) : item \in ImportedItems(words)}

PyImports == UNION {ImportTargets(words) : words \in {w \in SimpleStatements(PyCode, 1, 1, 0) : IsImport(w)}}

-----------------------------------------------------------------------------
(* Calls                                                                   *)

(* The line a declaration inside d, at line i, ends at.                     *)
NestedEnd(d, i, decls) == {e.end : e \in {n \in decls : n.parent = d.start /\ IsScope(n) /\ i \in n.start .. n.end}}

RECURSIVE BodyNames(_, _, _)
BodyNames(d, i, decls) ==
  LET nested == NestedEnd(d, i, decls)
      last == IF IsImport(WordsOf(i)) THEN ImportEnd(i, d.end, WordsOf(i)) ELSE i
  IN IF i > d.end THEN {}
     ELSE IF nested # {} THEN BodyNames(d, (CHOOSE end \in nested : TRUE) + 1, decls)
     ELSE LineNames(i, last) \cup BodyNames(d, last + 1, decls)

Binds(names, name) == name \in names \/ "*" \in names

TheOnly(found) == IF Cardinality(found) = 1 THEN found ELSE {}

RECURSIVE NearestClass(_, _)
NearestClass(d, decls) ==
  UNION {IF IsPyClass(p) THEN {p} ELSE NearestClass(p, decls) : p \in PyParent(d, decls)}

RECURSIVE FromScope(_, _, _)
FromScope(scope, name, decls) ==
  LET nested == {n \in decls : n.parent = scope.start /\ n.name = name}
      outer == PyParent(scope, decls)
      Further == IF outer = {} THEN TheOnly({n \in decls : n.parent = 0 /\ n.name = name})
                 ELSE FromScope(CHOOSE p \in outer : TRUE, name, decls)
  IN IF IsPyClass(scope) THEN Further
     ELSE IF Binds(Parameters(scope) \cup BodyNames(scope, scope.start + 1, decls), name) THEN {}
     ELSE IF nested # {} THEN TheOnly(nested) ELSE Further

(* A name is the sequence of its words and dots.                            *)
CallTarget(d, name, decls) ==
  IF Len(name) = 1 THEN FromScope(d, Head(name), decls)
  ELSE IF Head(name) \in {"self", "cls"} /\ Len(name) = 3
    THEN TheOnly({n \in decls : n.name = Last(name) /\ \E owner \in NearestClass(d, decls) : n.parent = owner.start})
  ELSE {}

RECURSIVE NameStart(_, _)
NameStart(words, k) ==
  IF k > 2 /\ WordAt(words, k - 1) = "." /\ IsWord(words[k - 2]) THEN NameStart(words, k - 2) ELSE k

(* A name that begins with def is taken for the keyword.                    *)
CallsIn(words) ==
  LET ends == {k \in DOMAIN words : IsWord(words[k]) /\ WordAt(words, k + 1) = "("}
      keywords == {"def", "default", "if", "for", "while", "class", "print"}
  IN {SubSeq(words, NameStart(words, k), k) : k \in ends} \ {<<word>> : word \in keywords}

RECURSIVE CalledFrom(_, _, _)
CalledFrom(d, i, decls) ==
  LET nested == NestedEnd(d, i, decls) IN
  IF i > d.end THEN {}
  ELSE IF nested # {} THEN CalledFrom(d, (CHOOSE end \in nested : TRUE) + 1, decls)
  ELSE CallsIn(WordsOf(i)) \cup CalledFrom(d, i + 1, decls)

CallsBy(d, decls) ==
  {[name |-> name, target |-> CallTarget(d, name, decls) \ {d}] : name \in CalledFrom(d, d.start, decls)}

-----------------------------------------------------------------------------
(* The scopes of Python, told from the lines alone                         *)

InBlock(d, i) == d.start < i /\ \A j \in d.start + 1 .. i : IndentOf(j) > d.indent \/ ~IsStatement(j)
Holding(i, decls) == {d \in decls : IsScope(d) /\ InBlock(d, i)}
Innermost(scopes) == {d \in scopes : \A e \in scopes : d.start >= e.start}
HeadOf(i, decls) == {d \in decls : IsScope(d) /\ d.start = i}
OwnLines(d, decls) ==
  {i \in d.start + 1 .. PyLast : HeadOf(i, decls) = {} /\ Innermost(Holding(i, decls)) = {d}}

NamesIn(d, decls) == Parameters(d) \cup UNION {LineNames(i, ImportEnd(i, PyLast, WordsOf(i))) :
                                                i \in {j \in OwnLines(d, decls) : WordsOf(j) # <<>>}}

DeclaredIn(scopes, name, decls) == {n \in decls : n.name = name /\ Innermost(Holding(n.start, decls)) = scopes}

(* What a name means inside a function: the functions around decide, from  *)
(* the inside out, and then the module, but no class; self and cls are the  *)
(* nearest class around.                                                    *)
Meaning(d, name, decls) ==
  LET around == Holding(d.start, decls)
      functions == {e \in around \cup {d} : ~IsPyClass(e)}
      Hidden(e) == Binds(NamesIn(e, decls), Head(name))
      hiding == {e \in functions : Hidden(e)}
      Deciding(hidden) == Innermost({e \in functions : DeclaredIn({e}, Head(name), decls) # {}} \cup hidden)
      Plain(hidden) == IF Deciding(hidden) \cap hidden # {} THEN {} ELSE DeclaredIn(Deciding(hidden), Head(name), decls)
      owner == Innermost(around \ functions)
      OfOwner == owner # {} /\ Len(name) = 3 /\ Head(name) \in {"self", "cls"}
  IN CASE Len(name) = 1 -> TheOnly(Plain(hiding))
       [] Len(name) > 1 /\ OfOwner -> TheOnly(DeclaredIn(owner, Last(name), decls))
       [] OTHER -> {}

(* A declaration's calls are those of its own lines, and the name in its    *)
(* header, which reads like one.  A call in a function or a method is       *)
(* linked to the declaration its name means there, and to none when a       *)
(* parameter, an import or an assignment of a function around has the name; *)
(* what another scope binds, one that has ended or one inside, hides        *)
(* nothing.                                                                 *)
CallsAreIts(d, calls, decls) ==
  /\ {c.name : c \in calls} = UNION {CallsIn(WordsOf(i)) : i \in OwnLines(d, decls) \cup {d.start}}
  /\ ~IsPyClass(d) => \A c \in calls : c.target = Meaning(d, c.name, decls) \ {d}

PythonCallsInScope(decls) == \A d \in decls : IsScope(d) => CallsAreIts(d, CallsBy(d, decls), decls)

(* Every statement that imports is recorded, wherever in a line it begins,  *)
(* and the names behind it to the end of the statement and no further.      *)
PythonImportsFound ==
  LET code == PyCode
      ends == {k \in DOMAIN code : /\ code[k] = ";" \/ (code[k] = "lf" /\ WordAt(code, k - 1) # "\\")
                                   /\ DepthBehind(UpTo(code, k), 0) = 0}
      Begins(k) == \/ k - 1 \in ends \cup {0}
                   \/ code[k - 1] = ":" /\ \E j \in 1 .. k - 2 : /\ j - 1 \in ends \cup {0} /\ j .. k - 2 \cap ends = {}
                                                                /\ IsSuite(SubSeq(code, j, k - 2))
      EndBehind(k) == CHOOSE e \in ends : e > k /\ \A f \in ends : f > k => e <= f
      Statement(k) == SubSeq(code, k, IF \E e \in ends : e > k THEN EndBehind(k) - 1 ELSE Len(code))
      keywords == {k \in DOMAIN code : IsImport(<<code[k]>>) /\ Begins(k)}
  IN PyImports = UNION {ImportTargets(SelectSeq(Statement(k), LAMBDA word : word # "lf")) : k \in keywords}

(* What is recorded of a source, calls and imports, is what its scopes and  *)
(* statements say.                                                          *)
PythonIsReadByScope == PythonCallsInScope(PyDeclarations) /\ PythonImportsFound
=============================================================================

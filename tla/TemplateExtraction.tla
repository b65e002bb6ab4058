------------------------- MODULE TemplateExtraction -------------------------
(***************************************************************************)
(* build (extract/template): the chunks of a Smarty page and the symbols   *)
(* they belong to, with the declarations that the structural extractor     *)
(* (structured in extract/generic) finds in its scripts.                   *)
(*                                                                         *)
(* A chunk is a range of the page and the node that owns it, 0 for the     *)
(* page itself.                                                            *)
(***************************************************************************)
EXTENDS TemplatePage

CONSTANTS
  PageLines,                        \* of a static chunk
  ScriptLines, ScriptOverlap,       \* of the windows of a script without declarations
  JoinedLines                       \* how many lines a declaration may be spread over

Chunk(kind, first, end, owner) == [kind |-> kind, first |-> first, end |-> end, owner |-> owner]

IsBlank(first, end) == \A p \in first .. end - 1 : page[p] \in Blank

\* The line ends of a range, its first marks of lines, and the last of a line.
LineFirsts(first, end) == {p \in first .. end - 1 : p = first \/ page[p - 1] = "lf"}
LineEnd(p, end) == Min({q \in p + 1 .. end : q = end \/ page[q - 1] = "lf"})

-----------------------------------------------------------------------------
(* structured                                                              *)

\* The places outside of strings and comments.  A string goes on in the next
\* line, and an escaped quote ends it (scanSource).
RECURSIVE CodeIn(_, _, _)
CodeIn(p, end, mode) ==
  LET Pair(a, b) == p + 1 < end /\ AtEach(p, <<a, b>>) IN
  CASE p >= end -> {}
    [] mode = "//" -> CodeIn(p + 1, end, IF page[p] = "lf" THEN "" ELSE mode)
    [] mode = "/*" -> IF Pair("*", "/") THEN CodeIn(p + 2, end, "") ELSE CodeIn(p + 1, end, mode)
    [] mode # "" -> CodeIn(p + 1, end, IF page[p] = mode THEN "" ELSE mode)
    [] Pair("/", "/") \/ Pair("/", "*") -> CodeIn(p + 2, end, "/" \o page[p + 1])
    [] page[p] \in Quotes -> CodeIn(p + 1, end, page[p])
    [] OTHER -> {p} \cup CodeIn(p + 1, end, "")

\* The braces that match, of the last one opened with the first one closed.
RECURSIVE BracesIn(_, _)
BracesIn(places, open) ==
  LET p == places[1]
      rest == Tail(places)
  IN CASE places = <<>> -> {}
       [] page[p] = "{" -> BracesIn(rest, <<p>> \o open)
       [] page[p] = "}" /\ open # <<>> -> {<<open[1], p>>} \cup BracesIn(rest, Tail(open))
       [] OTHER -> BracesIn(rest, open)

InOrder(places) == SelectSeq([p \in DOMAIN page |-> p], LAMBDA p : p \in places)

\* The end of the line that is k lines after the one at p.
RECURSIVE EndOfLines(_, _, _)
EndOfLines(p, k, end) == IF k = 0 \/ LineEnd(p, end) = end THEN LineEnd(p, end) ELSE EndOfLines(LineEnd(p, end), k - 1, end)

Word(mark) == mark \in PageWords
None == [kind |-> "none"]

\* matchJavaScriptDeclaration, of code that is not blank.  A call is taken for a method.
Declared(code) ==
  LET marks == SelectSeq([k \in DOMAIN code |-> page[code[k]]], LAMBDA m : m \notin Blank)
      Has(m) == Contains(marks, m)
      Mark(k) == IF k <= Len(marks) THEN marks[k] ELSE ""
      last == SelectLastInSeq(code, LAMBDA p : page[p] = ")")
      bodies == {k \in DOMAIN code : last # 0 /\ k > last /\ page[code[k]] = "{"}
      body == IF bodies = {} THEN 0 ELSE code[Min(bodies)]
      Routine(kind) == [kind |-> kind, braced |-> Has("{") \/ ~Has(";"), body |-> body]
  IN CASE Mark(1) = "class" /\ Word(Mark(2)) -> [kind |-> "class", braced |-> ~Has(";"), body |-> 0]
       [] Mark(1) = "function" /\ Word(Mark(2)) /\ Mark(3) = "(" -> Routine("function")
       [] Word(Mark(1)) /\ Mark(1) \notin ControlTags /\ Mark(2) = "(" /\ Has(")") -> Routine("method")
       [] OTHER -> None

\* declarationAt: the line at p, joined with as few of the next as make one.
DeclarationAt(p, end, code) ==
  LET First(joined) == IF joined = <<>> THEN None ELSE joined[1]
      Lines(k) == InOrder(code \cap (p .. EndOfLines(p, k, end) - 1))
  IN First(SelectSeq([k \in 1 .. JoinedLines + 1 |-> Declared(Lines(k - 1))], LAMBDA d : d # None))

\* Faulty variant: the pair that closes first is taken.
FirstClosed(pairs, p, end, d) ==
  LET after == {b \in pairs : b[1] >= p}
  IN IF after = {} THEN 0 ELSE Min({b[2] : b \in after})

\* bodyPair: where the first pair from the line at p on closes, 0 when none
\* does; on that line it opens at the body or after it.
BodyClose(pairs, p, end, d) ==
  LET after == {b \in pairs : b[1] >= p /\ (b[1] < LineEnd(p, end) => b[1] >= d.body)}
      open == Min({b[1] : b \in after})
  IN IF after = {} THEN 0 ELSE (CHOOSE b \in after : b[1] = open)[2]

\* The declarations of a script, in whole lines.
DeclarationsIn(first, end, code, pairs) ==
  LET Extent(close) == IF close = 0 THEN end ELSE LineEnd(close, end)
      Found(p, d) == [at |-> p, kind |-> d.kind, body |-> d.body, braced |-> d.braced,
                      end |-> Extent(IF d.braced THEN BodyClose(pairs, p, end, d) ELSE p)]
      Lines == {<<p, DeclarationAt(p, end, code)>> : p \in LineFirsts(first, end)}
  IN {Found(l[1], l[2]) : l \in {x \in Lines : x[2] # None}}

ScriptDeclarations(first, end) ==
  LET code == CodeIn(first, end, "") IN DeclarationsIn(first, end, code, BracesIn(InOrder(code), <<>>))

\* windows, of ScriptLines lines that overlap.
ScriptWindows(first, end) ==
  LET starts == InOrder(LineFirsts(first, end))
      step == ScriptLines - ScriptOverlap
      begins == {k \in DOMAIN starts : (k - 1) % step = 0 /\ (k = 1 \/ k - step + ScriptLines - 1 < Len(starts))}
  IN {<<starts[k], EndOfLines(starts[k], ScriptLines - 1, end)>> : k \in begins}

-----------------------------------------------------------------------------
(* build                                                                   *)

IsNamed(node) == node.name # <<>>

\* ownerForOffset: the shortest named node around p.  Nodes that are not closed
\* may be of one length, and then the order of a map decides.
Owners(nodes, p) ==
  LET around == {k \in DOMAIN nodes : IsNamed(nodes[k]) /\ p \in nodes[k].first .. nodes[k].end - 1}
      Size(k) == nodes[k].end - nodes[k].first
  IN IF around = {} THEN {0} ELSE {k \in around : \A other \in around : Size(k) <= Size(other)}

NodeChunks(nodes) == {Chunk("node", nodes[k].first, nodes[k].end, k) : k \in {n \in DOMAIN nodes : IsNamed(nodes[n])}}

\* trimLeadingBlankLines.
RECURSIVE Trimmed(_, _)
Trimmed(first, end) ==
  IF first < end /\ IsBlank(first, LineEnd(first, end)) THEN Trimmed(LineEnd(first, end), end) ELSE first

\* appendEmbeddedScript.
ScriptRanges(first, end) ==
  LET Of(declared) == IF declared # {} THEN {<<d.at, d.end>> : d \in declared} ELSE ScriptWindows(first, end)
  IN IF first = end THEN {} ELSE Of(ScriptDeclarations(first, end))

Bounded == {"styleBody", "dataBody", "literal", "php"}

EmbeddedRanges(region) ==
  CASE region.kind \in Bounded -> {<<region.first, region.end>>}
    [] region.kind = "scriptBody" -> ScriptRanges(Trimmed(region.first, region.end), region.end)
    [] OTHER -> {}

EmbeddedChunks(regions, nodes) ==
  LET Of(region, ranges) ==
        {Chunk(IF region.kind = "scriptBody" THEN "script" ELSE region.kind, x[1], x[2], owner) :
           x \in {r \in ranges : ~IsBlank(r[1], r[2])}, owner \in Owners(nodes, region.first)}
  IN UNION {Of(regions[k], EmbeddedRanges(regions[k])) : k \in DOMAIN regions}

\* appendStaticChunks: what no node has and no region but text and tags, in
\* windows.
PlainKinds == {"static", "templateTag", "smartyTag", "smartyVar"}

TakenMarks(regions, nodes) ==
  UNION {nodes[k].first .. nodes[k].end - 1 : k \in DOMAIN nodes}
    \cup UNION {IF regions[k].kind \in PlainKinds THEN {} ELSE regions[k].first .. regions[k].end - 1 : k \in DOMAIN regions}

RECURSIVE StaticWindows(_, _)
StaticWindows(first, end) ==
  LET next == EndOfLines(first, PageLines - 1, end)
  IN {<<first, next>>} \cup (IF next = end THEN {} ELSE StaticWindows(next, end))

StaticChunks(regions, nodes) ==
  LET free == DOMAIN page \ TakenMarks(regions, nodes)
      EndOfRun(p) == Min({q \in p + 1 .. PageEnd : q \notin free})
      runs == {<<p, EndOfRun(p)>> : p \in {q \in free : q - 1 \notin free}}
      windows == UNION {StaticWindows(r[1], r[2]) : r \in runs}
  IN {Chunk("static", w[1], w[2], CHOOSE k \in Owners(nodes, w[1]) : TRUE) : w \in {x \in windows : ~IsBlank(x[1], x[2])}}

PageChunks(regions, nodes) ==
  NodeChunks(nodes) \cup EmbeddedChunks(regions, nodes) \cup StaticChunks(regions, nodes)

-----------------------------------------------------------------------------
(* Properties                                                              *)

\* Everything written in a page, however broken, is in a chunk, but for its
\* comments, the tags of scripts and styles, what is in nodes without a static
\* name, and the lines of a script outside of its declarations (build).
Searchable(regions, nodes, chunks) ==
  LET found == UNION {c.first .. c.end - 1 : c \in chunks}
      nameless == UNION {IF IsNamed(nodes[k]) THEN {} ELSE nodes[k].first .. nodes[k].end - 1 : k \in DOMAIN nodes}
      Excepted(r) ==
        \/ r.kind \notin PlainKinds \cup Bounded \cup {"scriptBody"}
        \/ r.kind = "scriptBody" /\ ScriptDeclarations(Trimmed(r.first, r.end), r.end) # {}
  IN \A k \in DOMAIN regions :
       ~Excepted(regions[k]) =>
         \A p \in regions[k].first .. regions[k].end - 1 : page[p] \in Blank \/ p \in found \cup nameless

\* Nodes that are closed never overlap, and in a page that closes all of them
\* a chunk is inside of its owner, and of one owner only (parse, ownerForOffset).
Owned(nodes, chunks) ==
  LET Inside(first, end, n) == n.first <= first /\ end <= n.end
      closed == {k \in DOMAIN nodes : nodes[k].closed}
  IN /\ \A j, k \in closed :
          j < k => nodes[k].first >= nodes[j].end \/ Inside(nodes[k].first, nodes[k].end, nodes[j])
     /\ closed = DOMAIN nodes =>
          /\ \A c \in chunks : c.owner # 0 => Inside(c.first, c.end, nodes[c.owner])
          /\ \A c, d \in chunks : (c.first = d.first /\ c.kind = d.kind) => c.owner = d.owner

\* A page is cut without gaps, what is written in it is found, and what is
\* found belongs to one node around it (scan, parse, build).
NothingIsLost(regions, nodes, chunks) == Searchable(regions, nodes, chunks) /\ Owned(nodes, chunks)

PageIsChunked(regions, nodes) == Tiles(regions) /\ NothingIsLost(regions, nodes, PageChunks(regions, nodes))

\* A function of a script that closes its body is found to the line of its own
\* brace, whatever is in strings and comments (structured).
FunctionsClose(first, end, code) ==
  LET Depth(p, q) == Cardinality({x \in code \cap (p .. q) : page[x] = "{"})
                       - Cardinality({x \in code \cap (p .. q) : page[x] = "}"})
      Closing(p) == {q \in code \cap (p .. end - 1) : Depth(p, q) = 0}
  IN \A d \in ScriptDeclarations(first, end) :
       (d.kind = "function" /\ d.braced /\ d.body # 0 /\ Closing(d.body) # {}) =>
         d.end = LineEnd(Min(Closing(d.body)), end)

ScriptFunctionsClose(regions) ==
  \A r \in {x \in ToSet(regions) : x.kind = "scriptBody"} :
    LET first == Trimmed(r.first, r.end) IN FunctionsClose(first, r.end, CodeIn(first, r.end, ""))

\* A page, however broken, is read to its end and nothing of it is lost: it is
\* known for what it is, and its text and its functions are in whole chunks.
ReadWhole(regions) ==
  PageIsChunked(regions, NodesOf(regions)) /\ DetectionAgrees(regions) /\ ScriptFunctionsClose(regions)

PageIsRead == ReadWhole(Regions)

=============================================================================

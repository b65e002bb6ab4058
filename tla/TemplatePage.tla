---------------------------- MODULE TemplatePage ----------------------------
(***************************************************************************)
(* A Smarty page: the regions it is cut into (scan in extract/template),   *)
(* the tags in them and the nodes they open and close (parse), and whether *)
(* its text makes it a Smarty page at all (containsSmartyMarker of         *)
(* language).                                                              *)
(*                                                                         *)
(* A page is a sequence of words and marks.  Words are never adjacent, "<" *)
(* comes only before a word or "/", and an attribute has no blank around   *)
(* its "=".  "json" stands for a type that makes a script data.            *)
(***************************************************************************)
EXTENDS Integers, Sequences, SequencesExt, FiniteSets, FiniteSetsExt

CONSTANTS
  Markup,       \* what a page is written with: sequences of words and marks
  MaxMarkup     \* bound: how many of them a page has

VARIABLE template     \* [text, pieces]

NoPage == template = [text |-> <<>>, pieces |-> 0]

WriteMarkup(markup) ==
  /\ template.pieces < MaxMarkup
  /\ template' = [text |-> template.text \o markup, pieces |-> template.pieces + 1]

NextPage == \E markup \in Markup : WriteMarkup(markup)

-----------------------------------------------------------------------------
page == template.text

Blank == {" ", "lf"}
Quotes == {"'", "\""}
NamedTags == {"block", "function", "capture"}
ControlTags == {"if"}
SmartyNames == NamedTags \cup ControlTags \cup {"call"}
PageWords == SmartyNames \cup {"n", "m", "class", "literal"}

At(p) == IF p \in DOMAIN page THEN page[p] ELSE ""
AtEach(p, marks) == \A k \in DOMAIN marks : At(p + k - 1) = marks[k]
PageEnd == Len(page) + 1

\* Where marks begin for the first time from p on, 0 when nowhere.
FindMarks(p, marks) ==
  LET at == {q \in p .. Len(page) : AtEach(q, marks)} IN IF at = {} THEN 0 ELSE Min(at)

After(found, marks) == IF found = 0 THEN PageEnd ELSE found + Len(marks)

-----------------------------------------------------------------------------
(* Where something ends, outside of strings and comments                   *)

ScriptClose(p) == AtEach(p, <<"<", "/", "script">>) /\ At(p + 3) \in {"", ">"} \cup Blank

Stops(what, p) ==
  CASE what = "tag" -> At(p) \in {">", "-->", "?>"}
    [] what = "smarty" -> At(p) = "}"
    [] what = "braces" -> AtEach(p, <<"}", "}">>)
    [] what = "script" -> ScriptClose(p)
    [] what = "php" -> At(p) = "?>"

\* findSmartyEnd, findTemplateTagEnd, findTagEnd, findScriptClose; of PHP BlockEnd.
RECURSIVE EndOf(_, _, _)
EndOf(what, p, mode) ==
  LET code == what \in {"script", "php"} IN
  CASE p >= PageEnd -> 0
    [] mode = "//" -> IF what = "php" /\ Stops(what, p) THEN p ELSE EndOf(what, p + 1, IF At(p) = "lf" THEN "" ELSE mode)
    [] mode = "/*" -> IF AtEach(p, <<"*", "/">>) THEN EndOf(what, p + 2, "") ELSE EndOf(what, p + 1, mode)
    [] mode # "" /\ At(p) = "\\" /\ what # "tag" -> EndOf(what, p + 2, mode)
    [] mode # "" -> EndOf(what, p + 1, IF At(p) = mode THEN "" ELSE mode)
    [] code /\ At(p) = "/" /\ At(p + 1) \in {"/", "*"} -> EndOf(what, p + 2, "/" \o At(p + 1))
    [] At(p) \in Quotes -> EndOf(what, p + 1, At(p))
    [] Stops(what, p) -> p
    [] OTHER -> EndOf(what, p + 1, "")

PhpEnd(p) == EndOf("php", p + 1, "")

-----------------------------------------------------------------------------
(* scan                                                                    *)

Region(kind, first, end) == [kind |-> kind, first |-> first, end |-> end]

IsTag(p, name) == AtEach(p, <<"<", name>>) /\ At(p + 2) \in {">", "/"} \cup Blank
IsLiteral(p) == AtEach(p, <<"{", "literal">>) /\ At(p + 2) \in {"}"} \cup Blank
IsSmarty(p) == At(p) = "{" /\ At(p + 1) \in PageWords \cup {"$", "/"}

\* The parts of a script or of a style at p: its tag, which ends at open, its
\* body and its end.
BodyEnd(name, body) ==
  IF name = "script" THEN EndOf("script", body, "") ELSE FindMarks(body, <<"<", "/", "style">>)

Parts(p, name, open, close) ==
  LET closeEnd == IF close = 0 THEN 0 ELSE EndOf("tag", close, "")
      data == name = "script" /\ \E q \in p .. open : page[q] = "json"
      bodyEnd == IF close = 0 THEN PageEnd ELSE close
  IN <<Region(name \o "Open", p, open + 1), Region(IF data THEN "dataBody" ELSE name \o "Body", open + 1, bodyEnd),
       Region(name \o "Close", bodyEnd, IF closeEnd = 0 THEN PageEnd ELSE closeEnd + 1)>>

Element(p, name, open) ==
  IF open = 0 THEN <<Region(name \o "Open", p, PageEnd)>>
  ELSE SelectSeq(Parts(p, name, open, BodyEnd(name, open + 1)), LAMBDA r : r.end > r.first)

\* The regions that begin at p, none when p is static.
RegionsAt(p) ==
  LET One(kind, found, marks) == <<Region(kind, p, After(found, marks))>> IN
  CASE At(p) = "<!--" -> One("comment", FindMarks(p + 1, <<"-->">>), <<"-->">>)
    [] AtEach(p, <<"{", "*">>) -> One("smartyComment", FindMarks(p + 2, <<"*", "}">>), <<"*", "}">>)
    [] IsLiteral(p) ->
         LET close == <<"{", "/", "literal", "}">> IN One("literal", FindMarks(p + 1, close), close)
    [] At(p) = "<?" -> One("php", PhpEnd(p), <<"?>">>)
    [] AtEach(p, <<"{", "{">>) -> One("templateTag", EndOf("braces", p + 2, ""), <<"}", "}">>)
    [] \E name \in {"script", "style"} : IsTag(p, name) -> Element(p, At(p + 1), EndOf("tag", p, ""))
    [] IsSmarty(p) -> One(IF At(p + 1) = "$" THEN "smartyVar" ELSE "smartyTag", EndOf("smarty", p + 1, ""), <<"}">>)
    [] OTHER -> <<>>

\* Faulty variant: the static text before a region is dropped.
RECURSIVE UnflushedFrom(_, _)
UnflushedFrom(p, static) ==
  LET With(found) ==
        IF found = <<>> THEN UnflushedFrom(p + 1, static) ELSE found \o UnflushedFrom(Last(found).end, Last(found).end)
  IN IF p < PageEnd THEN With(RegionsAt(p))
     ELSE IF p > static THEN <<Region("static", static, p)>> ELSE <<>>

RECURSIVE RegionsFrom(_, _)
RegionsFrom(p, static) ==
  LET before == IF p > static THEN <<Region("static", static, p)>> ELSE <<>>
      With(found) == IF found = <<>> THEN RegionsFrom(p + 1, static)
                     ELSE before \o found \o RegionsFrom(Last(found).end, Last(found).end)
  IN IF p < PageEnd THEN With(RegionsAt(p)) ELSE before

Regions == RegionsFrom(1, 1)

-----------------------------------------------------------------------------
(* parse                                                                   *)

\* splitSmartyWords: at blanks outside of quotes.
RECURSIVE WordsFrom(_, _, _, _)
WordsFrom(inner, k, mode, word) ==
  LET done == IF word = <<>> THEN <<>> ELSE <<word>>
      mark == inner[k]
  IN CASE k > Len(inner) -> done
       [] mode # "" /\ mark = "\\" /\ k < Len(inner) -> WordsFrom(inner, k + 2, mode, word \o <<mark, inner[k + 1]>>)
       [] mode # "" -> WordsFrom(inner, k + 1, IF mark = mode THEN "" ELSE mode, Append(word, mark))
       [] mark \in Blank -> done \o WordsFrom(inner, k + 1, "", <<>>)
       [] OTHER -> WordsFrom(inner, k + 1, IF mark \in Quotes THEN mark ELSE "", Append(word, mark))

Unquoted(value) ==
  IF Len(value) >= 2 /\ value[1] \in Quotes /\ Last(value) = value[1] THEN Front(Tail(value)) ELSE value

\* parseSmartyAttributes: what may be the name, the attribute before the first
\* value without a key.
Offered(words) ==
  LET named == SelectSeq(words, LAMBDA w : Len(w) > 2 /\ w[1] = "name" /\ w[2] = "=")
      positional == SelectSeq(words, LAMBDA w : ~Contains(w, "="))
  IN (IF named = <<>> THEN <<>> ELSE <<Unquoted(SubSeq(Last(named), 3, Len(Last(named))))>>)
       \o (IF positional = <<>> THEN <<>> ELSE <<Unquoted(positional[1])>>)

\* nodeName: a static one.
NameIn(words) ==
  LET static == SelectSeq(Offered(words), LAMBDA v : v # <<>> /\ ToSet(v) \cap {"$", "{", "}"} = {})
  IN IF static = <<>> THEN <<>> ELSE static[1]

\* parseTag: none when the region is no tag.
TagsIn(region) ==
  LET marks == SubSeq(page, region.first, region.end - 1)
      solid == {k \in DOMAIN marks : marks[k] \notin Blank}
      inner == SubSeq(marks, 2, Max(solid) - 1)
      closing == inner # <<>> /\ inner[1] = "/"
      words == WordsFrom(IF closing THEN Tail(inner) ELSE inner, 1, "", <<>>)
  IN IF region.kind # "smartyTag" \/ Max(solid) < 2 \/ marks[Max(solid)] # "}" \/ words = <<>> THEN <<>>
     ELSE <<[name |-> words[1], closing |-> closing, value |-> NameIn(Tail(words)),
             first |-> region.first, end |-> region.end]>>

Opened(state, tag) ==
  LET isNamed == tag.name \in {<<t>> : t \in NamedTags}
      parents == SelectSeq(state.stack, LAMBDA e : e.node # 0)
      node == [tag |-> tag.name, name |-> tag.value, first |-> tag.first, end |-> PageEnd, closed |-> FALSE,
               parent |-> IF parents = <<>> THEN 0 ELSE Last(parents).node]
  IN [nodes |-> IF isNamed THEN Append(state.nodes, node) ELSE state.nodes,
      stack |-> IF isNamed \/ tag.name \in {<<t>> : t \in ControlTags}
                THEN Append(state.stack, [name |-> tag.name, node |-> IF isNamed THEN Len(state.nodes) + 1 ELSE 0])
                ELSE state.stack]

\* What was opened after the match stays open to the end of the page.
Closed(state, tag) ==
  LET match == SelectLastInSeq(state.stack, LAMBDA e : e.name = tag.name)
      node == IF match = 0 THEN 0 ELSE state.stack[match].node
  IN [nodes |-> IF node = 0 THEN state.nodes ELSE [state.nodes EXCEPT ![node].end = tag.end, ![node].closed = TRUE],
      stack |-> IF match = 0 THEN state.stack ELSE SubSeq(state.stack, 1, match - 1)]

TagsOf(regions) == FlattenSeq([k \in DOMAIN regions |-> TagsIn(regions[k])])

NodesOf(regions) ==
  FoldLeft(LAMBDA state, tag : IF tag.closing THEN Closed(state, tag) ELSE Opened(state, tag),
           [nodes |-> <<>>, stack |-> <<>>], TagsOf(regions)).nodes

-----------------------------------------------------------------------------
(* containsSmartyMarker                                                    *)

\* Faulty variant: the text of scripts counts.
MarkerInScripts(p) == \E q \in p .. Len(page) : IsSmarty(q) \/ AtEach(q, <<"{", "*">>)

RECURSIVE MarkerFrom(_)
MarkerFrom(p) ==
  LET Skip(close, found) == found # 0 /\ MarkerFrom(found + Len(close))
      end == <<"<", "/", At(p + 1)>>
  IN CASE p + 1 >= PageEnd -> FALSE
       [] At(p) = "<!--" -> Skip(<<"-->">>, FindMarks(p + 1, <<"-->">>))
       [] At(p) = "<" /\ At(p + 1) \in {"script", "style"} -> Skip(end, FindMarks(p + 2, end))
       [] At(p) # "{" -> MarkerFrom(p + 1)
       [] At(p + 1) = "{" -> Skip(<<"}", "}">>, EndOf("braces", p + 2, ""))
       [] OTHER -> \/ At(p + 1) \in {"*", "$"}
                   \/ (At(p + 1) = "/" /\ At(p + 2) \in SmartyNames)
                   \/ (At(p + 1) \in SmartyNames /\ At(p + 2) \in {"", "}"} \cup Blank)
                   \/ MarkerFrom(p + 1)

-----------------------------------------------------------------------------
(* Properties                                                              *)

\* The regions of a page, however broken, follow each other from its first mark
\* to its last, and nothing is in none of them or in two (scan).
Tiles(r) ==
  page # <<>> =>
    /\ r[1].first = 1 /\ Last(r).end = PageEnd
    /\ \A k \in DOMAIN r : r[k].end > r[k].first /\ (k > 1 => r[k].first = r[k - 1].end)

\* The detector and the scanner go through a page in step: it is a Smarty page
\* exactly when the scanner finds Smarty in it.  Not meant: quotes, PHP and
\* comments of scripts, which only the scanner skips, and tags that the
\* detector does not know.
DetectionAgrees(r) ==
  LET KnownTag(x) == At(x.first + IF At(x.first + 1) = "/" THEN 2 ELSE 1) \in SmartyNames
      smarty == {k \in DOMAIN r : r[k].kind \in {"smartyComment", "smartyVar"} \/ (r[k].kind = "smartyTag" /\ KnownTag(r[k]))}
      unlike == \/ ToSet(page) \cap (Quotes \cup {"<?", "\\"}) # {}
                \/ \E k \in DOMAIN r : r[k].kind = "literal" \/ (r[k].kind = "smartyTag" /\ ~KnownTag(r[k]))
                \/ \E p \in DOMAIN page : At(p) = "/" /\ At(p + 1) \in {"/", "*"}
  IN ~unlike => (MarkerFrom(1) <=> smarty # {})

=============================================================================

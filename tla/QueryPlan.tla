------------------------------ MODULE QueryPlan ------------------------------
(***************************************************************************)
(* What a query is understood to ask: Normalize takes its terms out of the *)
(* text, PlanQuery the intents, the anchors and the relations to follow,   *)
(* BuildFTS the expression for the full-text index, ProfileFor the weights *)
(* of the relations.                                                       *)
(*                                                                         *)
(* Spellings are abstract.  Lexicon gives each what the code reads off its *)
(* characters: its lower case (`lower`), whether it looks like a path, an  *)
(* identifier, a symbol, a qualified name or code, whether it is a word of *)
(* an intent or a particle (`common`), its segments between delimiters and *)
(* the words of a segment (`words`, in lower case).  A query is a sequence *)
(* of units with a space between any two: a token, a run of letters beyond *)
(* ASCII that particles divide, or a quoted phrase.  `says` is the text of *)
(* a unit in lower case, word by word, with the marks between the words;   *)
(* `means` is which intents the Japanese of a run asks for.                *)
(***************************************************************************)
EXTENDS Integers, Sequences, FiniteSets, FiniteSetsExt, SequencesExt

CONSTANTS
  Lexicon,          \* spelling -> what its characters say
  Units,            \* [kind, text, tokens, says, means]; kind "token", "run" or "phrase"
  PlanAnchorLimit,  \* maxAnchors
  FTSLimit,         \* maxFTSTerms
  MaxUnits          \* bound: the length of a query

VARIABLE query

NoQuery == query = <<>>

-----------------------------------------------------------------------------
(* Normalize                                                               *)

Lower(s) == Lexicon[s].lower

\* The add functions: a spelling is taken once, whatever its case.
Once(list, s) == IF \E k \in DOMAIN list : Lower(list[k]) = Lower(s) THEN list ELSE Append(list, s)

NoTerms == [words |-> <<>>, identifiers |-> <<>>, phrases |-> <<>>, paths |-> <<>>,
           symbols |-> <<>>, runs |-> <<>>]

AddWord(terms, s) == [terms EXCEPT !.words = Once(@, Lower(s))]

SegmentOf(terms, s) ==
  LET named == IF Lexicon[s].identifier THEN [terms EXCEPT !.identifiers = Once(@, s)] ELSE terms
  IN FoldLeft(AddWord, AddWord(named, s), Lexicon[s].words)

\* consumeToken.
Consume(terms, s) ==
  LET form == Lexicon[s]
      told == [terms EXCEPT !.paths = IF form.path THEN Once(@, s) ELSE @,
                            !.identifiers = IF form.identifier THEN Once(@, s) ELSE @,
                            !.symbols = IF form.symbol /\ ~form.path THEN Once(@, s) ELSE @]
  IN IF form.identifier THEN FoldLeft(SegmentOf, AddWord(told, s), form.segments) ELSE AddWord(told, s)

AddRun(terms, s) ==
  IF s \in Range(terms.runs) THEN terms ELSE AddWord([terms EXCEPT !.runs = Append(@, s)], s)

TermsOf(terms, unit) ==
  CASE unit.kind = "phrase" -> FoldLeft(Consume, [terms EXCEPT !.phrases = Once(@, unit.text)],
      unit.tokens)
    [] unit.kind = "run" -> FoldLeft(AddRun, terms, unit.tokens)
    [] OTHER -> Consume(terms, unit.text)

Normalize == FoldLeft(TermsOf, NoTerms, query)

-----------------------------------------------------------------------------
(* PlanQuery                                                               *)

IntentOrder == <<"impact", "tests", "callers", "callees", "imports", "exports", "references",
               "definition">>

Words(set) == {<<w>> : w \in set}

\* plannerIntents: the words and phrases of an intent.
IntentTerms(intent) ==
  CASE intent = "impact" -> Words({"impact", "affected"}) \cup {<<"blast", " ", "radius">>,
      <<"what", " ", "breaks">>}
    [] intent = "tests" -> Words({"test", "tests", "testing", "coverage", "spec"})
    [] intent = "callers" ->
         Words({"caller", "callers", "usages"}) \cup {<<"used", " ", "by">>, <<"called", " ", "by">>}
    [] intent = "callees" ->
         Words({"callee", "callees"})
           \cup {<<"calls", " ", "from">>, <<"what", " ", "does">>, <<"dependencies", " ", "called">>}
    [] intent = "imports" ->
         Words({"import", "imports", "include", "includes", "require", "extends", "layout",
             "partial", "template"})
    [] intent = "exports" -> Words({"export", "exports"}) \cup {<<"re", "-", "export">>}
    [] intent = "references" ->
         Words({"reference", "references", "implement", "implements", "interface", "inherits"})
           \cup {<<"type", " ", "usage">>}
    [] intent = "definition" ->
         Words({"define", "defined", "definition", "implementation",
             "declaration"}) \cup {<<"where", " ", "is">>}

\* The query in lower case.
RawText ==
  FoldLeft(LAMBDA text, unit : (IF text = <<>> THEN <<>> ELSE text \o <<" ">>) \o unit.says, <<>>,
      query)

\* containsEnglishTerm: a term is not part of longer words, and may span units.
ContainsTerm(text, term) ==
  \E i \in 1 .. Len(text) - Len(term) + 1 : SubSeq(text, i, i + Len(term) - 1) = term

\* explicitIntentMatches.
Explicit(intent) ==
  \/ \E term \in IntentTerms(intent) : ContainsTerm(RawText, term)
  \/ \E k \in DOMAIN query : intent \in query[k].means

\* intentMatches: the bare words call and calls ask for callers, unless
\* callees are asked for.
Matches(intent) ==
  \/ Explicit(intent)
  \/ /\ intent = "callers" /\ ~Explicit("callees")
     /\ ContainsTerm(RawText, <<"call">>) \/ ContainsTerm(RawText, <<"calls">>)

PlanIntents ==
  LET found == SelectSeq(IntentOrder, Matches)
  IN IF found = <<>> THEN <<"definition">> ELSE found

RelationsFor(intent) ==
  CASE intent = "impact" -> <<"callers", "tests", "references">>
    [] intent = "definition" -> <<>>
    [] OTHER -> <<intent>>

PlanRelations ==
  FoldLeft(LAMBDA list, i : list \o SelectSeq(RelationsFor(i), LAMBDA r : r \notin Range(list)),
      <<>>, PlanIntents)

Concatenated(lists) == FoldLeft(LAMBDA a, b : a \o b, <<>>, lists)

\* The strongest first; a word that only asks is no anchor.
AnchorLists(terms) ==
  <<SelectSeq(terms.identifiers, LAMBDA s : Lexicon[s].qualified), terms.symbols, terms.identifiers,
    terms.paths, SelectSeq(terms.phrases, LAMBDA s : Lexicon[s].code),
    SelectSeq(terms.words, LAMBDA s : ~Lexicon[s].common /\ Lexicon[s].code)>>

FirstOnes(list, limit) ==
  LET once == FoldLeft(Once, <<>>, list) IN SubSeq(once, 1, Min({Len(once), limit}))

\* Faulty variant: in the order the terms are found.
AnchorsAsFound ==
  LET terms == Normalize
  IN FirstOnes(terms.identifiers \o terms.symbols \o terms.paths, PlanAnchorLimit)

PlanAnchors == FirstOnes(Concatenated(AnchorLists(Normalize)), PlanAnchorLimit)

FTSTerms ==
  LET terms == Normalize
  IN FirstOnes(Concatenated(<<terms.phrases, terms.identifiers, terms.symbols, terms.words,
      terms.runs>>), FTSLimit)

\* relationWeightsByIntent: the relations that weigh most.
ProfileRelations(intent) ==
  CASE intent = "definition" -> {"tests", "imports", "exports", "references"}
    [] intent = "impact" -> {"callers", "tests", "references"}
    [] OTHER -> {intent}

-----------------------------------------------------------------------------
NextQuery ==
  /\ Len(query) < MaxUnits
  /\ \E u \in Units : query' = Append(query, u)

-----------------------------------------------------------------------------
(* Properties                                                              *)

\* Each token of a query, alone or in a phrase.
Tokens == UNION {IF u.kind = "token" THEN {u.text} ELSE Range(u.tokens) : u \in Range(query)}

\* How strong an anchor a token is: 1 is a qualified name.
Strength(s) ==
  LET form == Lexicon[s] IN
  CASE form.identifier /\ form.qualified -> 1
    [] form.symbol /\ ~form.path -> 2
    [] form.identifier -> 3
    [] form.path -> 4
    [] OTHER -> 5

\* A name the query gives is an anchor and a term of the full-text search,
\* unless the anchors or the terms have reached their limit; then nothing
\* weaker took its place (planner.go 128, fts.go 7).
NamesAreKept ==
  LET anchors == PlanAnchors
      terms == FTSTerms
      Has(list, s) == \E k \in DOMAIN list : Lower(list[k]) = Lower(s)
  IN \A s \in Tokens : Strength(s) < 5 =>
       /\ Has(anchors, s) \/ /\ Len(anchors) = PlanAnchorLimit
                             /\ \A k \in DOMAIN anchors : Strength(anchors[k]) <= Strength(s)
       /\ Has(terms, s) \/ Len(terms) = FTSLimit

\* What is retrieved first is among the relations the ranking weighs most,
\* although the two are told by different tables (planner.go 25, profile.go 37).
FirstWeighsMost ==
  PlanRelations # <<>> => PlanRelations[1] \in ProfileRelations(PlanIntents[1])

\* A plan keeps the names of its query, and retrieves what will be ranked.
PlanKeepsItsNames == NamesAreKept /\ FirstWeighsMost

=============================================================================

------------------------------ MODULE Expansion ------------------------------
(***************************************************************************)
(* What is shown around a symbol: the store reads the relations of the     *)
(* index from both ends, those that found no single target by the names    *)
(* and paths they spell (store.RelatedCandidateHits), and an expansion     *)
(* puts the symbols it was asked about before what it found.               *)
(*                                                                         *)
(* A symbol stands for its chunk; that the outline of a template stands    *)
(* for its other chunks, and the order of the answer, are left out.        *)
(***************************************************************************)
EXTENDS Linking

CONSTANT Humps   \* [names, and words that hold the parts of names -> their parts at capitals, in lower case]

-----------------------------------------------------------------------------
(* The relations of an index after a link pass; `to` holds the target or   *)
(* nothing.  What was linked no longer has its spelling.                   *)

LinkedRelations(symbols) ==
  {[from |-> s, kind |-> r.kind, source |-> r.source, target |-> r.target, to |-> Linked(s, r, symbols)] :
     <<s, r>> \in Relating(symbols)}

Containment(symbols) ==
  {[from |-> p, kind |-> "contains", source |-> "", target |-> <<>>, to |-> {s}] :
     <<p, s>> \in {pair \in symbols \X symbols : pair[2].parent = pair[1].id}}

Relations(symbols) == LinkedRelations(symbols) \cup Containment(symbols)

-----------------------------------------------------------------------------
(* What an unresolved relation may mean                                    *)

(* The name, the qualified name, or the name after a separator.             *)
SpellsCall(t, s) ==
  \/ NameEqual(s, s.name, t) \/ NameEqual(s, s.qual, t)
  \/ \E i \in DOMAIN t : t[i] \in {".", "::", "->"} /\ NameEqual(s, s.name, Behind(t, i))

(* The humps of the name in their order, whatever is between them.          *)
SpellsHumps(t, s) ==
  LET Parts(word) == IF word \in DOMAIN Humps THEN Humps[word] ELSE <<word>>
      name == IF Len(s.name) = 1 THEN Parts(s.name[1]) ELSE <<>>
      held == FlattenSeq([i \in DOMAIN t |-> Parts(t[i])])
  IN /\ Len(name) >= 2
     /\ \E f \in [DOMAIN name -> DOMAIN held] :
          \A i \in DOMAIN name : name[i] = held[f[i]] /\ \A j \in 1..(i - 1) : f[j] < f[i]

Surrounded(t, mark, name) ==
  LET within == <<mark>> \o name \o <<mark>>
  IN \E i \in DOMAIN t : IsPrefix(within, Behind(t, i - 1))

SpellsImport(t, s) ==
  LET target == Folded(t)
      name == Folded(s.name)
      path == Folded(s.file)
  IN \/ target \in {name, Folded(s.qual), path}
     \/ IsSuffix(<<"/">> \o target, path) \/ IsSuffix(<<".">> \o name, target)
     \/ Surrounded(target, "::", name) \/ Surrounded(target, ".", name)

Means(r, s) ==
  IF IsCall(r.kind) THEN Compatible(r.from.language, s.language, r.kind) /\ SpellsCall(r.target, s)
  ELSE r.kind # "contains" /\ SpellsImport(r.target, s)

(* A test that names a symbol by its humps is found from the symbol only.   *)
MeansIncoming(r, s) ==
  \/ Means(r, s)
  \/ r.kind = "tests" /\ Compatible(r.from.language, s.language, r.kind) /\ SpellsHumps(r.target, s)

-----------------------------------------------------------------------------
(* Reading relations from an anchor                                        *)

Hit(s, r, direction) == [symbol |-> s, source |-> r.source, resolved |-> r.to # {}, direction |-> direction]

IncomingMatches(a, rows) ==
  {Hit(r.from, r, "incoming") : r \in {q \in rows : a \in q.to \/ (q.to = {} /\ MeansIncoming(q, a))}}

OutgoingMatches(a, rows, symbols) ==
  UNION {{Hit(s, r, "outgoing") : s \in IF r.to # {} THEN r.to ELSE {t \in symbols : Means(r, t)}} :
           r \in {q \in rows : q.from = a}}

(* A mutant: the anchor is taken for the caller, whichever end it is.       *)
CppKeptFromAnchor(a, hits, rows, symbols) ==
  LET Means2(h) == \E e \in rows : /\ e.from = a /\ e.to = {} /\ IsCall(e.kind) /\ e.source = h.source
                                   /\ h.symbol \in CppResolve(a, e.target, symbols)
  IN {h \in hits : h.resolved \/ h.symbol.language # "cpp" \/ a.language # "cpp" \/ Means2(h)}

(* cppRelationFilter: names are not enough in C++, a call that stayed       *)
(* unresolved has to reach the other end by its scopes.                     *)
CppKept(a, hits, rows, symbols) ==
  LET Reaches(from, to, source) ==
        \E e \in rows : /\ e.from = from /\ e.to = {} /\ IsCall(e.kind) /\ e.source = source
                        /\ to \in CppResolve(from, e.target, symbols)
      Kept(h, from, to) == from.language # "cpp" \/ Reaches(from, to, h.source)
  IN {h \in hits : \/ h.resolved \/ h.symbol.language # "cpp"
                   \/ h.direction = "incoming" /\ Kept(h, h.symbol, a)
                   \/ h.direction = "outgoing" /\ Kept(h, a, h.symbol)}

SupportedRelations ==
  {"self", "parent", "children", "callers", "callees", "imports", "exports", "references", "tests", "neighbors"}

RowsOf(relation, rows) ==
  CASE relation \in {"parent", "children"} -> {r \in rows : r.kind = "contains"}
    [] relation \in {"callers", "callees"} -> {r \in rows : r.kind = "calls"}
    [] relation = "neighbors" -> {r \in rows : r.to # {}}
    [] OTHER -> {r \in rows : r.kind = relation}

RelatedHits(a, relation, rows, symbols) ==
  LET read == RowsOf(relation, rows)
      in == IF relation \in {"callees", "children"} THEN {} ELSE IncomingMatches(a, read)
      out == IF relation \in {"callers", "parent"} THEN {} ELSE OutgoingMatches(a, read, symbols)
      checked == relation \in {"callers", "callees", "tests", "neighbors"}
  IN CASE relation = "self" -> {[symbol |-> a, source |-> "self", resolved |-> TRUE, direction |-> "related"]}
       [] relation \notin SupportedRelations -> {}
       [] OTHER -> IF checked THEN CppKept(a, in \cup out, rows, symbols) ELSE in \cup out

RelatedSymbols(a, relation, rows, symbols) == {h.symbol : h \in RelatedHits(a, relation, rows, symbols)}

(* relatedCandidatesLegacy for "neighbors", which a search still uses.      *)
LegacyNeighbors(a, rows) ==
  LET touching == {r \in rows : r.from = a \/ a \in r.to}
  IN {r.from : r \in touching} \cup UNION {r.to : r \in touching}

-----------------------------------------------------------------------------
(* Expanding an answer                                                     *)

(* The relation that is read when none is named: by an expansion of         *)
(* evidence, and by one of a bundle.                                        *)
EvidenceRelation(relation) == IF relation = "" THEN "self" ELSE relation
StoreRelation(relation) == IF relation = "" THEN "neighbors" ELSE relation

(* The symbols that were asked about come first and are in no relation; of  *)
(* the others the first hit counts.                                         *)
ExpandCandidates(anchors, relation, withAnchors, rows, symbols) ==
  LET self == IF withAnchors THEN anchors ELSE {}
      related == UNION {RelatedSymbols(a, StoreRelation(relation), rows, symbols) : a \in anchors}
  IN {[symbol |-> s, relation |-> ""] : s \in self}
       \cup {[symbol |-> s, relation |-> StoreRelation(relation)] : s \in related \ self}

ExpandEvidence(anchors, relation, rows, symbols) ==
  ExpandCandidates(anchors, EvidenceRelation(relation), TRUE, rows, symbols)

ExpandBundle(anchors, relation, rows, symbols) == ExpandCandidates(anchors, relation, FALSE, rows, symbols)

-----------------------------------------------------------------------------
Opposite(relation) ==
  CASE relation = "callers" -> "callees" [] relation = "callees" -> "callers"
    [] relation = "parent" -> "children" [] relation = "children" -> "parent" [] OTHER -> relation

(* Seen from one end only: a test that names its symbol by the humps, and a *)
(* C function that a C++ function seems to call by its name alone, whose    *)
(* callers are checked by their scopes.                                     *)
OneWay(a, b, relation, rows) ==
  \/ relation = "tests" /\ \E r \in rows : r.kind = "tests" /\ r.from = b /\ MeansIncoming(r, a) /\ ~Means(r, a)
  \/ {a.language, b.language} = {"c", "cpp"}

(* A relation is seen from both its ends or from none.                      *)
SeenFromBothEnds(rows) ==
  LET Shown(a, relation) == {e.symbol : e \in ExpandBundle({a}, relation, rows, program)}
      Agree(shown) == \A relation \in DOMAIN shown : \A a \in program : \A b \in shown[relation][a] :
                        a \in shown[Opposite(relation)][b] \/ OneWay(a, b, relation, rows)
  IN Agree([relation \in (SupportedRelations \ {"self"}) \cup {""} |-> [a \in program |-> Shown(a, relation)]])

(* A call that could not be linked because several symbols answer to it     *)
(* leads to each of them.  An absolute name of PHP has no such reading.     *)
AmbiguityIsShown(rows) ==
  \A r \in rows :
    r.to = {} /\ IsCall(r.kind) /\ ~(r.from.language = "php" /\ Head(r.target) = "\\") =>
      LET reference == [from |-> r.from.id, kind |-> r.kind, source |-> r.source, target |-> r.target]
          relation == IF r.kind = "calls" THEN "callees" ELSE "tests"
      IN Found(r.from, reference, program, program \ {r.from})
           \subseteq {e.symbol : e \in ExpandEvidence({r.from}, relation, rows, program)}

(* The two readings of the neighbors differ by the anchor alone.            *)
NeighborsAgree(rows) ==
  \A a \in program :
    LegacyNeighbors(a, rows) \cup {a} = RelatedSymbols(a, "neighbors", rows, program) \cup {a}

(* An expansion loses no end of a relation, whether it was linked or not:   *)
(* what one end shows, the other shows too, and what was ambiguous is       *)
(* offered rather than dropped.                                             *)
WholeWith(rows) == SeenFromBothEnds(rows) /\ AmbiguityIsShown(rows) /\ NeighborsAgree(rows)

ExpansionIsWhole == WholeWith(Relations(program))
=============================================================================

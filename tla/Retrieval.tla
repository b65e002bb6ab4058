------------------------------ MODULE Retrieval -----------------------------
(***************************************************************************)
(* A search: the reads of the store that each retriever makes of the index *)
(* under one lease, the relations of what they found, and what fusion,     *)
(* ranking and deduplication make of the lists (package search, package    *)
(* rank, store.SearchExactSymbols to RelatedCandidateHits).                *)
(*                                                                         *)
(* A chunk says which retrievers its text and names answer (`by`); an      *)
(* unresolved relation says which symbols its text may mean (`means`).     *)
(* How well a name, a path or a text answers (bm25) is not told apart from *)
(* confidence.  Handles, paths and symbols are numbers, so that they have  *)
(* an order.  Scores are in thousandths, rounded down.                     *)
(***************************************************************************)
EXTENDS Integers, Sequences, FiniteSets, FiniteSetsExt, SequencesExt, Ordering

CONSTANTS
  Chunks, Links,  \* what an index may hold
  Requests,       \* the searches: plan, scope
  ListLimit,      \* of each retriever (50, of full text 100)
  MaxAnchors,     \* of retrievalAnchors (8)
  FusedLimit      \* of fuseRankedLists (400)

VARIABLES
  chunks, links,  \* the index
  search          \* the request that is answered; NoSearch at first

view == <<chunks, links, search>>

NoSearch == [plan |-> <<>>]
Unrelated == [kind |-> "none"]

-----------------------------------------------------------------------------
(* The store                                                               *)

Overlaps(c, ranges) == \E r \in ranges : r.path = c.path /\ c.first <= r.last /\ c.last >= r.first

\* candidate_scope: the chunks that a scoped read sees.
InScope(c, request) ==
  /\ request.paths # {} => c.path \in request.paths
  /\ request.changedOnly => Overlaps(c, request.changed)

Span(c) == c.last - c.first

\* Keys are compared by their first difference.
Earlier(left, right) ==
  LET differ == {k \in DOMAIN left : left[k] # right[k]}
  IN differ # {} /\ left[Min(differ)] < right[Min(differ)]

\* ORDER BY of the symbol searches: outlines last in the first two, then
\* confidence, span, path, line, handle.
SymbolOrder(a, b, outlinesLast) ==
  LET Key(c) == <<IF outlinesLast /\ c.outline THEN 1 ELSE 0, -c.confidence, Span(c), c.path, c.first, c.handle>>
  IN Earlier(Key(a), Key(b))

\* Faulty variant: the scope is applied to what a limited read returns.
FilterAfterLimit(retriever, request, scoped) ==
  LET found == {c \in chunks : retriever \in c.by}
      all == SetToSortSeq(found, LAMBDA a, b : SymbolOrder(a, b, retriever \in {"qualified-symbol", "symbol-exact"}))
  IN SelectSeq(FirstOf(all, ListLimit), LAMBDA c : scoped => InScope(c, request))

\* SearchQualifiedSymbols to SearchPaths.
ReadList(retriever, request, scoped) ==
  LET found == {c \in chunks : retriever \in c.by /\ (scoped => InScope(c, request))}
      all == SetToSortSeq(found, LAMBDA a, b : SymbolOrder(a, b, retriever \in {"qualified-symbol", "symbol-exact"}))
  IN FirstOf(all, ListLimit)

RelationContext(link, anchor, relation, direction, resolved) ==
  [kind |-> relation, anchor |-> anchor, direction |-> direction, resolved |-> resolved,
   confidence |-> link.confidence]

\* relatedHitQuery for one anchor: chunks of the symbols that its links of a
\* kind lead to or come from; an unresolved link leads to all it may mean.
KindOf(relation) == CASE relation \in {"callers", "callees"} -> "calls" [] OTHER -> relation

Related(anchor, relation, request, scoped) ==
  LET kind == {l \in links : l.kind = KindOf(relation)}
      In == {[symbol |-> l.from, context |-> RelationContext(l, anchor.handle, relation, "incoming", l.to = anchor.symbol)] :
               l \in {k \in kind : k.to = anchor.symbol \/ (k.to = 0 /\ anchor.symbol \in k.means)}}
      Out == UNION {{[symbol |-> s, context |-> RelationContext(l, anchor.handle, relation, "outgoing", l.to # 0)] :
                       s \in IF l.to # 0 THEN {l.to} ELSE l.means} : l \in {k \in kind : k.from = anchor.symbol}}
      matches == (IF relation # "callees" THEN In ELSE {}) \cup (IF relation # "callers" THEN Out ELSE {})
      found == {c \in chunks : scoped => InScope(c, request)}
  IN UNION {{[c |-> c, context |-> m.context] : c \in {d \in found : d.symbol = m.symbol}} : m \in matches}

\* RelatedCandidates: for each anchor the chunks of its hits, in order; a chunk
\* that is related to two of them comes twice.
RelatedChunks(anchors, relation, request, scoped) ==
  LET ByPlace(c, d) == Earlier(<<c.path, c.first, c.handle>>, <<d.path, d.first, d.handle>>)
      Of(a) == SetToSortSeq({h.c : h \in Related(a, relation, request, scoped)}, ByPlace)
  IN FlattenSeq([k \in DOMAIN anchors |-> Of(anchors[k])])

-----------------------------------------------------------------------------
(* Lists                                                                   *)

\* strongerRelationContext, without its last tie, the text of the relation.
StrongerContext(left, right) ==
  LET kinds == <<"callees", "callers", "exports", "imports", "references", "tests">>
      Key(x) == <<IF x.resolved THEN 0 ELSE 1, -x.confidence, IF x.direction = "incoming" THEN 0 ELSE 1,
                  CHOOSE k \in DOMAIN kinds : kinds[k] = x.kind, x.anchor>>
  IN left # Unrelated /\ (right = Unrelated \/ Earlier(Key(left), Key(right)))

Strongest(contexts) == CHOOSE x \in contexts : \A y \in contexts : ~StrongerContext(y, x)

Entry(c, context) == [c |-> c, context |-> context]

\* mergeRelationCandidates: the chunks in the order of the older read, each
\* with the strongest of its hits.
RelationList(anchors, relation, request, scoped) ==
  LET hits == UNION {Related(a, relation, request, scoped) : a \in ToSet(anchors)}
      items == RelatedChunks(anchors, relation, request, scoped)
  IN [k \in DOMAIN items |->
        Entry(items[k], Strongest({h.context : h \in {g \in hits : g.c = items[k]}}))]

TextRetrievers == <<"qualified-symbol", "symbol-exact", "symbol-prefix", "fts", "path">>

TextLists(request, scoped) ==
  [k \in DOMAIN TextRetrievers |->
     LET list == ReadList(TextRetrievers[k], request, scoped)
     IN [retriever |-> TextRetrievers[k], items |-> [i \in DOMAIN list |-> Entry(list[i], Unrelated)]]]

AnchorOrder == <<"qualified-symbol", "symbol-exact", "path", "symbol-prefix", "fts">>

\* retrievalAnchors: what answers to a name of the query, if it has names.
Anchors(request, lists) ==
  LET Of(retriever) == lists[CHOOSE k \in DOMAIN lists : lists[k].retriever = retriever].items
      all == FlattenSeq([k \in DOMAIN AnchorOrder |-> Of(AnchorOrder[k])])
      Add(out, e) == IF \/ request.named /\ ~e.c.named
                        \/ e.c \in ToSet(out)
                        \/ Len(out) = MaxAnchors
                     THEN out ELSE Append(out, e.c)
  IN FoldLeft(Add, <<>>, all)

IsScoped(request) == request.paths # {} \/ request.changedOnly

\* Retrieve.  The anchors of a scoped search come from the whole index.
Retrieve(request) ==
  LET scoped == IsScoped(request)
      Relations(anchors) ==
        [k \in DOMAIN request.plan |-> [retriever |-> "relation",
                                        items |-> RelationList(anchors, request.plan[k], request, scoped)]]
      With(lists, anchors) == IF anchors = <<>> THEN lists ELSE lists \o Relations(anchors)
  IN With(TextLists(request, scoped), Anchors(request, TextLists(request, FALSE)))

-----------------------------------------------------------------------------
(* Fusion and ranking                                                      *)

Weight(retriever) ==
  CASE retriever = "qualified-symbol" -> 200 [] retriever = "symbol-exact" -> 180
    [] retriever = "relation" -> 160 [] retriever = "symbol-prefix" -> 120
    [] retriever = "fts" -> 100 [] retriever = "path" -> 90

RetrieverOrder == <<"fts", "path", "qualified-symbol", "relation", "symbol-exact", "symbol-prefix">>

MergedContext(old, new) ==
  IF new # Unrelated /\ (old = Unrelated \/ StrongerContext(new, old)) THEN new ELSE old

\* fuseRankedLists, up to the cut: each chunk once, with the sum of what its
\* places in the lists are worth.  What it is otherwise is what the first of
\* the lists says; full text and relations say nothing of its confidence.
Fused(lists) ==
  LET ordered == FlattenSeq([k \in DOMAIN RetrieverOrder |-> SelectSeq(lists, LAMBDA l : l.retriever = RetrieverOrder[k])])
      Worth(list, place) == (Weight(list.retriever) * 10000) \div (60 + place)
      Add(merged, list, place) ==
        LET e == list.items[place]
            old == IF e.c \in DOMAIN merged THEN merged[e.c]
                   ELSE [score |-> 0, count |-> 0, context |-> Unrelated,
                         confidence |-> IF list.retriever \in {"fts", "relation"} THEN 0 ELSE e.c.confidence]
            new == [old EXCEPT !.score = @ + Worth(list, place), !.count = @ + 1,
                               !.context = MergedContext(@, e.context)]
        IN [c \in DOMAIN merged \cup {e.c} |-> IF c = e.c THEN new ELSE merged[c]]
      AddList(merged, list) == FoldLeft(LAMBDA m, place : Add(m, list, place), merged, [k \in DOMAIN list.items |-> k])
  IN FoldLeft(AddList, <<>>, ordered)

FusedOrder(fused) ==
  LET Key(c) == <<-fused[c].score, -fused[c].count, -fused[c].confidence, Span(c), c.path, c.first, c.handle>>
  IN FirstOf(SetToSortSeq(DOMAIN fused, LAMBDA a, b : Earlier(Key(a), Key(b))), FusedLimit)

\* SearchDetailed: the scope once more, and the changed mark.
InScopeOf(request, fused, order) ==
  LET Candidate(c) == [c |-> c, context |-> fused[c].context, fusion |-> fused[c].score,
                       confidence |-> fused[c].confidence, changed |-> Overlaps(c, request.changed)]
      Marked(kept) == [k \in DOMAIN kept |-> Candidate(kept[k])]
  IN Marked(SelectSeq(order, LAMBDA c : InScope(c, request)))

Filtered(request) ==
  LET Of(fused) == InScopeOf(request, fused, FusedOrder(fused)) IN Of(Fused(Retrieve(request)))

\* rankCandidates, the reasons that move a chunk between lists most.
RankScore(e, request) ==
  e.fusion
  + (IF "symbol-exact" \in e.c.by THEN 100000 ELSE IF "symbol-prefix" \in e.c.by THEN 70000 ELSE 0)
  + (IF "fts" \in e.c.by THEN 8000 ELSE 0) + (IF "path" \in e.c.by THEN 4000 ELSE 0)
  + (IF e.changed THEN 15000 ELSE 0)
  + (IF e.context # Unrelated THEN IF e.context.kind = request.plan[1] THEN 500000 ELSE 60000 ELSE 0)

ContainsSpan(a, b) == a.first <= b.first /\ b.last <= a.last

\* Faulty variant: one content for all files.
ContentOnly(c) == c.hash

ContentKey(c) == <<c.path, c.hash>>

Covers(accepted, c) == accepted.path = c.path /\ (ContainsSpan(accepted, c) \/ ContainsSpan(c, accepted))

\* Deduplicate, of candidates in the order of their scores.
Deduplicate(ranked) ==
  LET specific == {ranked[k].c.path : k \in {j \in DOMAIN ranked : ~ranked[j].c.outline}}
      Idle(e) == e.c.outline /\ e.context = Unrelated /\ e.c.path \in specific /\ "symbol-exact" \notin e.c.by
      Add(out, e) ==
        IF \/ Idle(e)
           \/ \E a \in ToSet(out) : ContentKey(a.c) = ContentKey(e.c) \/ Covers(a.c, e.c)
        THEN out ELSE Append(out, e)
  IN FoldLeft(Add, <<>>, ranked)

\* RankWithPlan.
Ranked(request, filtered) ==
  LET Key(e) == <<-RankScore(e, request), -e.confidence, Span(e.c), e.c.path, e.c.first, e.c.handle>>
  IN Deduplicate(SortSeq(filtered, LAMBDA a, b : Earlier(Key(a), Key(b))))

\* shouldAbstainEvidenceQuery: a question that names something wants a candidate
\* of that name; what was asked of some files, or of the changes, is answered.
Abstains(request, ranked) ==
  /\ ~IsScoped(request)
  /\ \A e \in ToSet(ranked) :
       /\ e.c.by \cap {"symbol-exact", "symbol-prefix", "path"} = {} /\ ~e.changed
       /\ request.named \/ ("fts" \notin e.c.by /\ e.context = Unrelated)

\* QueryEvidence, what it hands to the compiler.
EvidenceCandidates(request, ranked) == IF Abstains(request, ranked) THEN <<>> ELSE ranked

-----------------------------------------------------------------------------
EmptyIndex == chunks = {} /\ links = {} /\ search = NoSearch

\* The index holds one more chunk, or link; chunks first.
AddChunk(c) ==
  /\ search = NoSearch /\ links = {} /\ \A d \in chunks : d.handle < c.handle
  /\ chunks' = chunks \cup {c}
  /\ UNCHANGED <<links, search>>

AddLink(l) ==
  /\ search = NoSearch /\ l \notin links /\ l.from \in {c.symbol : c \in chunks}
  /\ links' = links \cup {l}
  /\ UNCHANGED <<chunks, search>>

Search(request) ==
  /\ search = NoSearch /\ chunks # {}
  /\ search' = request
  /\ UNCHANGED <<chunks, links>>

NextSearch ==
  \/ \E c \in Chunks : AddChunk(c)
  \/ \E l \in Links : AddLink(l)
  \/ \E r \in Requests : Search(r)

-----------------------------------------------------------------------------
(* Properties                                                              *)

\* No lines of a file come twice, in whatever way they were found, and a file
\* of which something was found is not left out: what is dropped has a better
\* one of its own file in the answer (rank.go 187-230, fusion.go 31-56).
EachFileOnce(found, ranked) ==
  /\ \A i, j \in DOMAIN ranked : i # j /\ ranked[i].c.path = ranked[j].c.path =>
       ~ContainsSpan(ranked[i].c, ranked[j].c) /\ ranked[i].c.hash # ranked[j].c.hash
  /\ {e.c.path : e \in ToSet(found)} = {e.c.path : e \in ToSet(ranked)}

\* A candidate that was reached through relations carries the strongest of
\* them, over all anchors and all relations of the plan
\* (retrieval.go 124-199, fusion.go 54).
ProvenanceIsStrongest(found, anchors) ==
  LET Contexts(c) == UNION {{h.context : h \in {g \in Related(anchors[k], search.plan[r], search, FALSE) : g.c = c}} :
                              k \in DOMAIN anchors, r \in DOMAIN search.plan}
  IN \A e \in ToSet(found) :
       /\ (e.context = Unrelated) <=> (Contexts(e.c) = {})
       /\ e.context # Unrelated => e.context \in Contexts(e.c)
                                   /\ \A x \in Contexts(e.c) : ~StrongerContext(x, e.context)

\* A search of some paths or of the changes finds what is there however much
\* there is elsewhere: a chunk in scope that answers a retriever, among the
\* first of its scope, is in the answer or has a better one of its file there
\* (candidate_scope.go 87, retrieval.go 35).
ScopeIsSearched(answer) ==
  IsScoped(search) =>
    /\ \A c \in answer : InScope(c, search)
    /\ \A c \in chunks :
         (/\ InScope(c, search) /\ c.by # {}
          /\ Cardinality({d \in chunks : InScope(d, search)}) <= ListLimit)
           => \/ c \in answer
              \/ \E d \in answer : d.path = c.path /\ (c.outline \/ c.hash = d.hash \/ ContainsSpan(c, d) \/ ContainsSpan(d, c))

\* A search answers with the best of what was found: what several retrievers
\* find comes once, as the best of them found it, and within its scope nothing
\* is lost to what lies outside.
FindsTheBest(found, ranked) ==
  /\ EachFileOnce(found, ranked)
  /\ ProvenanceIsStrongest(found, Anchors(search, TextLists(search, FALSE)))
  /\ ScopeIsSearched({e.c : e \in ToSet(EvidenceCandidates(search, ranked))})

SearchFindsTheBest ==
  LET Of(found) == FindsTheBest(found, Ranked(search, found)) IN search # NoSearch => Of(Filtered(search))

=============================================================================

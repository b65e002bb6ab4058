-------------------------- MODULE EvidenceCompiler --------------------------
(***************************************************************************)
(* Compiler.Compile: which of the ranked candidates an evidence packet     *)
(* shows, in which form, and what it says of the rest, within a budget the *)
(* packet itself is measured against.  And the session of a client that    *)
(* asks again with the handles of all it has read (known_handles).         *)
(*                                                                         *)
(* Handles are numbers, 0 is none.  A candidate's kind, path and language  *)
(* are its `nature`, the role they give it (classifyRole, 190-222); its    *)
(* text is a number of lines; the plan is its intent.  Sizes are small     *)
(* numbers, so that a packet's own size crosses from one digit to two.     *)
(***************************************************************************)
EXTENDS Integers, Sequences, FiniteSets, FiniteSetsExt, SequencesExt, Ordering

CONSTANTS
  Offers,               \* the candidates that retrieval may return
  Intents, Modes,       \* of the requests
  Budgets,              \* token_budget of the requests
  MinBudget, MaxBudget, \* of package budget
  MaxOffers             \* bound: how many candidates a request has

\* Texts have a number of lines.
ASSUME OffersAssumption == \A c \in Offers : c.lines \in Nat

VARIABLES
  req,      \* the client's request; its known handles grow from call to call
  packet,   \* the answer to the last call
  read      \* history: the candidates shown so far, one element for each time

session == <<req, packet, read>>

NoContext == [kind |-> "none"]
NoPacket == [schema |-> "none"]
NoCall == [intent |-> "none"]

-----------------------------------------------------------------------------
(* Roles and order                                                         *)

AnchorRole == {"target", "change"}

\* certaintyFor.
Certainty(context) ==
  IF ~context.resolved THEN "lexical" ELSE IF context.confidence >= 90 THEN "exact" ELSE "scoped"

\* exactTargetIndex: the first that answers to a name of the query.
TargetIndex(cands) ==
  LET named == {i \in DOMAIN cands : cands[i].context = NoContext /\ cands[i].named # "no"}
  IN IF named = {} THEN 0 ELSE Min(named)

\* classifyRole.
Role(intent, cands, i) ==
  LET c == cands[i]
      relation == c.context.kind
  IN CASE intent = "impact" /\ c.changed -> "change"
       [] intent = "impact" /\ ~c.changed /\ c.context # NoContext -> "dependent"
       [] OTHER ->
            CASE i = TargetIndex(cands) -> "target"
              [] relation \in {"callers", "callees", "tests", "references"} ->
                   [callers |-> "caller", callees |-> "callee",
                    tests |-> "test", references |-> "reference"][relation]
              [] relation \in {"imports", "exports"} ->
                   IF c.context.direction = "incoming" THEN "dependent"
                   ELSE IF relation = "imports" THEN "import" ELSE "export"
              [] OTHER -> c.nature

\* presentationPriorities.
Priorities(intent) ==
  CASE intent = "callers" -> <<"target", "caller", "implementation", "test", "type", "import",
                               "reference", "dependent", "context", "documentation">>
    [] intent = "tests" -> <<"target", "test", "implementation", "type", "config", "context", "documentation">>
    [] intent = "impact" -> <<"change", "target", "dependent", "caller", "reference", "test",
                              "implementation", "type", "config", "context", "documentation">>
    [] OTHER -> <<"target", "implementation", "definition", "declaration", "type", "caller", "callee",
                  "test", "import", "reference", "config", "template", "change", "dependent",
                  "context", "documentation">>

Priority(intent, role) ==
  LET roles == Priorities(intent)
      at == {i \in DOMAIN roles : roles[i] = role}
  IN IF at = {} THEN Len(roles) + 1 ELSE Min(at)

\* roleWeight, for the intents above.
RoleWeight(intent, role) ==
  LET weights == CASE intent = "callers" -> [target |-> 40, caller |-> 46, test |-> 20, implementation |-> 18]
                   [] intent = "tests" -> [target |-> 36, test |-> 50, implementation |-> 18, config |-> 12]
                   [] intent = "impact" -> [change |-> 50, dependent |-> 46, caller |-> 30, test |-> 28, target |-> 26]
                   [] intent = "definition" -> [target |-> 45, implementation |-> 34, definition |-> 30,
                                                declaration |-> 24, type |-> 18]
                   [] OTHER -> [target |-> 8]
  IN IF role \in DOMAIN weights THEN weights[role] ELSE 8

\* selectionLimit.
SelectionLimit(intent) == CASE intent = "definition" -> 1 [] intent = "impact" -> 6 [] OTHER -> 4

-----------------------------------------------------------------------------
(* Candidates                                                              *)

\* strongerCompilerProvenance; the last tie, by text, is by kind here.
Stronger(left, right) ==
  /\ left # NoContext
  /\ \/ right = NoContext
     \/ left.resolved /\ ~right.resolved
     \/ left.resolved = right.resolved /\ left.confidence > right.confidence

\* The first pass of preprocess: one candidate for a handle, in the place of
\* the first, with the strongest provenance.
Put(seen, c) ==
  LET same == {i \in DOMAIN seen.kept : seen.kept[i].handle = c.handle /\ c.handle # 0}
      i == Min(same)
  IN IF same = {} THEN [seen EXCEPT !.kept = Append(@, c)]
     ELSE [kept |-> IF Stronger(c.context, seen.kept[i].context) THEN [seen.kept EXCEPT ![i] = c] ELSE seen.kept,
           duplicates |-> seen.duplicates + 1]

ByHandle(cands) == FoldLeft(Put, [kept |-> <<>>, duplicates |-> 0], cands)

Text(fidelity, tokens) == [fidelity |-> fidelity, tokens |-> tokens]

\* BuildVariants and removeDuplicateVariants: from the richest form on.
Variants(c, role, mode) ==
  LET verbatim == Text("verbatim", 2 + c.lines \div 10)
      excerpt == Text("excerpt", 3)
      compact == \/ role \in {"target", "implementation"} /\ c.lines < 40
                 \/ role \in {"caller", "callee", "test"} /\ c.lines < 24
      focused == role \in {"target", "implementation"} \/ c.hits
      body == IF c.lines = 0 \/ mode = "outline" THEN <<>>
              ELSE IF mode = "source" THEN <<verbatim>> \o (IF c.lines > 1 THEN <<excerpt>> ELSE <<>>)
              ELSE IF compact THEN <<verbatim>>
              ELSE IF focused THEN <<excerpt>> ELSE <<>>
  IN IF c.nature # "outline" THEN Append(body, Text("signature", 1))
     ELSE IF c.lines > 0 THEN <<Text("synthetic", 2)>> ELSE <<>>

\* Faulty variant: what is known does not hide its copies.
MarkUnknown(seen, c, known) ==
  IF known THEN seen
  ELSE [seen EXCEPT !.hashes = IF c.hash = 0 THEN @ ELSE @ \cup {<<c.path, c.hash>>},
                    !.spans = @ \cup {<<c.path, c.span>>}]

\* What stands for itself and for its copies from now on.
Mark(seen, c, known) ==
  [seen EXCEPT !.hashes = IF c.hash = 0 THEN @ ELSE @ \cup {<<c.path, c.hash>>},
               !.spans = @ \cup {<<c.path, c.span>>}]

\* The places of the candidates in the order of presentation.
Presentation(intent, cands) ==
  LET key == [i \in DOMAIN cands |-> Priority(intent, Role(intent, cands, i))]
  IN Sorted(DOMAIN cands, LAMBDA i, j : key[i] < key[j] \/ (key[i] = key[j] /\ i < j))

\* One candidate more: if it is valid, no copy of one before it, not known,
\* and has a form.
Prepare(request, cands, seen, i) ==
  LET c == cands[i]
      role == Role(request.intent, cands, i)
      known == c.handle \in ToSet(request.known)
      variants == Variants(c, role, request.mode)
  IN IF c.handle = 0 \/ c.span = 0 THEN seen
     ELSE IF <<c.path, c.hash>> \in seen.hashes \/ <<c.path, c.span>> \in seen.spans
       THEN [seen EXCEPT !.duplicates = @ + 1]
     ELSE IF known THEN [Mark(seen, c, TRUE) EXCEPT !.skipped = @ + 1]
     ELSE IF variants = <<>> THEN Mark(seen, c, FALSE)
     ELSE [Mark(seen, c, FALSE) EXCEPT !.prepared =
             Append(@, [c |-> c, role |-> role, rank |-> i - 1, variants |-> variants])]

\* preprocess.
Preprocess(request) ==
  LET first == ByHandle(request.cands)
      cands == first.kept
  IN FoldLeft(LAMBDA seen, i : Prepare(request, cands, seen, i),
              [prepared |-> <<>>, duplicates |-> first.duplicates, skipped |-> 0, hashes |-> {}, spans |-> {}],
              Presentation(request.intent, cands))

-----------------------------------------------------------------------------
(* The packet and its size                                                 *)

Digits(n) == IF n < 10 THEN 1 ELSE 2

\* The smallest budget has room for a packet that shows nothing and counts all
\* there is: such a packet has no text, only its size, its budget and a code
\* or two, and budget.go 13 begins at 256 tokens.
ASSUME BudgetAssumption ==
  /\ MinBudget \in Int /\ MaxBudget \in Int /\ MaxOffers \in Nat /\ Budgets \subseteq Int
  /\ 4 + 2 * Digits(MaxOffers) + 2 * Digits(MinBudget) <= MinBudget

ItemSize(item) == 1 + item.tokens + item.meta

\* All of a packet but the two places where it says its size, in the packet
\* and in the summary, where `omitted` stands too.
Body(p) ==
  2 + SumFunction([i \in DOMAIN p.evidence |-> ItemSize(p.evidence[i])])
    + Cardinality(p.relations) + Len(p.limitations) + Len(p.next)
    + 2 * Digits(p.omitted) + (IF p.skipped > 0 THEN 1 ELSE 0)

\* MeasureModelVisible.
Measure(p) == Body(p) + 2 * Digits(p.used)

\* settleWireUsage: four times or until it agrees with itself, and once more.
Settle(p) ==
  LET body == Body(p)
      Again(used, n) == body + 2 * Digits(used)
  IN [p EXCEPT !.used = FoldLeft(Again, p.used, <<1, 2, 3, 4, 5>>)]

\* edgeKind.
EdgeKind(relation) ==
  CASE relation \in {"callers", "callees"} -> "calls"
    [] relation \in {"parent", "children"} -> "contains"
    [] OTHER -> relation

\* selectedEdges: between two candidates that are shown.
Edges(shown) ==
  LET handles == {p.c.handle : p \in shown}
      joined == {c \in {p.c : p \in shown} :
                   /\ c.context # NoContext /\ c.context.direction # "related"
                   /\ c.context.anchor \in handles \ {c.handle}}
  IN {[from |-> IF c.context.direction = "incoming" THEN c.handle ELSE c.context.anchor,
       to |-> IF c.context.direction = "incoming" THEN c.context.anchor ELSE c.handle,
       kind |-> EdgeKind(c.context.kind), certainty |-> Certainty(c.context)] : c \in joined}

\* Selected: of the prepared candidate `at` the variant `v`.
Choice(at, v, utility) == [at |-> at, v |-> v, utility |-> utility]

\* buildPacket.
BuildPacket(limit, pre, selected, omitted) ==
  LET order == Sorted(ToSet(selected), LAMBDA s, t : s.at < t.at)
      Item(s) == LET p == pre.prepared[s.at] IN
                 [handle |-> p.c.handle, path |-> p.c.path, span |-> p.c.span, role |-> p.role,
                  fidelity |-> p.variants[s.v].fidelity, tokens |-> p.variants[s.v].tokens, meta |-> 1]
  IN Settle([schema |-> "v1", limit |-> limit, used |-> 0, omitted |-> omitted,
             evidence |-> [k \in DOMAIN order |-> Item(order[k])],
             relations |-> Edges({pre.prepared[s.at] : s \in ToSet(selected)}),
             limitations |-> IF omitted > 0 THEN <<"budget_limited">> ELSE <<>>,
             next |-> <<>>, skipped |-> pre.skipped])

-----------------------------------------------------------------------------
(* What is shown                                                           *)

\* clampBudget.
ClampBudget(tokens) == Max({MinBudget, Min({MaxBudget, tokens})})

\* candidateUtility, times 60; diverse: the roles and paths that are shown
\* count.
Utility(intent, p, shown, diverse) ==
  LET fresh == IF p.role \notin {q.role : q \in shown} THEN 18 ELSE 0
      elsewhere == IF p.c.path \notin {q.c.path : q \in shown} THEN 10 ELSE -7
  IN 6000 \div (1 + p.rank)
     + 60 * (RoleWeight(intent, p.role)
             + (IF diverse THEN fresh + elsewhere ELSE 0)
             + (IF p.c.context = NoContext THEN 0 ELSE IF p.c.context.resolved THEN 24 ELSE 16)
             + (IF p.c.named = "exactly" THEN 14 ELSE 0)
             + (IF p.c.changed THEN 12 ELSE 0))

\* variantQuality, times 100.
Quality(fidelity) ==
  CASE fidelity = "verbatim" -> 130 [] fidelity = "excerpt" -> 120
    [] fidelity = "synthetic" -> 105 [] OTHER -> 100

\* What remains of what preprocess found, with what it left out.
Omitted(pre, selected) == Len(pre.prepared) - Len(selected) + pre.duplicates + pre.skipped

\* Faulty variant: the target competes like everything else.
NoAnchor(request, pre, limit) == <<>>

\* The first target or change, in the richest form that fits by itself.
Anchor(request, pre, limit) ==
  LET anchors == {i \in DOMAIN pre.prepared : pre.prepared[i].role \in AnchorRole}
      at == Min(anchors)
      p == pre.prepared[at]
      Alone(v) == <<Choice(at, v, Utility(request.intent, p, {}, FALSE))>>
      fit == {v \in DOMAIN p.variants :
                BuildPacket(limit, pre, Alone(v), Omitted(pre, Alone(v))).used <= limit}
  IN IF anchors = {} \/ fit = {} THEN <<>> ELSE Alone(Min(fit))

Fits(used, limit) == used <= limit

\* One round: of all variants that fit the one with the most utility for what
\* it adds to the packet.
AddBest(request, pre, limit, selected) ==
  LET shown == {pre.prepared[s.at] : s \in ToSet(selected)}
      current == BuildPacket(limit, pre, selected, Omitted(pre, selected)).used
      rest == DOMAIN pre.prepared \ {s.at : s \in ToSet(selected)}
      Option(i, v) ==
        LET p == pre.prepared[i]
            utility == Utility(request.intent, p, shown, TRUE) * Quality(p.variants[v].fidelity)
            trial == Append(selected, Choice(i, v, utility))
            used == BuildPacket(limit, pre, trial, Omitted(pre, trial)).used
        IN [at |-> i, v |-> v, utility |-> utility, used |-> used, cost |-> Max({1, used - current})]
      options == {o \in UNION {{Option(i, v) : v \in DOMAIN pre.prepared[i].variants} : i \in rest} :
                    Fits(o.used, limit)}
      \* ratio, then betterOption
      Better(o, q) == \/ o.utility * q.cost > q.utility * o.cost
                      \/ o.utility * q.cost = q.utility * o.cost
                         /\ (o.at < q.at \/ (o.at = q.at /\ o.v <= q.v))
  IN IF options = {} THEN selected
     ELSE LET best == CHOOSE o \in options : \A q \in options : Better(o, q)
          IN Append(selected, Choice(best.at, best.v, best.utility))

\* As many rounds as there are candidates, until enough are selected.
Round(request, pre, limit, selected) ==
  IF Len(selected) >= SelectionLimit(request.intent) THEN selected ELSE AddBest(request, pre, limit, selected)

Select(request, pre, limit) ==
  FoldLeft(LAMBDA selected, n : Round(request, pre, limit, selected), Anchor(request, pre, limit),
           [n \in 1 .. Min({SelectionLimit(request.intent), Len(pre.prepared)}) |-> n])

-----------------------------------------------------------------------------
(* What is said of the rest                                                *)

LimitationOrder ==
  <<"budget_limited", "source_reduced_to_excerpt", "source_reduced_to_signature",
    "additional_callers_omitted", "additional_callees_omitted", "additional_tests_omitted",
    "additional_imports_omitted", "additional_references_omitted", "dynamic_dispatch_unresolved",
    "lexical_relation_only", "known_anchor_not_repeated", "no_relevant_source_found", "syntax_only_impact">>

\* nextReasonOrder, by the relation of each reason.
NextOrder == <<"callers", "callees", "tests", "imports", "references", "parent", "children", "self">>

\* The relation that leads to omitted candidates of a role.
MoreOf == [caller |-> "callers", callee |-> "callees", test |-> "tests",
           import |-> "imports", export |-> "imports", reference |-> "references"]

Index(seq, x) == Min({i \in DOMAIN seq : seq[i] = x})

\* The anchor omitted candidates are asked for at: the first target or change
\* that is shown, else the first handle of the request.
GuidanceTarget(request, pre, selected) ==
  LET targets == {k \in DOMAIN selected : pre.prepared[selected[k].at].role \in AnchorRole}
  IN IF targets # {} THEN pre.prepared[selected[Min(targets)].at].c.handle
     ELSE IF request.anchors # <<>> THEN Head(request.anchors)
     ELSE IF request.known # <<>> THEN Head(request.known) ELSE 0

Shown(pre, selected) == {pre.prepared[s.at] : s \in ToSet(selected)}
Rest(pre, selected) == ToSet(pre.prepared) \ Shown(pre, selected)

\* BuildGuidance: what holds of the packet.
Limiting(request, pre, selected) ==
  LET shown == Shown(pre, selected)
      fidelities == {pre.prepared[s.at].variants[s.v].fidelity : s \in ToSet(selected)}
      unresolved == {c \in {p.c.context : p \in ToSet(pre.prepared)} \ {NoContext} : ~c.resolved}
      more == {MoreOf[p.role] : p \in {q \in Rest(pre, selected) : q.role \in DOMAIN MoreOf}}
      Holds(code) ==
        CASE code = "budget_limited" -> Omitted(pre, selected) > 0
          [] code = "source_reduced_to_excerpt" -> "excerpt" \in fidelities
          [] code = "source_reduced_to_signature" -> "signature" \in fidelities
          [] code = "additional_callers_omitted" -> "callers" \in more
          [] code = "additional_callees_omitted" -> "callees" \in more
          [] code = "additional_tests_omitted" -> "tests" \in more
          [] code = "additional_imports_omitted" -> "imports" \in more
          [] code = "additional_references_omitted" -> "references" \in more
          [] code = "dynamic_dispatch_unresolved" -> \E c \in unresolved : c.kind \in {"callers", "callees"}
          [] code = "lexical_relation_only" -> unresolved # {}
          [] code = "known_anchor_not_repeated" ->
               \E p \in shown : p.c.context # NoContext /\ p.c.context.anchor \in ToSet(request.known)
          [] code = "no_relevant_source_found" -> selected = <<>>
          [] code = "syntax_only_impact" -> request.intent = "impact"
  IN {code \in ToSet(LimitationOrder) : Holds(code)}

Limitations(request, pre, selected) == FirstOf(Those(LimitationOrder, Limiting(request, pre, selected)), 8)

\* BuildGuidance: where to ask for more.
Actions(request, pre, selected) ==
  LET target == GuidanceTarget(request, pre, selected)
      At(p) == IF p.c.context # NoContext /\ p.c.context.anchor # 0 THEN p.c.context.anchor ELSE target
      rest == Rest(pre, selected)
      family == {p \in ToSet(pre.prepared) : p.c.context.kind \in {"parent", "children"}}
  IN {[handle |-> pre.prepared[s.at].c.handle, relation |-> "self"] :
        s \in {t \in ToSet(selected) : pre.prepared[t.at].variants[t.v].fidelity = "signature"}}
     \cup {[handle |-> IF p \in rest THEN At(p) ELSE p.c.context.anchor, relation |-> p.c.context.kind] : p \in family}
     \cup {[handle |-> At(p), relation |-> MoreOf[p.role]] : p \in {q \in rest : q.role \in DOMAIN MoreOf}}

NextActions(request, pre, selected) ==
  LET Before(a, b) == LET i == Index(NextOrder, a.relation) j == Index(NextOrder, b.relation)
                      IN i < j \/ (i = j /\ a.handle < b.handle)
  IN FirstOf(Sorted({a \in Actions(request, pre, selected) : a.handle # 0}, Before), 4)

\* pruneKnownDeltaGuidance: nothing is said of known anchors when there is
\* nothing else to do.
PruneKnown(request, p, limitations, next) ==
  IF \/ request.known = <<>> \/ p.relations # {}
     \/ \E a \in ToSet(next) : a.relation # "self"
  THEN [limitations |-> limitations, next |-> next]
  ELSE LET idle == {"known_anchor_not_repeated"}
                   \cup {c \in {"no_relevant_source_found"} : p.evidence = <<>> /\ p.skipped > 0}
       IN [limitations |-> Those(limitations, ToSet(limitations) \ idle),
           next |-> Those(next, {a \in ToSet(next) : a.handle \notin ToSet(request.known)})]

\* applyGuidanceWithinBudget: next actions go first, from the last, then
\* limitations, down to budget_limited.
ApplyGuidance(p, limitations, next) ==
  LET Said(l, n) == Settle([p EXCEPT !.limitations = SubSeq(limitations, 1, l), !.next = SubSeq(next, 1, n)])
      all == Len(limitations)
      actions == {n \in 0 .. Len(next) : n = 0 \/ Said(all, n).used <= p.limit}
      keep == IF limitations # <<>> /\ Head(limitations) = "budget_limited" THEN 1 ELSE 0
      codes == {l \in keep .. all : l = keep \/ Said(l, 0).used <= p.limit}
  IN IF Max(actions) > 0 THEN Said(all, Max(actions)) ELSE Said(Max(codes), 0)

\* prunePacketMetadata: what an item that is no anchor says twice.
PruneMetadata(p) ==
  [p EXCEPT !.evidence = [k \in DOMAIN @ |-> IF @[k].role \in AnchorRole THEN @[k] ELSE [@[k] EXCEPT !.meta = 0]]]

\* The packet with its guidance.  The loop that removes what was selected until
\* the packet fits (143-149) finds nothing to do: Select has measured the same
\* packet.
Guided(request, pre, selected, bare) ==
  LET With(said) == Settle(PruneMetadata(ApplyGuidance(bare, said.limitations, said.next)))
  IN IF bare.used > bare.limit THEN [schema |-> "error"]
     ELSE With(PruneKnown(request, bare, Limitations(request, pre, selected), NextActions(request, pre, selected)))

\* Compile.
Compile(request) ==
  LET limit == ClampBudget(request.budget)
      Of(pre, selected) == Guided(request, pre, selected, BuildPacket(limit, pre, selected, Omitted(pre, selected)))
      From(pre) == Of(pre, Select(request, pre, limit))
  IN From(Preprocess(request))

-----------------------------------------------------------------------------
(* A client that reads until there is nothing new                          *)

NoRequest == req = NoCall /\ packet = NoPacket /\ read = <<>>

Call(intent, mode, budget) ==
  /\ req = NoCall
  /\ req' = [intent |-> intent, mode |-> mode, budget |-> budget, cands |-> <<>>, known |-> <<>>, anchors |-> <<>>]
  /\ UNCHANGED <<packet, read>>

\* Retrieval finds one more candidate for the request.
Find(c) ==
  /\ req # NoCall /\ packet = NoPacket /\ Len(req.cands) < MaxOffers /\ c \notin ToSet(req.cands)
  /\ req' = [req EXCEPT !.cands = Append(@, c)]
  /\ UNCHANGED <<packet, read>>

\* The client asks, and adds what it is shown to its known handles.
Ask ==
  /\ req # NoCall /\ packet.schema # "error"
  /\ packet' = Compile(req)
  /\ LET shown == IF packet'.schema = "error" THEN <<>> ELSE packet'.evidence
     IN /\ read' = read \o shown
        /\ req' = [req EXCEPT !.known = @ \o [k \in DOMAIN shown |-> shown[k].handle]]

NextCall ==
  \/ \E i \in Intents, m \in Modes, b \in Budgets : Call(i, m, b)
  \/ \E c \in Offers : Find(c)
  \/ Ask

CallSpec == NoRequest /\ [][NextCall]_session

-----------------------------------------------------------------------------
(* Properties                                                              *)

PacketGiven == packet # NoPacket

HandlesShown(p) == {p.evidence[k].handle : k \in DOMAIN p.evidence}

\* What is valid, and has a form.
Usable(c) == c.handle # 0 /\ c.span # 0 /\ (c.nature = "outline" => c.lines > 0)

\* Whatever was found, there is an answer; it fits its budget and is exactly
\* as large as it says, also where saying so makes it larger; it says
\* budget_limited exactly when it counts something as omitted; and it counts
\* everything that could be shown and is not (compiler.go 141-163, wire.go 25).
Honest(p, request) ==
  /\ p.schema # "error"
  /\ p.used = Measure(p) /\ p.used <= p.limit
  /\ (p.omitted > 0) <=> ("budget_limited" \in ToSet(p.limitations))
  /\ p.omitted >= Cardinality({c.handle : c \in {d \in ToSet(request.cands) : Usable(d)}} \ HandlesShown(p))

PacketIsHonest == PacketGiven => Honest(packet, req)

\* The target of the question, or the first change, is shown if any form of it
\* fits by itself, however useful the others are; and every edge joins two
\* items that are shown (compiler.go 88-107, 345).
HasRoom(limit, pre, i) ==
  \E v \in DOMAIN pre.prepared[i].variants :
    LET one == <<Choice(i, v, 0)>> IN BuildPacket(limit, pre, one, Omitted(pre, one)).used <= limit

Anchored(p, pre) ==
  LET anchors == {i \in DOMAIN pre.prepared : pre.prepared[i].role \in AnchorRole}
  IN /\ anchors # {} /\ HasRoom(p.limit, pre, Min(anchors)) =>
          pre.prepared[Min(anchors)].c.handle \in HandlesShown(p)
     /\ \A e \in p.relations : {e.from, e.to} \subseteq HandlesShown(p) /\ e.from # e.to

AnchorIsShown ==
  PacketGiven /\ read = packet.evidence => Anchored(packet, Preprocess([req EXCEPT !.known = <<>>]))

\* In all of a session nothing is read twice: no handle, and no lines of a
\* file under another handle (compiler.go 219-260).
SessionReadsOnce ==
  \A i, j \in DOMAIN read :
    i # j => read[i].handle # read[j].handle /\ <<read[i].path, read[i].span>> # <<read[j].path, read[j].span>>

\* A session ends when there is nothing left to read: an answer without
\* evidence leaves out only what it has shown before, copies of that, and
\* what fits no packet in any form (compiler.go 107-139).
NothingFits(limit, pre) == \A i \in DOMAIN pre.prepared : ~ HasRoom(limit, pre, i)

SessionReadsAll ==
  PacketGiven /\ packet.schema # "error" /\ packet.evidence = <<>> => NothingFits(packet.limit, Preprocess(req))

\* A packet says the truth about itself, and says it of its target.
PacketIsHonestAndAnchored == PacketIsHonest /\ AnchorIsShown

\* A session that repeats its question with the handles it has reads all
\* there is to read, once.
SessionReadsAllOnce == SessionReadsOnce /\ SessionReadsAll

=============================================================================

---------------------------- MODULE ContextPacker ---------------------------
(***************************************************************************)
(* Packer.Pack: the bundle of source that a query without evidence packets *)
(* gets (budget.go).  Candidates come in the order of their scores; what   *)
(* is left of each depends on its kind, on those before it and on the room *)
(* there is.                                                               *)
(*                                                                         *)
(* Text is counted in lines, one token each; the estimator is linear.      *)
(* A candidate says what it is (`class`: "code", "test" or "prose"),       *)
(* whether it has a structural reason, and whether that is a symbol match. *)
(***************************************************************************)
EXTENDS Integers, Sequences, FiniteSets, FiniteSetsExt, SequencesExt, Functions

CONSTANTS
  PackOffers,               \* candidates
  PackIntents,              \* "tests", "impact" or "any"
  PackModes,                \* "source", "outline"
  PackBudgets,
  MinPack, MaxPack,         \* MinBudget, MaxBudget
  MaxPacked                 \* bound: how many candidates there are

ASSUME PackAssumption ==
  /\ \A c \in PackOffers : c.lines \in Nat
  /\ PackBudgets \subseteq Nat /\ MinPack \in Nat /\ MaxPack \in Nat

VARIABLE pack  \* the request, and the candidates that are found so far

NothingToPack == pack = [intent |-> "none"]

-----------------------------------------------------------------------------
(* Sizes                                                                   *)

PackBudget == Max({MinPack, Min({MaxPack, pack.budget})})

\* A number of more than one digit takes more; two is the first of them here.
NumberTokens(n) == IF n < 2 THEN 0 ELSE 1

\* The lines of an item, and the mark of what is elided.
ItemLines(item) == item.content + (IF item.elided THEN 1 ELSE 0)
ItemTokens(item) == 1 + ItemLines(item)

\* The JSON of a bundle, with one item more or none; the counters of what was
\* omitted and of what it is estimated at are in it.
JsonTokens(bundle, extra) ==
  2 + NumberTokens(bundle.omitted) + NumberTokens(bundle.estimated)
    + SumFunction([k \in DOMAIN bundle.items |-> ItemTokens(bundle.items[k])])
    + SumFunction([k \in DOMAIN extra |-> ItemTokens(extra[k])])

\* estimateBundle: it is measured with an estimate of zero.
BundleTokens(bundle, extra) == JsonTokens([bundle EXCEPT !.estimated = 0], extra)

\* estimateSourcePayload: a signature stands for an item without content.
SourceTokens(bundle) ==
  SumFunction([k \in DOMAIN bundle.items |-> Max({1, ItemLines(bundle.items[k])})])

\* elide: as many lines from the first as there is room for before the mark.
Elide(lines, room) ==
  IF lines = 0 \/ room < 2 THEN 0 ELSE Max({0, Min({lines, room - 1})})

-----------------------------------------------------------------------------
(* What is not shown                                                       *)

Some(P(_)) == \E k \in DOMAIN pack.cands : P(pack.cands[k])

\* The filters of the loop, before an item is made; `tests` of them are shown.
LeftOut(k, tests) ==
  LET c == pack.cands[k] IN
  \/ c.class = "prose" /\ Some(LAMBDA d : d.class # "prose")
  \/ k > 1 /\ ~c.signal /\ Some(LAMBDA d : d.signal)
  \/ IF pack.intent = "tests" /\ Some(LAMBDA d : d.class = "test")
     THEN c.class # "test" \/ tests >= 2
     ELSE c.class = "test" /\ pack.intent = "any" /\ Some(LAMBDA d : d.class = "code")

\* lowUtilityUnderPressure.
LowUtility(bundle, item, k) ==
  LET c == pack.cands[k]
      top == pack.cands[1]
  IN ~c.symbol /\ \/ c.relation = "" /\ c.score * 2 < top.score
                  \/ c.score * 4 < top.score /\ BundleTokens(bundle, <<item>>) > (PackBudget * 3) \div 5

\* candidateItem, and the shorter form of a second one of the same relation.
ItemOf(k, bundle) ==
  LET c == pack.cands[k]
      again == c.relation # "" /\ c.relation \in bundle.relations /\ pack.mode = "source" /\ c.lines > 0
  IN [cand |-> k, content |-> IF pack.mode = "outline" THEN 0 ELSE IF again THEN 1 ELSE c.lines, elided |-> again]

\* The forms an item takes until it fits: a third of the budget, a fifth, the
\* mark alone.
Shortened(item, k, bundle) ==
  LET c == pack.cands[k]
      TooLarge(i) == BundleTokens(bundle, <<i>>) > PackBudget
      Cut(i, room) == [i EXCEPT !.content = Elide(c.lines, room), !.elided = TRUE]
      third == IF /\ pack.mode = "source" /\ item.content > 0
                  /\ TooLarge(item) \/ (item.content > (PackBudget * 40) \div 100 /\ k # 1)
               THEN Cut(item, PackBudget \div 3) ELSE item
      fifth == IF pack.mode = "source" /\ TooLarge(third) THEN Cut(third, PackBudget \div 5) ELSE third
  IN IF TooLarge(fifth) THEN [fifth EXCEPT !.content = 0, !.elided = TRUE] ELSE fifth

-----------------------------------------------------------------------------
(* Pack                                                                    *)

Omit(bundle) == [bundle EXCEPT !.omitted = @ + 1]

Consider(bundle, k) ==
  LET c == pack.cands[k]
      isTest == pack.intent = "tests" /\ Some(LAMBDA d : d.class = "test")
      counted == [bundle EXCEPT !.tests = @ + (IF isTest THEN 1 ELSE 0)]
      item == ItemOf(k, bundle)
      related == IF c.relation = "" THEN counted ELSE [counted EXCEPT !.relations = @ \cup {c.relation}]
      short == Shortened(item, k, related)
  IN IF LeftOut(k, bundle.tests) THEN Omit(bundle)
     ELSE IF k > 1 /\ bundle.items # <<>> /\ LowUtility(related, item, k) THEN Omit(related)
     ELSE IF BundleTokens(related, <<short>>) > PackBudget THEN Omit(related)
     ELSE [related EXCEPT !.items = Append(@, short)]

\* Faulty variant: what is taken back is not counted.
TakeBackSilently(bundle) ==
  LET keeps == {n \in 0 .. Len(bundle.items) :
                  n = 0 \/ BundleTokens([bundle EXCEPT !.items = SubSeq(@, 1, n)], <<>>) <= PackBudget}
  IN [bundle EXCEPT !.items = SubSeq(@, 1, Max(keeps))]

\* The last loop: items are taken back, and counted, until the bundle fits;
\* counting them makes it larger.
TakeBack(bundle) ==
  LET Kept(n) == [bundle EXCEPT !.items = SubSeq(@, 1, n), !.omitted = @ + Len(bundle.items) - n]
      keeps == {n \in 0 .. Len(bundle.items) : n = 0 \/ BundleTokens(Kept(n), <<>>) <= PackBudget}
  IN Kept(Max(keeps))

\* The bundle before the first candidate.
NoItems == [items |-> <<>>, omitted |-> 0, estimated |-> 0, tests |-> 0, relations |-> {}]

\* What fits is estimated last, and the number is sent too.
Estimated(bundle) == [bundle EXCEPT !.estimated = SourceTokens(bundle)]

Pack == Estimated(TakeBack(FoldLeft(Consider, NoItems, [k \in DOMAIN pack.cands |-> k])))

-----------------------------------------------------------------------------
PackRequest(intent, mode, budget) ==
  /\ NothingToPack
  /\ pack' = [intent |-> intent, mode |-> mode, budget |-> budget, cands |-> <<>>]

\* One more candidate, with no higher score than the last.
PackCandidate(c) ==
  /\ ~NothingToPack /\ Len(pack.cands) < MaxPacked
  /\ \A k \in DOMAIN pack.cands : pack.cands[k].handle # c.handle /\ pack.cands[k].score >= c.score
  /\ pack' = [pack EXCEPT !.cands = Append(@, c)]

NextPack ==
  \/ \E i \in PackIntents, m \in PackModes, b \in PackBudgets : PackRequest(i, m, b)
  \/ \E c \in PackOffers : PackCandidate(c)

PackSpec == NothingToPack /\ [][NextPack]_pack

-----------------------------------------------------------------------------
(* Properties                                                              *)

\* A bundle that holds anything passes its budget by no more than the digits
\* of its estimate, which is not there yet when it is measured (budget.go 185,
\* 258), also when it says of how many candidates it left out; the estimate is
\* within the budget; and every candidate is in the bundle once, in order, or
\* counted (budget.go 78, 178).
BundleAccountsForAll ==
  ~NothingToPack =>
    LET bundle == Pack IN
    /\ bundle.items # <<>> =>
         /\ JsonTokens(bundle, <<>>) <= PackBudget + NumberTokens(bundle.estimated)
         /\ bundle.estimated <= PackBudget
    /\ Len(bundle.items) + bundle.omitted = Len(pack.cands)
    /\ \A j, k \in DOMAIN bundle.items : j < k => bundle.items[j].cand < bundle.items[k].cand

\* What is sent keeps the budget: the code does not have it.
SentBundleFits ==
  ~NothingToPack /\ Pack.items # <<>> => JsonTokens(Pack, <<>>) <= PackBudget

=============================================================================

----------------------------- MODULE ImpactRead -----------------------------
(***************************************************************************)
(* An impact answer of app.Service: changed line ranges from git, symbols  *)
(* from the index, and a check that both speak of the same content, while  *)
(* the working tree goes on changing.  The index does not: the call holds  *)
(* the reader's lock.  RangeMapping has the lines; here a file's ranges    *)
(* are known by the content they were read from, a version number; 0 is no *)
(* file.                                                                   *)
(***************************************************************************)
EXTENDS Integers, Sequences, FiniteSets, FiniteSetsExt, SequencesExt

CONSTANTS
  Path,
  Content,        \* contents of files, by number; 0: the file is not there
  Symbol,         \* symbols, each with its chunk
  Home,           \* [Symbol -> Path]
  Alike,          \* pairs of one text, or with the lines of one within the other's
  Outline,        \* symbols whose chunk is an outline
  Penalty,        \* [Symbol -> Nat]: 60 for a test, 40 for documentation, 10 for a long one
  Refs,           \* relations of the index: <<source, target, kind>>
  BaseCommit, HeadCommit,  \* [Path -> Content]: the commits compared
  MaxCandidates   \* config.MaxCandidates

ASSUME ImpactAssumption ==
  /\ Home \in [Symbol -> Path]
  /\ Content \subseteq Nat /\ 0 \in Content
  /\ BaseCommit \in [Path -> Content] /\ HeadCommit \in [Path -> Content]
  /\ IsFiniteSet(Symbol)
  /\ Outline \subseteq Symbol /\ Penalty \in [Symbol -> Nat]
  /\ MaxCandidates \in Nat

VARIABLES
  tree,      \* the working tree
  restored,  \* files given the indexed content between the diff and their scan (history)
  rows,      \* what the index has
  mode,      \* what is compared: "tree", "base" with the tree, "refs"
  step,
  ranges,    \* the content the ranges of a file are of; 0: it has none
  hashes,    \* the scan: a file's content, 0 for none, Unread with a diagnostic
  unread,    \* files still to be scanned
  checked,   \* verification.checked: TRUE, FALSE, or not there
  answer     \* the symbols, changed ones before others

vars == <<tree, restored, rows, mode, step, ranges, hashes, unread, checked, answer>>

Comparisons == {"tree", "base", "refs"}
Unread == -1
None == [p \in Path |-> 0]
Nobody == [changed |-> {}, related |-> {}, order |-> <<>>]
Ended == {"answered", "stale", "unreadable", "unavailable"}

Init ==
  /\ tree \in [Path -> Content] /\ rows \in [Path -> Content]
  /\ restored = {}
  /\ mode \in Comparisons
  /\ step = "diff"
  /\ ranges = None /\ hashes = None /\ unread = Path
  /\ checked = <<>>
  /\ answer = Nobody

\* The tree changes: an edit, one that is undone, a checkout, a removal.  The
\* call reads a file for the last time when it scans it.
Edit(p, new) ==
  /\ step \notin Ended /\ p \in unread
  /\ new # tree[p]
  /\ tree' = [tree EXCEPT ![p] = new]
  /\ restored' = IF step = "scan" /\ new = rows[p] THEN restored \cup {p} ELSE restored
  /\ UNCHANGED <<rows, mode, step, ranges, hashes, unread, checked, answer>>

-----------------------------------------------------------------------------
(* Ranges                                                                  *)

\* git diff HEAD, and ls-files for the files git does not know.
ChangedInTree(p) == tree[p] # HeadCommit[p]

\* git diff base: files git does not know are not in it.
ChangedSinceBase(p) == HeadCommit[p] # 0 /\ tree[p] # BaseCommit[p]

\* git diff base head, then mapped into the tree.
ChangedBetweenCommits(p) == HeadCommit[p] # 0 /\ HeadCommit[p] # BaseCommit[p]

Changed(p) == CASE mode = "tree" -> ChangedInTree(p)
                [] mode = "base" -> ChangedSinceBase(p)
                [] mode = "refs" -> ChangedBetweenCommits(p)

\* Faulty variant: ranges between two commits stay in head's coordinates.
ReadDiffUnmapped ==
  /\ step = "diff"
  /\ ranges' = [p \in Path |-> IF ~Changed(p) \/ tree[p] = 0 THEN 0
                               ELSE IF mode = "refs" THEN HeadCommit[p] ELSE tree[p]]
  /\ step' = "scan"
  /\ UNCHANGED <<tree, restored, rows, mode, hashes, unread, checked, answer>>

\* WorkingTreeDiff, Diff or DiffForImpact: a deleted file has no ranges, and
\* ranges between two commits are mapped to what the tree has now.
ReadDiff ==
  /\ step = "diff"
  /\ ranges' = [p \in Path |-> IF Changed(p) THEN tree[p] ELSE 0]
  /\ step' = "scan"
  /\ UNCHANGED <<tree, restored, rows, mode, hashes, unread, checked, answer>>

\* The directory is not a repository of git.
NoRepository ==
  /\ step = "diff" /\ mode = "tree"
  /\ step' = "unavailable"
  /\ UNCHANGED <<tree, restored, rows, mode, ranges, hashes, unread, checked, answer>>

Affected == {p \in Path : ranges[p] # 0}

-----------------------------------------------------------------------------
(* Verification                                                            *)

\* Scanner.Scan reads one file after the other; without a range nothing is
\* scanned, and nothing is found.
ScanFile(p) ==
  /\ step = "scan" /\ Affected # {}
  /\ p \in unread
  /\ \E hash \in {tree[p], IF tree[p] = 0 THEN 0 ELSE Unread} :
       hashes' = [hashes EXCEPT ![p] = hash]
  /\ unread' = unread \ {p}
  /\ step' = IF unread = {p} THEN "verify" ELSE "scan"
  /\ UNCHANGED <<tree, restored, rows, mode, ranges, checked, answer>>

NothingAffected ==
  /\ step = "scan" /\ Affected = {}
  /\ step' = "answered"
  /\ UNCHANGED <<tree, restored, rows, mode, ranges, hashes, unread, checked, answer>>

Stale(p) == rows[p] # hashes[p]

\* impactSourceCheck.verify of every file in paths: what was checked before
\* is not checked again; a missing file is no source, any other must be the
\* file that was indexed.
Verified(paths) ==
  LET open == {p \in paths : p \notin DOMAIN checked}
  IN [unreadable |-> {p \in open : hashes[p] = Unread},
      stale |-> {p \in open : hashes[p] \notin {0, Unread} /\ Stale(p)},
      checked |-> [p \in open \cup DOMAIN checked |->
                     IF p \in DOMAIN checked THEN checked[p] ELSE hashes[p] # 0]]

\* The first file that cannot be verified ends the call.
Refuse(paths) ==
  \/ Verified(paths).unreadable # {} /\ step' = "unreadable"
  \/ Verified(paths).stale # {} /\ step' = "stale"

Verifiable(paths) == Verified(paths).unreadable = {} /\ Verified(paths).stale = {}

\* validateImpactSources: files that are gone are dropped.
Verify ==
  /\ step = "verify"
  /\ \/ /\ Refuse(Affected)
        /\ UNCHANGED <<ranges, checked>>
     \/ /\ Verifiable(Affected)
        /\ checked' = Verified(Affected).checked
        /\ ranges' = [p \in Path |-> IF p \in Affected /\ ~checked'[p] THEN 0 ELSE ranges[p]]
        /\ step' = "select"
  /\ UNCHANGED <<tree, restored, rows, mode, hashes, unread, answer>>

-----------------------------------------------------------------------------
(* Symbols                                                                 *)

\* candidateOverlaps: with ranges of the content that was indexed it finds
\* the changed symbols, which here may be any; with others it finds any too.
SelectChanged(found) ==
  /\ step = "select"
  /\ found \subseteq {s \in Symbol : ranges[Home[s]] # 0 /\ rows[Home[s]] # 0}
  /\ answer' = [answer EXCEPT !.changed = found]
  /\ step' = "relate"
  /\ UNCHANGED <<tree, restored, rows, mode, ranges, hashes, unread, checked>>

\* impactRelationCandidates: who refers to a changed symbol, and who imports
\* a file of one; nobody further away.
RelatedSymbols(changed) ==
  {s \in Symbol : \E t \in Symbol, k \in {"calls", "tests", "imports"} :
     /\ <<s, t, k>> \in Refs
     /\ \/ t \in changed
        \/ k = "imports" /\ \E c \in changed : Home[c] = Home[t]}

\* Sources of relations are verified like changed files; changed symbols are
\* not related ones too.
Relate ==
  LET related == {s \in RelatedSymbols(answer.changed) : rows[Home[s]] # 0}
      homes == {Home[s] : s \in related}
  IN /\ step = "relate"
     /\ \/ /\ Refuse(homes)
           /\ UNCHANGED <<checked, answer>>
        \/ /\ Verifiable(homes)
           /\ checked' = Verified(homes).checked
           /\ answer' = [answer EXCEPT !.related =
                           {s \in related : checked'[Home[s]]} \ answer.changed]
           /\ step' = "rank"
     /\ UNCHANGED <<tree, restored, rows, mode, ranges, hashes, unread>>

-----------------------------------------------------------------------------
(* The order of an answer                                                  *)

Candidates == answer.changed \cup answer.related

\* The score of a changed symbol is 25, and 15 for the change; that of a
\* related one is 12.  The question has no words, so nothing else adds to it.
Score(s) == (IF s \in answer.changed THEN 40 ELSE 12) - Penalty[s]

\* rankCandidates: by score; what decides among equals does not matter here.
ByScore(ranking) ==
  \A i, j \in DOMAIN ranking : i < j => Score(ranking[i]) >= Score(ranking[j])

Above(ranking, s, t) == \E i, j \in DOMAIN ranking : i < j /\ ranking[i] = s /\ ranking[j] = t

\* An outline that no relation led to, when its file has something specific.
Idle(s) ==
  /\ s \in Outline /\ s \in answer.changed
  /\ \E t \in Candidates : Home[t] = Home[s] /\ t \notin Outline

\* Deduplicate: of what is alike the first of the ranking is kept.
Deduplicated(ranking, kept) ==
  \A s \in Candidates :
    s \in kept <=> ~Idle(s) /\ \A t \in kept : Above(ranking, t, s) => <<t, s>> \notin Alike

\* Faulty variant: without the sort the ranking decides.
RankedOrder(order, ranking) ==
  \A i, j \in DOMAIN order : i < j => Above(ranking, order[i], order[j])

\* sort.SliceStable: changed symbols go before others, and nothing else moves.
ChangedFirst(order, ranking) ==
  \A i, j \in DOMAIN order :
    i < j => \/ order[i] \in answer.changed /\ order[j] \notin answer.changed
             \/ /\ order[i] \in answer.changed <=> order[j] \in answer.changed
                /\ Above(ranking, order[i], order[j])

\* RankWithPlan, the stable sort, the limit.
Rank ==
  /\ step = "rank"
  /\ \E ranking \in SetToSeqs(Candidates) :
       /\ ByScore(ranking)
       /\ \E kept \in SUBSET Candidates :
            /\ Deduplicated(ranking, kept)
            /\ \E order \in SetToSeqs(kept) :
                 /\ ChangedFirst(order, ranking)
                 /\ answer' = [answer EXCEPT !.order =
                                 SubSeq(order, 1, Min({Len(order), MaxCandidates}))]
  /\ step' = "answered"
  /\ UNCHANGED <<tree, restored, rows, mode, ranges, hashes, unread, checked>>

-----------------------------------------------------------------------------

Done == step \in Ended /\ UNCHANGED vars

Next ==
  \/ \E p \in Path, new \in Content : Edit(p, new)
  \/ ReadDiff \/ NoRepository
  \/ \E p \in Path : ScanFile(p)
  \/ NothingAffected
  \/ Verify
  \/ \E found \in SUBSET Symbol : SelectChanged(found)
  \/ Relate \/ Rank
  \/ Done

Spec == Init /\ [][Next]_vars

-----------------------------------------------------------------------------
(* Properties                                                              *)

TypeOK ==
  /\ tree \in [Path -> Content] /\ rows \in [Path -> Content]
  /\ ranges \in [Path -> Content] /\ hashes \in [Path -> Content \cup {Unread}]
  /\ restored \subseteq Path
  /\ mode \in Comparisons
  /\ step \in {"diff", "scan", "verify", "select", "relate", "rank"} \cup Ended
  /\ unread \subseteq Path
  /\ DOMAIN checked \subseteq Path
  /\ answer.changed \subseteq Symbol /\ answer.related \subseteq Symbol

Named == ToSet(answer.order)

\* What an answer names comes from rows the scan confirmed, and what it calls
\* changed from line ranges of the same content as those rows, although git,
\* the scanner and the index were read at different moments.  One edit goes
\* unnoticed, for the hashes are compared with the index and never with the
\* diff: one that puts the indexed content back after git has read the file
\* and before the scanner does (evidence.go 239, impact_freshness.go 63).
OneContent ==
  step = "answered" =>
    \A s \in Named :
      /\ rows[Home[s]] = hashes[Home[s]]
      /\ s \in answer.changed => ranges[Home[s]] = rows[Home[s]] \/ Home[s] \in restored

\* Without that exception the code does not have it.
RangesAreOfTheRows ==
  step = "answered" => \A s \in Named \cap answer.changed : ranges[Home[s]] = rows[Home[s]]

\* A changed symbol is left out only if changed ones alone use up the limit,
\* if a changed one of the same text or lines is there for it, or for two
\* reasons that Deduplicate has before the changed ones are sorted to the
\* front: it is an outline and its file has something specific, or it is a test
\* or documentation and what is related to it has the same text or lines and
\* ranks higher (evidence.go 300-315, rank.go 100-126, rank.go 198-234).
ChangedGiveWayToChanged ==
  step = "answered" =>
    \A s \in answer.changed \ Named :
      \/ Len(answer.order) = MaxCandidates /\ Named \subseteq answer.changed
      \/ \E t \in Named \cap answer.changed : <<t, s>> \in Alike
      \/ Idle(s)
      \/ \E t \in answer.related : <<t, s>> \in Alike /\ Penalty[s] >= Penalty[t] + 28

\* Without those reasons the code does not have it.
ChangedAreNotDisplaced ==
  step = "answered" =>
    \A s \in answer.changed \ Named :
      \/ Named \subseteq answer.changed /\ Len(answer.order) = MaxCandidates
      \/ \E t \in Named \cap answer.changed : <<t, s>> \in Alike

=============================================================================

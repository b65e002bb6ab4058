--------------------------- MODULE FocusedSegments --------------------------
(***************************************************************************)
(* focusedSegments: the excerpt of a candidate's source that an evidence   *)
(* item shows, windows around the lines that match the query and the head  *)
(* of the declaration, with what lies between them named as omitted.       *)
(* Lines are numbered from 0 here, as the code does before absoluteLines.  *)
(***************************************************************************)
EXTENDS Integers, Sequences, FiniteSets, FiniteSetsExt, SequencesExt

CONSTANTS
  Lengths,    \* how many lines the source may have
  Openings,   \* the line with the first "{" or ":", if it has one
  Scores,     \* how many terms of the query a line matches
  MaxMatches  \* bound: how many lines match

VARIABLES
  length,     \* lines of the source; 0 before there is one
  opening,    \* the first line that opens a block
  score       \* of each line that matches

text == <<length, opening, score>>

SourceLine == 0 .. length - 1

Window(first, last, s) == [start |-> first, end |-> last, score |-> s]

\* Two lines before a match and four after it.
WindowOf(i) == Window(Max({0, i - 2}), Min({length - 1, i + 4}), score[i])

EarlierFirst(a, b) == a.start < b.start
BetterFirst(a, b) == a.score > b.score \/ (a.score = b.score /\ a.start < b.start)

Join(a, b) == Window(Min({a.start, b.start}), Max({a.end, b.end}), Max({a.score, b.score}))

\* mergeWindows: windows in order of their first lines, those at most three
\* lines apart as one.
MergeWindows(ordered) ==
  LET Add(out, w) == IF out # <<>> /\ w.start - Last(out).end <= 3
                     THEN Append(Front(out), Join(Last(out), w)) ELSE Append(out, w)
  IN FoldLeft(Add, <<>>, ordered)

\* addOrMergeWindow: into the first selected window that is near.
AddOrMergeWindow(selected, w) ==
  LET near == {k \in DOMAIN selected : w.start - selected[k].end <= 3 /\ selected[k].start - w.end <= 3}
  IN IF near = {} THEN Append(selected, w)
     ELSE [selected EXCEPT ![Min(near)] = Join(@, w)]

\* declarationPrefixEnd.
PrefixEnd == LET limit == Min({5, length - 1}) IN Min({limit, opening})

\* Nothing uses the score of what is selected.
Prefix == Window(0, PrefixEnd, 0)

\* The windows, best first; no more once three are selected.
Selected ==
  LET matches == SetToSortSeq(DOMAIN score, <)
      hits == SortSeq(MergeWindows([k \in DOMAIN matches |-> WindowOf(matches[k])]), BetterFirst)
      Choose(selected, w) == IF Len(selected) = 3 THEN selected ELSE AddOrMergeWindow(selected, w)
  IN FoldLeft(Choose, <<Prefix>>, hits)

\* Faulty variant: the first matches, whatever their scores.
WindowsInOrder ==
  LET matches == SetToSortSeq(DOMAIN score, <)
      hits == MergeWindows([k \in DOMAIN matches |-> WindowOf(matches[k])])
      Choose(selected, w) == IF Len(selected) = 3 THEN selected ELSE AddOrMergeWindow(selected, w)
  IN MergeWindows(SortSeq(FoldLeft(Choose, <<Prefix>>, hits), EarlierFirst))

Windows == MergeWindows(SortSeq(Selected, EarlierFirst))

Segment(kind, first, last) == [kind |-> kind, first |-> first, last |-> last]
Gap(first, last) == IF first <= last THEN <<Segment("omitted", first, last)>> ELSE <<>>

\* focusedSegments, its last part.
Segments ==
  LET Show(out, w) == [segments |-> out.segments \o Gap(out.cursor, w.start - 1)
                                      \o <<Segment("source", w.start, w.end)>>,
                       cursor |-> w.end + 1]
      shown == FoldLeft(Show, [segments |-> <<>>, cursor |-> 0], Windows)
  IN shown.segments \o Gap(shown.cursor, length - 1)

-----------------------------------------------------------------------------
NoText == length = 0 /\ opening = 0 /\ score = <<>>

\* A source of so many lines, none of which matches yet.
Source(n, o) ==
  /\ length = 0
  /\ length' = n /\ opening' = o
  /\ score' = <<>>

\* A line further down matches.
Match(i, s) ==
  /\ length > 0 /\ Cardinality(DOMAIN score) < MaxMatches
  /\ \A j \in DOMAIN score : j < i
  /\ score' = [j \in DOMAIN score \cup {i} |-> IF j = i THEN s ELSE score[j]]
  /\ UNCHANGED <<length, opening>>

NextText ==
  \/ \E n \in Lengths, o \in Openings : Source(n, o)
  \/ \E i \in SourceLine, s \in Scores : Match(i, s)

-----------------------------------------------------------------------------
(* Properties                                                              *)

\* The segments are the source from its first line to its last, each line
\* once, in at most three excerpts with something omitted between any two
\* (segments.go 50-77, 178).
SegmentsTile(segments) ==
  length > 0 =>
    /\ segments[1].first = 0 /\ Last(segments).last = length - 1
    /\ \A k \in DOMAIN segments : segments[k].first <= segments[k].last
    /\ \A k \in 1 .. Len(segments) - 1 :
         segments[k + 1].first = segments[k].last + 1 /\ segments[k + 1].kind # segments[k].kind
    /\ Cardinality({k \in DOMAIN segments : segments[k].kind = "source"}) \in 1 .. 3

\* The head of the declaration is shown, and so is the best match, with the
\* lines around it, wherever it is (segments.go 44-61).
BestMatchIsShown(segments) ==
  length > 0 =>
    LET shown == UNION {segments[k].first .. segments[k].last : k \in {j \in DOMAIN segments : segments[j].kind = "source"}}
        best == {i \in DOMAIN score : \A j \in DOMAIN score : score[j] <= score[i]}
    IN /\ 0 .. PrefixEnd \subseteq shown
       /\ best # {} => WindowOf(Min(best)).start .. WindowOf(Min(best)).end \subseteq shown

\* Focused source is the source with gaps, and the gaps are not where the
\* matches are.
SegmentsShowTheMatch == LET segments == Segments IN SegmentsTile(segments) /\ BestMatchIsShown(segments)

=============================================================================

---------------------------- MODULE RangeMapping ----------------------------
(***************************************************************************)
(* HistoryLine ranges of a comparison of two commits, followed into the working   *)
(* tree: what git prints with --unified=0, ParseUnifiedZeroDiff and        *)
(* MapRangesToWorktree.                                                    *)
(*                                                                         *)
(* A file's history is a sequence of lines in the order they have in every *)
(* version; a line is the set of the versions it is in ("base", "head",    *)
(* "tree").  Text plays no part: a changed line is one line gone and one   *)
(* new.                                                                    *)
(***************************************************************************)
EXTENDS Integers, Sequences, FiniteSets, FiniteSetsExt, SequencesExt

CONSTANT MaxLines  \* bound: the length of the history

VARIABLE history

Version == {"base", "head", "tree"}
HistoryLine == (SUBSET Version) \ {{}}

LineRange(first, last) == [first |-> first, last |-> last]
Covered(ranges) == UNION {r.first .. r.last : r \in ranges}

-----------------------------------------------------------------------------
(* What git prints                                                         *)

\* Lines of version v among the first i of the history.
Number(v, i) == Cardinality({j \in 1 .. i : v \in history[j]})

LastLine(v) == Number(v, Len(history))

\* A hunk is what lies between two neighbouring lines both versions have;
\* without lines of its own on a side it is placed behind the line before.
Hunk(from, to, i, j) ==
  LET gone == Number(from, j - 1) - Number(from, i)
      new == Number(to, j - 1) - Number(to, i)
  IN [oldStart |-> Number(from, i) + (IF gone = 0 THEN 0 ELSE 1),
      oldCount |-> gone,
      newStart |-> Number(to, i) + (IF new = 0 THEN 0 ELSE 1),
      newCount |-> new]

Hunks(from, to) ==
  LET kept == {i \in 1 .. Len(history) : {from, to} \subseteq history[i]}
      bound == SetToSortSeq(kept \cup {0, Len(history) + 1}, <)
      all == [k \in 1 .. Len(bound) - 1 |->
                Hunk(from, to, bound[k], bound[k + 1])]
  IN SelectSeq(all, LAMBDA h : h.oldCount + h.newCount > 0)

-----------------------------------------------------------------------------
(* ParseUnifiedZeroDiff                                                    *)

\* Faulty variant: a deletion changes no line.
DeletionsUnseen(hunk, kind) == {r \in {LineRange(hunk.newStart, hunk.newStart + hunk.newCount - 1)} : hunk.newCount > 0}

\* The new lines of a hunk; for a deletion the line that stands before it,
\* and the first for one at the top of a file.
NewRange(hunk, kind) ==
  IF hunk.newCount > 0 THEN {LineRange(hunk.newStart, hunk.newStart + hunk.newCount - 1)}
  ELSE IF kind # "delete" /\ hunk.oldCount > 0
       THEN LET anchor == Max({1, hunk.newStart}) IN {LineRange(anchor, anchor)}
  ELSE {}

ParseUnifiedZeroDiff(hunks, kind) == UNION {NewRange(hunks[k], kind) : k \in DOMAIN hunks}

-----------------------------------------------------------------------------
(* mapLineRanges                                                           *)

\* An insertion stands behind the line git names.
EditStart(edit) == edit.oldStart + (IF edit.oldCount = 0 THEN 1 ELSE 0)
NewBoundary(edit) == edit.newStart + (IF edit.newCount = 0 THEN 1 ELSE 0)

Shift(edit) == edit.newCount - edit.oldCount

\* The edits are in order, do not overlap, and add up.
Consistent(edits) ==
  LET Check(seen, edit) ==
        [ok |-> /\ seen.ok
                /\ EditStart(edit) >= 1 /\ NewBoundary(edit) >= 1
                /\ EditStart(edit) >= seen.end
                /\ NewBoundary(edit) = EditStart(edit) + seen.delta,
         end |-> EditStart(edit) + edit.oldCount,
         delta |-> seen.delta + Shift(edit)]
  IN FoldLeft(Check, [ok |-> TRUE, end |-> 0, delta |-> 0], edits).ok

\* add: a range that is not empty, from line 1 on.
Lines(first, last) == {r \in {LineRange(Max({1, first}), last)} : r.first <= r.last}

\* Faulty variant: only insertions move what follows.
ShiftOfInsertion(at, edit) == at.offset + (IF edit.oldCount = 0 THEN edit.newCount ELSE 0)

OffsetBehind(at, edit) == at.offset + Shift(edit)

\* An edit the range reaches: what lies before it keeps its distance, an
\* insertion counts when it is inside, a replacement counts whole, and of a
\* deletion the line before remains.
ApplyEdit(r, at, edit) ==
  LET start == EditStart(edit)
      end == start + edit.oldCount
      anchor == Max({1, edit.newStart})
      kept == IF at.cursor < start THEN Lines(at.cursor + at.offset, start - 1 + at.offset) ELSE {}
      new == Lines(edit.newStart, edit.newStart + edit.newCount - 1)
  IN IF at.done \/ start > r.last THEN [at EXCEPT !.done = TRUE]
     ELSE IF edit.oldCount > 0 /\ end <= at.cursor
       THEN [at EXCEPT !.offset = OffsetBehind(at, edit)]
     ELSE IF edit.oldCount = 0
       THEN [cursor |-> Max({at.cursor, start}), offset |-> OffsetBehind(at, edit),
             out |-> at.out \cup kept \cup (IF start > r.first THEN new ELSE {}), done |-> FALSE]
     ELSE [cursor |-> Max({at.cursor, end}), offset |-> OffsetBehind(at, edit),
           out |-> at.out \cup kept \cup (IF edit.newCount > 0 THEN new ELSE Lines(anchor, anchor)),
           done |-> Max({at.cursor, end}) > r.last]

MapRange(r, edits) ==
  LET at == FoldLeft(LAMBDA a, edit : ApplyEdit(r, a, edit),
                     [cursor |-> r.first, offset |-> 0, out |-> {}, done |-> FALSE], edits)
  IN at.out \cup (IF at.cursor <= r.last THEN Lines(at.cursor + at.offset, r.last + at.offset) ELSE {})

ByFirstLine(a, b) == a.first < b.first \/ (a.first = b.first /\ a.last < b.last)

\* Ranges that overlap or touch become one.
Coalesced(ranges) ==
  LET Join(out, r) ==
        IF out # <<>> /\ r.first <= Last(out).last + 1
        THEN Front(out) \o <<LineRange(Last(out).first, Max({Last(out).last, r.last}))>>
        ELSE Append(out, r)
  IN FoldLeft(Join, <<>>, SetToSortSeq(ranges, ByFirstLine))

MapLineRanges(ranges, edits) == Coalesced(UNION {MapRange(r, edits) : r \in ranges})

-----------------------------------------------------------------------------
(* DiffForImpact: base and head given, or only base                        *)

ChangedInHead == ParseUnifiedZeroDiff(Hunks("base", "head"), "modify")
EditsSince == Hunks("head", "tree")
ImpactRanges == MapLineRanges(ChangedInHead, EditsSince)
OneRefRanges == ParseUnifiedZeroDiff(Hunks("base", "tree"), "modify")

-----------------------------------------------------------------------------
NoHistory == history = <<>>

NextLine(line) ==
  /\ Len(history) < MaxLines
  /\ history' = Append(history, line)

NextHistory == \E line \in HistoryLine : NextLine(line)

-----------------------------------------------------------------------------
(* What the ranges are for                                                 *)

\* Lines that head and tree have.
Survivors == {i \in 1 .. Len(history) : {"head", "tree"} \subseteq history[i]}

\* A symbol of the tree, by the history lines it begins and ends with.
Reached(first, last, ranges) ==
  \E r \in ranges : Number("tree", first) <= r.last /\ Number("tree", last) >= r.first

\* The versions from and to differ between two lines of a symbol that both of
\* them and the tree have.
ChangedInside(from, to, first, last) ==
  \E i \in first .. last : (from \in history[i]) # (to \in history[i])

\* No symbol is missed that begins and ends with lines that head and tree
\* have, and that base and head, or base and tree, differ inside of; whatever
\* the tree did since to the changed lines and to those around them
\* (range_mapping.go 26-42, 121).
ChangedSymbolsAreFound(impact) ==
  LET oneRef == OneRefRanges
  IN \A first, last \in Survivors :
       /\ first <= last /\ ChangedInside("base", "head", first, last) => Reached(first, last, impact)
       /\ first <= last /\ ChangedInside("base", "tree", first, last) => Reached(first, last, oneRef)

\* A line of the head that changed and is still there is in the ranges; a
\* line is in them for nothing but a change of the head: it was changed, it
\* is new in a place where the tree changed such a line, or it stands before
\* one that is gone.
ChangedLinesAreMapped(impact) ==
  LET ranges == Covered(impact)
      inHead == ChangedInHead
      changed == Covered(inHead)
      edits == EditsSince
      \* hunks of the tree's edits that reach a changed line of the head
      Touched == {k \in DOMAIN edits : \E r \in inHead :
                    LET from == edits[k].oldStart IN
                    IF edits[k].oldCount = 0 THEN {from, from + 1} \subseteq r.first .. r.last
                    ELSE (from .. from + edits[k].oldCount - 1) \cap (r.first .. r.last) # {}}
      new == Covered(UNION {NewRange(edits[k], "modify") : k \in Touched})
      survived == {Number("tree", i) : i \in {j \in Survivors : Number("head", j) \in changed}}
  IN LastLine("head") > 0 => ranges = survived \cup new

\* What git prints is never refused, and the ranges come out in order, apart
\* from each other, none empty.
RangesAreInOrder(out) ==
  /\ Consistent(EditsSince)
  /\ \A k \in DOMAIN out : out[k].first <= out[k].last /\ 1 <= out[k].first
  /\ \A k \in 1 .. Len(out) - 1 : out[k].last + 1 < out[k + 1].first

\* The ranges of an impact answer are the changed lines, as git counts them
\* now, whatever the tree did since, and reach every symbol that a change is
\* inside of (range_mapping.go 26-210).
ChangesAreLocated ==
  LET ranges == ImpactRanges
  IN ChangedSymbolsAreFound(ToSet(ranges)) /\ ChangedLinesAreMapped(ToSet(ranges)) /\ RangesAreInOrder(ranges)

=============================================================================

------------------------------ MODULE Ordering ------------------------------
(***************************************************************************)
(* sort.Slice and sort.SliceStable, as the code uses them: by an order     *)
(* that tells all elements apart, if need be by their places.              *)
(***************************************************************************)
EXTENDS Integers, Sequences, FiniteSets, FiniteSetsExt

\* The elements of S by how many of them come before each.
Ordered(S, before) ==
  [k \in 1 .. Cardinality(S) |-> CHOOSE x \in S : Cardinality({y \in S : <<y, x>> \in before}) = k - 1]

Sorted(S, Before(_, _)) == Ordered(S, {p \in S \X S : Before(p[1], p[2])})

\* What a loop that skips the others keeps of a sequence, in its order.
Those(seq, kept) ==
  LET places == Sorted({k \in DOMAIN seq : seq[k] \in kept}, LAMBDA i, j : i < j)
  IN [k \in DOMAIN places |-> seq[places[k]]]

FirstOf(seq, n) == SubSeq(seq, 1, Min({n, Len(seq)}))

=============================================================================

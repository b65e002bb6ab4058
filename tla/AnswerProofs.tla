---------------------------- MODULE AnswerProofs ----------------------------
(***************************************************************************)
(* Proofs about the answers of the services, for any inputs: an impact     *)
(* answer speaks of one content and is cut where it may be, a bundle       *)
(* accounts for every candidate, a packet tells the truth of itself and    *)
(* shows its target, its compact form is read back as the packet, and a    *)
(* session of questions reads all there is, once.                          *)
(*                                                                         *)
(* The algorithms are folds.  A fold of the library is a recursion over    *)
(* subsets of the places of a sequence (MapThenFoldSet), so a fold is      *)
(* taken apart into the values f[0], f[1], ... it goes through             *)
(* (SequenceRecursion, StepByStep), and what is true of these is carried   *)
(* from one to the next (UpTo).                                            *)
(***************************************************************************)
EXTENDS ImpactRead, ContextPacker, EvidenceCompiler, ContextV2, FiniteSetTheorems, FunctionTheorems,
        WellFoundedInduction, TLAPS

-----------------------------------------------------------------------------
(* Least elements, and lists in an order                                   *)

\* A non-empty set of numbers has a least one.
LEMMA LeastOf ==
  ASSUME NEW T \in SUBSET Nat, T # {}
  PROVE  \E x \in T : \A y \in T : x <= y
  <1> DEFINE R == {ss \in Nat \X Nat : ss[1] < ss[2]}
  <1>1. IsWellFoundedOn(R, Nat)
    BY NatLessThanWellFounded DEF OpToRel
  <1>2. PICK x \in T : \A y \in T : ~ (<<y, x>> \in R)
    <2>1. T \subseteq Nat
      OBVIOUS
    <2> HIDE DEF R
    <2> QED BY <1>1, <2>1, WFMin
  <1>3. \A y \in T : ~ (y < x)
    BY <1>2
  <1> QED BY <1>3

\* What holds of 0 and is kept from each number to the next holds up to n.
LEMMA UpTo ==
  ASSUME NEW n \in Nat, NEW S, 0 \in S, \A k \in 1 .. n : k - 1 \in S => k \in S
  PROVE  0 .. n \subseteq S /\ n \in S
  <1> DEFINE T == (0 .. n) \ S
  <1> SUFFICES ASSUME T # {} PROVE FALSE
    OBVIOUS
  <1>1. PICK x \in T : \A y \in T : x <= y
    <2>1. T \in SUBSET Nat
      OBVIOUS
    <2> HIDE DEF T
    <2> QED BY <2>1, LeastOf
  <1>2. x \in 1 .. n /\ x - 1 \in 0 .. n
    BY <1>1
  <1>3. x - 1 \notin T
    BY <1>1, <1>2
  <1> QED BY <1>1, <1>2, <1>3

\* A non-empty finite set has a best element, if any two compare.
LEMMA BestOf ==
  ASSUME NEW S, IsFiniteSet(S), S # {}, NEW R,
         \A x, y \in S : <<x, y>> \in R \/ <<y, x>> \in R,
         \A x, y, z \in S : <<x, y>> \in R /\ <<y, z>> \in R => <<x, z>> \in R
  PROVE  \E x \in S : \A y \in S : <<x, y>> \in R
  <1> DEFINE Best(T) == \E x \in T : \A y \in T : <<x, y>> \in R
             Sizes == {k \in 0 .. Cardinality(S) : \A T \in SUBSET S : Cardinality(T) = k /\ T # {}
                      => Best(T)}
  <1>1. Cardinality(S) \in Nat /\ \A T \in SUBSET S : IsFiniteSet(T) /\ Cardinality(T) \in Nat
    BY FS_CardinalityType, FS_Subset
  <1>2. 0 \in Sizes
    BY <1>1, FS_EmptySet
  <1>3. ASSUME NEW k \in 1 .. Cardinality(S), k - 1 \in Sizes PROVE k \in Sizes
    <2> SUFFICES ASSUME NEW T \in SUBSET S, Cardinality(T) = k, T # {} PROVE Best(T)
      BY <1>1
    <2>1. PICK t \in T : TRUE
      OBVIOUS
    <2>2. CASE T \ {t} = {}
      BY <2>1, <2>2
    <2>3. CASE T \ {t} # {}
      <3>1. Cardinality(T \ {t}) = k - 1 /\ T \ {t} \in SUBSET S
        BY <1>1, <2>1, FS_RemoveElement
      <3>2. PICK x \in T \ {t} : \A y \in T \ {t} : <<x, y>> \in R
        BY <1>3, <2>3, <3>1
      <3>3. CASE <<x, t>> \in R
        BY <3>2, <3>3
      <3>4. CASE <<t, x>> \in R
        <4>1. \A y \in T : <<t, y>> \in R
          BY <2>1, <3>2, <3>4
        <4> QED BY <2>1, <4>1
      <3> QED BY <2>1, <3>2, <3>3, <3>4
    <2> QED BY <2>2, <2>3
  <1>4. Cardinality(S) \in Sizes
    <2> HIDE DEF Sizes
    <2> QED BY <1>1, <1>2, <1>3, UpTo
  <1> QED BY <1>4

\* The largest of a set of numbers, as its maximum says.
LEMMA MaxOfSet ==
  ASSUME NEW s \in SUBSET Int, IsFiniteSet(s), s # {}
  PROVE  Max(s) \in s /\ \A y \in s : y <= Max(s)
  <1> DEFINE R == {p \in s \X s : p[1] >= p[2]}
  <1>1. \E x \in s : \A y \in s : <<x, y>> \in R
    <2>1. /\ \A x, y \in s : <<x, y>> \in R \/ <<y, x>> \in R
          /\ \A x, y, z \in s : <<x, y>> \in R /\ <<y, z>> \in R => <<x, z>> \in R
      OBVIOUS
    <2> HIDE DEF R
    <2> QED BY <2>1, BestOf
  <1> QED BY <1>1 DEF Max

\* The smallest of a set of numbers, as its minimum says.
LEMMA MinOfSet ==
  ASSUME NEW s \in SUBSET Int, IsFiniteSet(s), s # {}
  PROVE  Min(s) \in s /\ \A y \in s : Min(s) <= y
  <1> DEFINE R == {p \in s \X s : p[1] <= p[2]}
  <1>1. \E x \in s : \A y \in s : <<x, y>> \in R
    <2>1. /\ \A x, y \in s : <<x, y>> \in R \/ <<y, x>> \in R
          /\ \A x, y, z \in s : <<x, y>> \in R /\ <<y, z>> \in R => <<x, z>> \in R
      OBVIOUS
    <2> HIDE DEF R
    <2> QED BY <2>1, BestOf
  <1> QED BY <1>1 DEF Min

\* The smaller and the larger of two numbers.
LEMMA PairsHaveEnds ==
  ASSUME NEW a \in Int, NEW b \in Int
  PROVE  /\ Min({a, b}) = a \/ Min({a, b}) = b
         /\ Min({a, b}) <= a /\ Min({a, b}) <= b
         /\ Max({a, b}) = a \/ Max({a, b}) = b
         /\ a <= Max({a, b}) /\ b <= Max({a, b})
  <1> DEFINE T == {a, b}
  <1>1. IsFiniteSet({a}) /\ T = {a} \cup {b}
    BY FS_Singleton
  <1>2. T \in SUBSET Int /\ T # {} /\ a \in T /\ b \in T /\ \A x \in T : x = a \/ x = b
    OBVIOUS
  <1>3. IsFiniteSet(T)
    <2> HIDE DEF T
    <2> QED BY <1>1, FS_AddElement
  <1> HIDE DEF T
  <1>4. Min(T) \in T /\ \A y \in T : Min(T) <= y
    BY <1>2, <1>3, MinOfSet
  <1>5. Max(T) \in T /\ \A y \in T : y <= Max(T)
    BY <1>2, <1>3, MaxOfSet
  <1> QED BY <1>2, <1>4, <1>5 DEF T

\* Ordered lists S, each element once, in its order.
LEMMA OrderedIs ==
  ASSUME NEW S, IsFiniteSet(S), NEW B,
         \A x, y \in S : x # y => <<x, y>> \in B \/ <<y, x>> \in B,
         \A x, y \in S : <<x, y>> \in B => <<y, x>> \notin B,
         \A x, y, z \in S : <<x, y>> \in B /\ <<y, z>> \in B => <<x, z>> \in B
  PROVE  /\ Ordered(S, B) \in Seq(S) /\ Len(Ordered(S, B)) = Cardinality(S)
         /\ \A x \in S : \E k \in DOMAIN Ordered(S, B) : Ordered(S, B)[k] = x
         /\ \A i, j \in DOMAIN Ordered(S, B) : i < j => <<Ordered(S, B)[i], Ordered(S, B)[j]>> \in B
  <1> DEFINE n == Cardinality(S)
             Before(x) == {y \in S : <<y, x>> \in B}
             Place(x) == Cardinality(Before(x))
             f == Ordered(S, B)
             rank == [x \in S |-> Place(x)]
  <1>1. n \in Nat /\ \A T \in SUBSET S : IsFiniteSet(T) /\ Cardinality(T) \in Nat /\ Cardinality(T) <= n
    BY FS_CardinalityType, FS_Subset
  <1>2. ASSUME NEW x \in S, NEW z \in S, <<x, z>> \in B
        PROVE  Place(x) < Place(z)
    <2>1. Before(x) \cup {x} \subseteq Before(z) /\ x \notin Before(x)
      BY <1>2
    <2> HIDE DEF Before
    <2>2. Before(x) \in SUBSET S /\ Before(z) \in SUBSET S
      BY DEF Before
    <2>3. Cardinality(Before(x) \cup {x}) = Place(x) + 1
      BY <1>1, <2>1, <2>2, FS_AddElement
    <2>4. Cardinality(Before(x) \cup {x}) <= Place(z)
      BY <1>1, <2>1, <2>2, FS_Subset
    <2> QED BY <1>1, <2>2, <2>3, <2>4
  <1>3. ASSUME NEW x \in S PROVE Place(x) \in 0 .. n - 1
    <2>1. Before(x) \cup {x} \in SUBSET S /\ x \notin Before(x)
      OBVIOUS
    <2> HIDE DEF Before
    <2>2. Before(x) \in SUBSET S
      BY DEF Before
    <2>3. Cardinality(Before(x) \cup {x}) = Place(x) + 1
      BY <1>1, <2>1, <2>2, FS_AddElement
    <2>4. Cardinality(Before(x) \cup {x}) <= n
      BY <1>1, <2>1
    <2> QED BY <1>1, <2>2, <2>3, <2>4
  <1>4. \A x, z \in S : Place(x) = Place(z) => x = z
    <2> SUFFICES ASSUME NEW x \in S, NEW z \in S, Place(x) = Place(z), x # z PROVE FALSE
      OBVIOUS
    <2>1. Place(x) < Place(z) \/ Place(z) < Place(x)
      <3> HIDE DEF Place
      <3> QED BY <1>2
    <2>2. Place(x) \in Int /\ Place(z) \in Int
      <3> HIDE DEF Place
      <3> QED BY <1>1, <1>3
    <2> HIDE DEF Place
    <2> QED BY <2>1, <2>2
  <1> HIDE DEF Place
  <1>5. \A k \in 0 .. n - 1 : \E x \in S : Place(x) = k
    <2>1. rank \in Injection(S, 0 .. n - 1)
      <3>1. rank \in [S -> 0 .. n - 1] /\ \A x \in S : rank[x] = Place(x)
        BY <1>3
      <3> HIDE DEF rank, n
      <3>2. \A x, z \in S : rank[x] = rank[z] => x = z
        BY <1>4, <3>1
      <3> QED BY <3>1, <3>2 DEF Injection, IsInjective
    <2>2. IsFiniteSet(0 .. n - 1) /\ Cardinality(0 .. n - 1) = n
      <3>1. 0 \in Int /\ n - 1 \in Int /\ (n - 1) - 0 + 1 = n /\ (0 > n - 1 <=> n = 0)
        BY <1>1
      <3> HIDE DEF n
      <3> QED BY <3>1, FS_Interval
    <2>3. rank \in Surjection(S, 0 .. n - 1)
      <3> HIDE DEF rank, n
      <3> QED BY <2>1, <2>2, FS_Injection DEF n
    <2> QED BY <2>3 DEF Surjection
  <1> DEFINE Elem(k) == CHOOSE x \in S : Place(x) = k - 1
  <1>6. ASSUME NEW k \in 1 .. n PROVE Elem(k) \in S /\ Place(Elem(k)) = k - 1
    BY <1>1, <1>5
  <1>7. f = [k \in 1 .. n |-> Elem(k)]
    BY DEF Ordered, Place
  <1> HIDE DEF Elem
  <1>8. f \in [1 .. n -> S] /\ \A k \in 1 .. n : f[k] \in S /\ Place(f[k]) = k - 1
    BY <1>6, <1>7
  <1> HIDE DEF f, n
  <1>9. f \in Seq(S) /\ Len(f) = n
    BY <1>1, <1>8
  <1>10. ASSUME NEW x \in S PROVE \E k \in DOMAIN f : f[k] = x
    <2>1. Place(x) + 1 \in 1 .. n /\ (Place(x) + 1) - 1 = Place(x)
      BY <1>1, <1>3
    <2>2. f[Place(x) + 1] \in S /\ Place(f[Place(x) + 1]) = Place(x)
      BY <1>8, <2>1
    <2> QED BY <1>4, <1>8, <2>1, <2>2
  <1>11. ASSUME NEW i \in DOMAIN f, NEW j \in DOMAIN f, i < j PROVE <<f[i], f[j]>> \in B
    <2>1. Place(f[i]) = i - 1 /\ Place(f[j]) = j - 1 /\ f[i] \in S /\ f[j] \in S /\ i \in Int
          /\ j \in Int
      BY <1>1, <1>8
    <2>2. f[i] # f[j]
      BY <1>11, <2>1
    <2>3. ~ (<<f[j], f[i]>> \in B)
      <3> SUFFICES ASSUME <<f[j], f[i]>> \in B PROVE FALSE
        OBVIOUS
      <3>1. Place(f[j]) < Place(f[i])
        BY <1>2, <2>1
      <3> QED BY <1>11, <2>1, <3>1
    <2> QED BY <2>1, <2>2, <2>3
  <1> QED BY <1>9, <1>10, <1>11 DEF f, n

-----------------------------------------------------------------------------
(* Recursion over sequences                                                *)

\* g takes the elements of the subsets of D by h, one after the other; ch says
\* which is the last.
Recursive(g, D, base, h, ch) ==
  \A s \in SUBSET D : g[s] = IF s = {} THEN base ELSE h[<<g[s \ {ch[s]}], ch[s]>>]

\* Such a recursion has a solution.
LEMMA SetRecursion ==
  ASSUME NEW D, IsFiniteSet(D), NEW A, NEW base \in A, NEW h \in [A \X D -> A],
         NEW ch, \A s \in SUBSET D : s # {} => ch[s] \in s
  PROVE  \E g \in [SUBSET D -> A] : Recursive(g, D, base, h, ch)
  <1> DEFINE
        Small(k) == {s \in SUBSET D : Cardinality(s) <= k}
        Of(k, g) == \A s \in Small(k) : g[s] = IF s = {} THEN base ELSE h[<<g[s \ {ch[s]}], ch[s]>>]
        S == {k \in 0 .. Cardinality(D) : \E g \in [Small(k) -> A] : Of(k, g)}
  <1>1. /\ Cardinality(D) \in Nat
        /\ \A s \in SUBSET D : IsFiniteSet(s) /\ Cardinality(s) \in Nat
           /\ Cardinality(s) <= Cardinality(D)
        /\ \A s \in SUBSET D : Cardinality(s) = 0 <=> s = {}
    BY FS_CardinalityType, FS_Subset, FS_EmptySet
  <1>2. \A s \in SUBSET D : s # {} => /\ ch[s] \in D /\ s \ {ch[s]} \in SUBSET D
                                      /\ Cardinality(s \ {ch[s]}) = Cardinality(s) - 1
    BY <1>1, FS_RemoveElement
  <1>3. 0 \in S
    <2> DEFINE g == [s \in Small(0) |-> base]
    <2>1. \A s \in Small(0) : s = {}
      BY <1>1
    <2>2. g \in [Small(0) -> A] /\ Of(0, g)
      BY <2>1
    <2>3. 0 \in 0 .. Cardinality(D)
      BY <1>1
    <2> HIDE DEF g, Of, Small
    <2> QED BY <2>2, <2>3
  <1>4. ASSUME NEW k \in 1 .. Cardinality(D), k - 1 \in S PROVE k \in S
    <2>1. PICK f \in [Small(k - 1) -> A] : Of(k - 1, f)
      BY <1>4
    <2> DEFINE LastPlace(s) == h[<<f[s \ {ch[s]}], ch[s]>>]
               g == [s \in Small(k) |-> IF s \in Small(k - 1) THEN f[s] ELSE LastPlace(s)]
    <2>2. \A s \in Small(k) : s # {} => s \ {ch[s]} \in Small(k - 1) /\ s \ {ch[s]} \in Small(k)
          /\ ch[s] \in D
      BY <1>1, <1>2
    <2>3. {} \in Small(k - 1) /\ Small(k - 1) \subseteq Small(k)
      BY <1>1
    <2> HIDE DEF Small
    <2>4. \A s \in Small(k) : s \notin Small(k - 1) => LastPlace(s) \in A
      BY <2>2, <2>3
    <2>5. g \in [Small(k) -> A] /\ \A s \in Small(k) : g[s] = IF s \in Small(k - 1) THEN f[s]
          ELSE LastPlace(s)
      BY <2>3, <2>4
    <2> HIDE DEF g
    <2>6. ASSUME NEW s \in Small(k)
          PROVE  g[s] = IF s = {} THEN base ELSE h[<<g[s \ {ch[s]}], ch[s]>>]
      BY <2>1, <2>2, <2>3, <2>5
    <2>7. k \in 0 .. Cardinality(D)
      OBVIOUS
    <2> QED BY <2>5, <2>6, <2>7
  <1>5. Cardinality(D) \in S
    <2> HIDE DEF S
    <2> QED BY <1>1, <1>3, <1>4, UpTo
  <1>6. Small(Cardinality(D)) = SUBSET D
    BY <1>1
  <1> QED BY <1>5, <1>6 DEF Recursive

\* The numbers up to n, and sets of them.
LEMMA FirstNumbers ==
  ASSUME NEW n \in Nat
  PROVE  /\ IsFiniteSet(1 .. n) /\ Cardinality(1 .. n) = n
         /\ \A s \in SUBSET (1 .. n) : IsFiniteSet(s) /\ Cardinality(s) \in Nat
            /\ (Cardinality(s) = 0 <=> s = {})
  <1>1. 1 \in Int /\ n \in Int /\ (1 > n <=> n = 0) /\ n - 1 + 1 = n
    OBVIOUS
  <1>2. IsFiniteSet(1 .. n) /\ Cardinality(1 .. n) = n
    BY <1>1, FS_Interval
  <1>3. ASSUME NEW s \in SUBSET (1 .. n)
        PROVE  IsFiniteSet(s) /\ Cardinality(s) \in Nat /\ (Cardinality(s) = 0 <=> s = {})
    <2>1. IsFiniteSet(s)
      BY <1>2, FS_Subset
    <2> QED BY <2>1, FS_CardinalityType, FS_EmptySet
  <1> QED BY <1>2, <1>3

\* The largest of such a set.
LEMMA MaxUpTo ==
  ASSUME NEW n \in Nat, NEW s \in SUBSET (1 .. n), s # {}
  PROVE  Max(s) \in s /\ \A y \in s : y <= Max(s)
  <1>1. IsFiniteSet(s) /\ s \in SUBSET Int
    BY FirstNumbers
  <1> QED BY <1>1, MaxOfSet

\* The first elements of a sequence, the last of which comes last.
LEMMA Chain ==
  ASSUME NEW n \in Nat, NEW k \in 1 .. n
  PROVE  /\ 1 .. k \in SUBSET (1 .. n) /\ 1 .. k # {} /\ 1 .. 0 = {}
         /\ Max(1 .. k) = k /\ (1 .. k) \ {k} = 1 .. k - 1
  <1>1. k \in Nat /\ 1 .. k \in SUBSET (1 .. n) /\ 1 .. k # {} /\ (1 .. k) \ {k} = 1 .. k - 1
        /\ k \in 1 .. k /\ 1 .. 0 = {}
    OBVIOUS
  <1>2. 1 .. k \in SUBSET (1 .. k)
    OBVIOUS
  <1>3. Max(1 .. k) \in 1 .. k /\ \A y \in 1 .. k : y <= Max(1 .. k)
    BY <1>1, <1>2, MaxUpTo
  <1>4. Max(1 .. k) = k
    BY <1>1, <1>3
  <1> QED BY <1>1, <1>4

\* g takes the elements of the subsets of 1 .. n in their order.
Sequential(g, n, A, base, h) ==
  /\ g \in [SUBSET (1 .. n) -> A] /\ g[{}] = base
  /\ \A s \in SUBSET (1 .. n) : s # {} => /\ Max(s) \in 1 .. n /\ g[s \ {Max(s)}] \in A
                                          /\ g[s] = h[<<g[s \ {Max(s)}], Max(s)>>]

\* The recursion by which FoldLeft takes a sequence.
LEMMA SequenceRecursion ==
  ASSUME NEW n \in Nat, NEW A, NEW base \in A, NEW h \in [A \X (1 .. n) -> A]
  PROVE  \E g : Sequential(g, n, A, base, h)
  <1> DEFINE ch == [s \in SUBSET (1 .. n) |-> Max(s)]
  <1>1. \A s \in SUBSET (1 .. n) : s # {} => Max(s) \in s /\ ch[s] = Max(s)
    BY MaxUpTo
  <1> HIDE DEF ch
  <1>2. IsFiniteSet(1 .. n) /\ \A s \in SUBSET (1 .. n) : s # {} => ch[s] \in s
    BY <1>1, FirstNumbers
  <1>3. PICK g \in [SUBSET (1 .. n) -> A] : Recursive(g, 1 .. n, base, h, ch)
    BY <1>2, SetRecursion
  <1>4. g[{}] = base
    BY <1>3 DEF Recursive
  <1>5. ASSUME NEW s \in SUBSET (1 .. n), s # {}
        PROVE  Max(s) \in 1 .. n /\ g[s \ {Max(s)}] \in A /\ g[s] = h[<<g[s \ {Max(s)}], Max(s)>>]
    BY <1>1, <1>3, <1>5 DEF Recursive
  <1> QED BY <1>4, <1>5 DEF Sequential

\* f takes the numbers of 1 .. n one by one.
Steps(f, n, A, base, h, result) ==
  /\ f \in [0 .. n -> A] /\ f[0] = base /\ f[n] = result
  /\ \A k \in 1 .. n : f[k - 1] \in A /\ f[k] = h[<<f[k - 1], k>>]

\* iter does so wherever it is of type A.
Iterates(iter, n, A, h) ==
  /\ iter[{}] \in A
  /\ \A s \in SUBSET (1 .. n) :
       s # {} /\ iter[s \ {Max(s)}] \in A => iter[s] = h[<<iter[s \ {Max(s)}], Max(s)>>]

\* A recursion over the subsets of 1 .. n, read off the first elements.
LEMMA StepByStep ==
  ASSUME NEW n \in Nat, NEW A, NEW h \in [A \X (1 .. n) -> A], NEW iter, Iterates(iter, n, A, h)
  PROVE  \E f : Steps(f, n, A, iter[{}], h, iter[1 .. n])
  <1> DEFINE f == [k \in 0 .. n |-> iter[1 .. k]]
             S == {k \in 0 .. n : iter[1 .. k] \in A}
  <1>1. ASSUME NEW k \in 1 .. n, iter[1 .. k - 1] \in A
        PROVE  iter[1 .. k] = h[<<iter[1 .. k - 1], k>>] /\ iter[1 .. k] \in A
    <2>1. 1 .. k \in SUBSET (1 .. n) /\ 1 .. k # {} /\ Max(1 .. k) = k /\ (1 .. k) \ {k} = 1 .. k - 1
      BY Chain
    <2>2. iter[1 .. k] = h[<<iter[1 .. k - 1], k>>]
      BY <1>1, <2>1 DEF Iterates
    <2> QED BY <1>1, <2>2
  <1>2. 1 .. 0 = {} /\ 0 \in 0 .. n /\ n \in 0 .. n
    OBVIOUS
  <1>3. 0 \in S
    BY <1>2 DEF Iterates
  <1>4. ASSUME NEW k \in 1 .. n, k - 1 \in S PROVE k \in S
    <2>1. k \in 0 .. n
      OBVIOUS
    <2> QED BY <1>1, <1>4, <2>1
  <1>5. 0 .. n \subseteq S
    <2> HIDE DEF S
    <2> QED BY <1>3, <1>4, UpTo
  <1>6. f \in [0 .. n -> A] /\ f[0] = iter[{}] /\ f[n] = iter[1 .. n]
    BY <1>2, <1>5
  <1>7. ASSUME NEW k \in 1 .. n PROVE f[k - 1] \in A /\ f[k] = h[<<f[k - 1], k>>]
    <2>1. k - 1 \in 0 .. n /\ k \in 0 .. n
      OBVIOUS
    <2>2. iter[1 .. k - 1] \in A /\ f[k] = iter[1 .. k] /\ f[k - 1] = iter[1 .. k - 1]
      BY <1>5, <2>1
    <2> HIDE DEF f
    <2> QED BY <1>1, <2>2
  <1> HIDE DEF f
  <1> QED BY <1>6, <1>7 DEF Steps

\* The element that a sum takes next.
Pick(s) == CHOOSE x \in s : TRUE

\* A sum takes the numbers one after the other.
LEMMA SumRecursion ==
  ASSUME NEW n \in Nat, NEW w \in [1 .. n -> Int]
  PROVE  \E g : /\ g[{}] = 0 /\ SumFunction(w) = g[1 .. n]
                /\ \A s \in SUBSET (1 .. n) :
                     s # {} => g[s] = w[Pick(s)] + g[s \ {Pick(s)}]
  <1> DEFINE D == 1 .. n
             ch == [s \in SUBSET D |-> Pick(s)]
             h == [p \in Int \X D |-> w[p[2]] + p[1]]
             Of(g) == g = [s \in SUBSET (DOMAIN w) |-> IF s = {} THEN 0
                      ELSE w[Pick(s)] + g[s \ {Pick(s)}]]
             iter == CHOOSE g : Of(g)
  <1>1. \A s \in SUBSET D : s # {} => Pick(s) \in s /\ ch[s] = Pick(s)
    BY DEF Pick
  <1>2. h \in [Int \X D -> Int] /\ \A a \in Int, x \in D : h[<<a, x>>] = w[x] + a
    OBVIOUS
  <1>3. IsFiniteSet(D) /\ DOMAIN w = D
    BY FirstNumbers
  <1>4. SumFunction(w) = iter[DOMAIN w]
    BY DEF SumFunction, SumFunctionOnSet, FoldFunctionOnSet, MapThenFoldSet, Pick
  <1> HIDE DEF ch, h, D
  <1>5. PICK g \in [SUBSET D -> Int] : Recursive(g, D, 0, h, ch)
    <2>1. 0 \in Int /\ \A s \in SUBSET D : s # {} => ch[s] \in s
      BY <1>1
    <2> QED BY <1>2, <1>3, <2>1, SetRecursion
  <1>6. ASSUME NEW s \in SUBSET D
        PROVE  g[s] = IF s = {} THEN 0 ELSE w[Pick(s)] + g[s \ {Pick(s)}]
    <2>1. CASE s = {}
      BY <1>5, <2>1 DEF Recursive
    <2>2. CASE s # {}
      <3>1. Pick(s) \in D /\ s \ {Pick(s)} \in SUBSET D /\ g[s \ {Pick(s)}] \in Int
        BY <1>1, <2>2
      <3> QED BY <1>1, <1>2, <1>5, <2>2, <3>1 DEF Recursive
    <2> QED BY <2>1, <2>2
  <1>7. Of(iter)
    <2>1. Of(g)
      BY <1>3, <1>5, <1>6
    <2> HIDE DEF Of
    <2> QED BY <2>1
  <1> HIDE DEF iter
  <1>8. iter[{}] = 0
    BY <1>7
  <1>9. \A s \in SUBSET D : s # {} => iter[s] = w[Pick(s)] + iter[s \ {Pick(s)}]
    BY <1>3, <1>7
  <1> QED BY <1>3, <1>4, <1>8, <1>9 DEF D

\* A sum is a number, and no smaller than that of smaller numbers.
LEMMA SumsCompare ==
  ASSUME NEW n \in Nat, NEW w \in [1 .. n -> Int], NEW v \in [1 .. n -> Int],
           \A i \in 1 .. n : w[i] <= v[i]
  PROVE  SumFunction(w) \in Int /\ SumFunction(v) \in Int /\ SumFunction(w) <= SumFunction(v)
  <1> DEFINE D == 1 .. n
  <1>1. PICK g : /\ g[{}] = 0 /\ SumFunction(w) = g[D]
                 /\ \A s \in SUBSET D : s # {} => g[s] = w[Pick(s)] + g[s \ {Pick(s)}]
    BY SumRecursion
  <1>2. PICK f : /\ f[{}] = 0 /\ SumFunction(v) = f[D]
                 /\ \A s \in SUBSET D : s # {} => f[s] = v[Pick(s)] + f[s \ {Pick(s)}]
    BY SumRecursion
  <1>3. \A s \in SUBSET D : s # {} => Pick(s) \in s
    BY DEF Pick
  <1>4. /\ \A s \in SUBSET D : IsFiniteSet(s) /\ Cardinality(s) \in Nat
        /\ \A s \in SUBSET D : Cardinality(s) = 0 => s = {}
    BY FirstNumbers
  <1> HIDE DEF D
  <1> DEFINE Fine(s) == g[s] \in Int /\ f[s] \in Int /\ g[s] <= f[s]
             S == {k \in 0 .. Cardinality(D) : \A s \in SUBSET D : Cardinality(s) = k => Fine(s)}
  <1>5. 0 \in S
    <2>1. Fine({})
      BY <1>1, <1>2
    <2>2. Cardinality(D) \in Nat
      BY FirstNumbers DEF D
    <2>3. 0 \in 0 .. Cardinality(D)
      BY <2>2
    <2>4. ASSUME NEW s \in SUBSET D, Cardinality(s) = 0 PROVE Fine(s)
      <3>1. s = {}
        BY <1>4, <2>4
      <3> QED BY <2>1, <3>1
    <2> HIDE DEF Fine
    <2> QED BY <2>3, <2>4
  <1>6. ASSUME NEW k \in 1 .. Cardinality(D), k - 1 \in S PROVE k \in S
    <2> SUFFICES ASSUME NEW s \in SUBSET D, Cardinality(s) = k PROVE Fine(s)
      BY <1>4
    <2>1. s # {}
      BY FS_EmptySet
    <2>2. Pick(s) \in s /\ Pick(s) \in D /\ s \ {Pick(s)} \in SUBSET D
      BY <1>3, <2>1
    <2>3. Cardinality(s \ {Pick(s)}) = k - 1
      BY <1>4, <2>2, FS_RemoveElement
    <2>4. Fine(s \ {Pick(s)})
      BY <1>6, <2>2, <2>3
    <2>5. w[Pick(s)] \in Int /\ v[Pick(s)] \in Int /\ w[Pick(s)] <= v[Pick(s)]
      BY <2>2 DEF D
    <2>6. g[s] = w[Pick(s)] + g[s \ {Pick(s)}] /\ f[s] = v[Pick(s)] + f[s \ {Pick(s)}]
      BY <1>1, <1>2, <2>1
    <2> QED BY <2>4, <2>5, <2>6
  <1>7. Fine(D)
    <2>1. Cardinality(D) \in S
      <3> HIDE DEF S
      <3> QED BY <1>4, <1>5, <1>6, FirstNumbers, UpTo
    <2> QED BY <2>1
  <1> QED BY <1>1, <1>2, <1>7

-----------------------------------------------------------------------------
(* Impact answers: the inductive invariant                                 *)

\* The shape of an answer.
AnswerInv ==
  answer = [changed |-> answer.changed, related |-> answer.related, order |-> answer.order]

\* What has not been looked at yet, at each step.
ProgressInv ==
  /\ step = "diff" => ranges = None /\ unread = Path
  /\ step \in {"verify", "select", "relate", "rank"} => unread = {}
  /\ step \in {"diff", "scan", "verify"} => DOMAIN checked = {}
  /\ step \in {"diff", "scan", "verify", "select"} => answer = Nobody
  /\ step \in {"relate", "rank"} => answer.order = <<>>

\* A file with ranges that is still to be scanned has the content the ranges
\* are of, or one that is not indexed, or the indexed one was put back; so a
\* scanned file of the indexed content has ranges of it, or it was put back.
ContentInv ==
  \A p \in Path :
    ranges[p] # 0 =>
      /\ p \in unread => ranges[p] = tree[p] \/ tree[p] # rows[p] \/ p \in restored
      /\ p \notin unread /\ hashes[p] = rows[p] => ranges[p] = rows[p] \/ p \in restored

\* A file that was checked is gone or is the one that was indexed, and from
\* the selection on every file with ranges was checked.
CheckedInv ==
  /\ \A p \in DOMAIN checked :
       /\ checked[p] <=> hashes[p] # 0
       /\ checked[p] => hashes[p] = rows[p]
  /\ step \in {"select", "relate", "rank"} =>
       \A p \in Affected : p \in DOMAIN checked /\ checked[p]

\* What is known of the symbols of an answer.
SymbolsInv ==
  /\ \A s \in answer.changed : ranges[Home[s]] = rows[Home[s]] \/ Home[s] \in restored
  /\ \A s \in answer.changed \cup answer.related : rows[Home[s]] = hashes[Home[s]]
  /\ answer.related \subseteq RelatedSymbols(answer.changed) \ answer.changed

\* What is known of their order.
OrderInv == Named \subseteq Candidates /\ ChangedGiveWayToChanged

\* All of it is inductive.
IInv ==
  TypeOK /\ AnswerInv /\ ProgressInv /\ ContentInv /\ CheckedInv /\ SymbolsInv /\ OrderInv

-----------------------------------------------------------------------------
(* Lemmas                                                                  *)

\* A ranking of a finite set names each of its members.
LEMMA RankingNamesAll ==
  ASSUME NEW S, IsFiniteSet(S), NEW f \in SetToSeqs(S)
  PROVE  f \in Seq(S) /\ \A x \in S : \E i \in DOMAIN f : f[i] = x
  <1> DEFINE D == 1 .. Cardinality(S)
  <1>1. Cardinality(S) \in Nat
    BY FS_CardinalityType
  <1>2. f \in [D -> S] /\ \A i, j \in D : i # j => f[i] # f[j]
    BY DEF SetToSeqs
  <1>3. f \in Injection(D, S)
    BY <1>2 DEF Injection, IsInjective
  <1>4. IsFiniteSet(D) /\ Cardinality(D) = Cardinality(S)
    BY <1>1, FS_Interval
  <1>5. f \in Surjection(D, S)
    BY <1>3, <1>4, FS_Injection
  <1>6. \A x \in S : \E i \in D : f[i] = x
    BY <1>5 DEF Surjection
  <1>7. f \in Seq(S) /\ DOMAIN f = D
    BY <1>1, <1>2
  <1> QED BY <1>6, <1>7

\* What a limit n leaves of the sequence q.
CutTo(q, n) == SubSeq(q, 1, Min({Len(q), n}))

\* A member of C in q is left, or what is left is n members of C.
FilledBy(q, n, C) ==
  \A i \in DOMAIN q :
    q[i] \in C => \/ q[i] \in ToSet(CutTo(q, n))
                 \/ (Len(CutTo(q, n)) = n /\ ToSet(CutTo(q, n)) \subseteq C)

\* The limit takes from the end, where no member of C is while another is left.
LEMMA LimitCutsTheRest ==
  ASSUME NEW S, NEW C, NEW q \in Seq(S), NEW n \in Nat,
         \A i, j \in DOMAIN q : (i < j /\ q[j] \in C) => q[i] \in C
  PROVE  ToSet(CutTo(q, n)) \subseteq S /\ FilledBy(q, n, C)
  <1> DEFINE m == Min({Len(q), n})
             r == CutTo(q, n)
  <1>1. r = SubSeq(q, 1, m)
    BY DEF CutTo
  <1> DEFINE l == Len(q)
  <1>2. l \in Nat /\ DOMAIN q = 1 .. l
    OBVIOUS
  <1>3. \A i \in 1 .. l : q[i] \in S
    OBVIOUS
  <1>4. m \in {l, n} /\ m <= l /\ m <= n
    <2>1. \E x \in {l, n} : \A y \in {l, n} : x <= y
      BY <1>2
    <2> QED BY <2>1 DEF Min
  <1> HIDE DEF m
  <1>5. m \in Nat
    BY <1>2, <1>4
  <1>6. Len(r) = m /\ DOMAIN r = 1 .. m /\ \A i \in 1 .. m : r[i] = q[i]
    <2>1. m <= Len(q)
      BY <1>4
    <2> HIDE DEF l, r
    <2>2. DOMAIN r = 1 .. m /\ \A i \in 1 .. m : r[i] = q[i]
      BY <1>1, <1>5, <2>1
    <2>3. r \in Seq(S)
      BY <1>1, <1>5, <2>1
    <2> QED BY <1>5, <2>2, <2>3
  <1> HIDE DEF l, r
  <1>7. \A i \in 1 .. m : i \in 1 .. l
    BY <1>2, <1>4, <1>5
  <1>8. ToSet(r) = {q[i] : i \in 1 .. m} /\ ToSet(r) \subseteq S
    BY <1>3, <1>6, <1>7 DEF ToSet
  <1>9. ASSUME NEW i \in DOMAIN q, q[i] \in C, q[i] \notin ToSet(r)
        PROVE  Len(r) = n /\ ToSet(r) \subseteq C
    <2>1. i \notin 1 .. m
      BY <1>8, <1>9
    <2>2. i \in 1 .. l /\ m < i
      BY <1>2, <1>5, <2>1
    <2>3. m = n
      BY <1>2, <1>4, <1>5, <2>2
    <2>4. ASSUME NEW j \in 1 .. m PROVE q[j] \in C
      <3>1. j \in DOMAIN q /\ j < i
        BY <1>2, <1>5, <1>7, <2>2
      <3> QED BY <1>9, <3>1
    <2> QED BY <1>6, <1>8, <2>3, <2>4
  <1>10. FilledBy(q, n, C)
    BY <1>9 DEF FilledBy, r
  <1> QED BY <1>8, <1>10 DEF r

-----------------------------------------------------------------------------
(* Steps                                                                   *)

\* What is known of the symbols does not change while the answer, the rows and
\* what was read of the files do not.
LEMMA SymbolsStay ==
  ASSUME SymbolsInv, OrderInv, UNCHANGED <<rows, ranges, hashes, answer>>,
         restored \subseteq restored', step' \in {step} \cup {"unavailable", "unreadable", "stale"}
  PROVE  SymbolsInv' /\ OrderInv'
  <1>1. SymbolsInv'
    BY DEF SymbolsInv
  <1>2. Named' = Named /\ Candidates' = Candidates
    BY DEF Named, Candidates
  <1>3. ChangedGiveWayToChanged'
    BY <1>2 DEF OrderInv, ChangedGiveWayToChanged, Idle
  <1> QED BY <1>1, <1>2, <1>3 DEF OrderInv

\* Nothing is known of the symbols of no answer.
LEMMA NoSymbols ==
  ASSUME answer' = Nobody
  PROVE  AnswerInv' /\ SymbolsInv' /\ OrderInv'
  BY DEF Nobody, AnswerInv, SymbolsInv, OrderInv, Named, Candidates, ToSet,
         ChangedGiveWayToChanged

\* An edit that puts the indexed content back is remembered.
LEMMA EditKeeps ==
  ASSUME IInv, NEW p \in Path, NEW new \in Content, Edit(p, new)
  PROVE  IInv'
  <1>1. TypeOK /\ AnswerInv /\ ProgressInv /\ ContentInv /\ CheckedInv /\ SymbolsInv /\ OrderInv
    BY DEF IInv
  <1>2. /\ step \notin Ended /\ p \in unread /\ tree' = [tree EXCEPT ![p] = new]
        /\ restored' = (IF step = "scan" /\ new = rows[p] THEN restored \cup {p} ELSE restored)
        /\ UNCHANGED <<rows, mode, step, ranges, hashes, unread, checked, answer>>
    BY DEF Edit
  <1>3. restored \subseteq restored' /\ restored' \subseteq Path
    BY <1>1, <1>2 DEF TypeOK
  <1>4. TypeOK'
    BY <1>1, <1>2, <1>3 DEF TypeOK
  <1>5. AnswerInv' /\ ProgressInv' /\ CheckedInv'
    BY <1>1, <1>2 DEF AnswerInv, ProgressInv, CheckedInv, Affected
  <1>6. ContentInv'
    <2>1. CASE step = "diff"
      BY <1>1, <1>2, <2>1 DEF ProgressInv, ContentInv, None
    <2>2. CASE step = "scan"
      <3>1. ASSUME NEW o \in Path, ranges[o] # 0, o \in unread
            PROVE  ranges[o] = tree'[o] \/ tree'[o] # rows[o] \/ o \in restored'
        <4>1. CASE o = p
          BY <1>1, <1>2, <2>2, <4>1 DEF TypeOK
        <4>2. CASE o # p
          BY <1>1, <1>2, <1>3, <3>1, <4>2 DEF ContentInv, TypeOK
        <4> QED BY <4>1, <4>2
      <3>2. ASSUME NEW o \in Path, ranges[o] # 0, o \notin unread, hashes[o] = rows[o]
            PROVE  ranges[o] = rows[o] \/ o \in restored'
        BY <1>1, <1>3, <3>2 DEF ContentInv
      <3> QED BY <1>2, <3>1, <3>2 DEF ContentInv
    <2>3. step \in {"diff", "scan"}
      BY <1>1, <1>2 DEF ProgressInv, TypeOK
    <2> QED BY <2>1, <2>2, <2>3
  <1> QED BY <1>1, <1>2, <1>3, <1>4, <1>5, <1>6, SymbolsStay DEF IInv

\* The ranges are those of the tree at this moment.
LEMMA ReadDiffKeeps ==
  ASSUME IInv, ReadDiff
  PROVE  IInv'
  <1>1. TypeOK /\ ProgressInv /\ CheckedInv
    BY DEF IInv
  <1>2. /\ step = "diff" /\ step' = "scan"
        /\ ranges' = [p \in Path |-> IF Changed(p) THEN tree[p] ELSE 0]
        /\ UNCHANGED <<tree, restored, rows, mode, hashes, unread, checked, answer>>
    BY DEF ReadDiff
  <1>3. answer = Nobody /\ unread = Path /\ DOMAIN checked = {}
    BY <1>1, <1>2 DEF ProgressInv
  <1>4. TypeOK'
    <2>1. 0 \in Content /\ \A p \in Path : tree[p] \in Content
      BY <1>1, ImpactAssumption DEF TypeOK
    <2>2. ranges' \in [Path -> Content]
      BY <1>2, <2>1
    <2> QED BY <1>1, <1>2, <2>2 DEF TypeOK
  <1>5. ProgressInv'
    BY <1>2, <1>3 DEF ProgressInv
  <1>6. ContentInv'
    <2>1. \A p \in Path : ranges'[p] # 0 => ranges'[p] = tree'[p]
      BY <1>2
    <2>2. unread' = Path
      BY <1>2, <1>3
    <2> QED BY <2>1, <2>2 DEF ContentInv
  <1>7. CheckedInv'
    BY <1>2, <1>3 DEF CheckedInv
  <1> QED BY <1>2, <1>3, <1>4, <1>5, <1>6, <1>7, NoSymbols DEF IInv

\* Nothing is read.
LEMMA NoRepositoryKeeps ==
  ASSUME IInv, NoRepository
  PROVE  IInv'
  <1>1. TypeOK /\ AnswerInv /\ ProgressInv /\ ContentInv /\ CheckedInv /\ SymbolsInv /\ OrderInv
    BY DEF IInv
  <1>2. /\ step' = "unavailable"
        /\ UNCHANGED <<tree, restored, rows, mode, ranges, hashes, unread, checked, answer>>
    BY DEF NoRepository
  <1>3. TypeOK'
    BY <1>1, <1>2 DEF TypeOK, Ended
  <1>4. AnswerInv' /\ ProgressInv' /\ ContentInv' /\ CheckedInv'
    BY <1>1, <1>2 DEF AnswerInv, ProgressInv, ContentInv, CheckedInv
  <1> QED BY <1>1, <1>2, <1>3, <1>4, SymbolsStay DEF IInv

\* The hash of a file is that of what it has at this moment, if it is any.
LEMMA ScanFileKeeps ==
  ASSUME IInv, NEW p \in Path, ScanFile(p)
  PROVE  IInv'
  <1>1. TypeOK /\ ProgressInv /\ ContentInv /\ CheckedInv
    BY DEF IInv
  <1>2. PICK hash \in {tree[p], IF tree[p] = 0 THEN 0 ELSE Unread} :
          hashes' = [hashes EXCEPT ![p] = hash]
    BY DEF ScanFile
  <1>3. /\ step = "scan" /\ step' = (IF unread = {p} THEN "verify" ELSE "scan")
        /\ p \in unread /\ unread' = unread \ {p}
        /\ UNCHANGED <<tree, restored, rows, mode, ranges, checked, answer>>
    BY DEF ScanFile
  <1>4. answer = Nobody /\ DOMAIN checked = {}
    BY <1>1, <1>3 DEF ProgressInv
  <1>5. hash = rows[p] => hash = tree[p]
    BY <1>1, <1>2, ImpactAssumption DEF TypeOK, Unread
  <1>6. TypeOK'
    BY <1>1, <1>2, <1>3 DEF TypeOK
  <1>7. ProgressInv'
    BY <1>3, <1>4 DEF ProgressInv
  <1>8. ContentInv'
    BY <1>1, <1>2, <1>3, <1>5 DEF ContentInv, TypeOK
  <1>9. CheckedInv'
    BY <1>3, <1>4 DEF CheckedInv
  <1> QED BY <1>3, <1>4, <1>6, <1>7, <1>8, <1>9, NoSymbols DEF IInv

\* Nothing is answered.
LEMMA NothingAffectedKeeps ==
  ASSUME IInv, NothingAffected
  PROVE  IInv'
  <1>1. TypeOK /\ AnswerInv /\ ProgressInv /\ ContentInv /\ CheckedInv
    BY DEF IInv
  <1>2. /\ step = "scan" /\ step' = "answered"
        /\ UNCHANGED <<tree, restored, rows, mode, ranges, hashes, unread, checked, answer>>
    BY DEF NothingAffected
  <1>3. TypeOK'
    BY <1>1, <1>2 DEF TypeOK, Ended
  <1>4. ProgressInv' /\ ContentInv' /\ CheckedInv'
    BY <1>1, <1>2 DEF ProgressInv, ContentInv, CheckedInv
  <1>5. answer' = Nobody
    BY <1>1, <1>2 DEF ProgressInv
  <1> QED BY <1>3, <1>4, <1>5, NoSymbols DEF IInv

\* What a verification that succeeds adds to what was checked.
LEMMA VerifiedAreIndexed ==
  ASSUME TypeOK, CheckedInv, NEW paths \in SUBSET Path, Verifiable(paths)
  PROVE  LET now == Verified(paths).checked
         IN /\ DOMAIN now = paths \cup DOMAIN checked
            /\ \A p \in DOMAIN now : /\ now[p] <=> hashes[p] # 0
                                     /\ now[p] => hashes[p] = rows[p]
  <1> DEFINE open == {p \in paths : p \notin DOMAIN checked}
             now == [p \in open \cup DOMAIN checked |->
                       IF p \in DOMAIN checked THEN checked[p] ELSE hashes[p] # 0]
  <1>1. Verified(paths).checked = now
    BY DEF Verified
  <1>2. /\ {p \in open : hashes[p] = Unread} = {}
        /\ {p \in open : hashes[p] \notin {0, Unread} /\ Stale(p)} = {}
    BY DEF Verifiable, Verified
  <1>3. \A p \in open : hashes[p] # 0 => hashes[p] = rows[p]
    BY <1>2 DEF Stale
  <1>4. \A p \in DOMAIN checked :
          (checked[p] <=> hashes[p] # 0) /\ (checked[p] => hashes[p] = rows[p])
    BY DEF CheckedInv
  <1>5. ASSUME NEW p \in DOMAIN now
        PROVE  (now[p] <=> hashes[p] # 0) /\ (now[p] => hashes[p] = rows[p])
    BY <1>3, <1>4
  <1> QED BY <1>1, <1>5

\* Ranges of files that are gone are dropped.
LEMMA VerifyKeeps ==
  ASSUME IInv, Verify
  PROVE  IInv'
  <1>1. TypeOK /\ AnswerInv /\ ProgressInv /\ ContentInv /\ CheckedInv /\ SymbolsInv /\ OrderInv
    BY DEF IInv
  <1>2. step = "verify" /\ UNCHANGED <<tree, restored, rows, mode, hashes, unread, answer>>
    BY DEF Verify
  <1>3. answer = Nobody /\ unread = {} /\ DOMAIN checked = {}
    BY <1>1, <1>2 DEF ProgressInv
  <1>4. CASE Refuse(Affected) /\ UNCHANGED <<ranges, checked>>
    <2>1. step' \in {"unreadable", "stale"}
      BY <1>4 DEF Refuse
    <2>2. TypeOK'
      BY <1>1, <1>2, <1>4, <2>1 DEF TypeOK, Ended
    <2>3. ProgressInv' /\ ContentInv' /\ CheckedInv'
      BY <1>1, <1>2, <1>4, <2>1 DEF ProgressInv, ContentInv, CheckedInv
    <2> QED BY <1>2, <1>3, <2>2, <2>3, NoSymbols DEF IInv
  <1>5. CASE /\ Verifiable(Affected) /\ checked' = Verified(Affected).checked
             /\ ranges' = [p \in Path |->
                            IF p \in Affected /\ ~checked'[p] THEN 0 ELSE ranges[p]]
             /\ step' = "select"
    <2>1. Affected \in SUBSET Path
      BY DEF Affected
    <2>2. /\ DOMAIN checked' = Affected
          /\ \A p \in DOMAIN checked' :
               (checked'[p] <=> hashes[p] # 0) /\ (checked'[p] => hashes[p] = rows[p])
      BY <1>1, <1>3, <1>5, <2>1, VerifiedAreIndexed
    <2>3. \A p \in Path : /\ ranges'[p] \in {0, ranges[p]}
                          /\ ranges'[p] # 0 => p \in Affected /\ checked'[p]
      BY <1>5 DEF Affected
    <2>4. TypeOK'
      <3>1. 0 \in Content /\ \A p \in Path : ranges[p] \in Content
        BY <1>1, ImpactAssumption DEF TypeOK
      <3>2. ranges' \in [Path -> Content]
        BY <1>5, <3>1
      <3> QED BY <1>1, <1>2, <1>5, <2>1, <2>2, <3>2 DEF TypeOK
    <2>5. ProgressInv'
      BY <1>2, <1>3, <1>5 DEF ProgressInv
    <2>6. ContentInv'
      <3>1. ASSUME NEW p \in Path, ranges'[p] # 0, hashes[p] = rows[p]
            PROVE  ranges'[p] = rows[p] \/ p \in restored
        <4>1. ranges'[p] = ranges[p] /\ ranges[p] # 0
          BY <2>3, <3>1
        <4> QED BY <1>1, <1>3, <3>1, <4>1 DEF ContentInv
      <3> QED BY <1>2, <1>3, <3>1 DEF ContentInv
    <2>7. CheckedInv'
      BY <1>2, <2>2, <2>3 DEF CheckedInv, Affected
    <2> QED BY <1>2, <1>3, <2>4, <2>5, <2>6, <2>7, NoSymbols DEF IInv
  <1> QED BY <1>4, <1>5 DEF Verify

\* A file with ranges was checked: its ranges, its hash and its row are of one
\* content.
LEMMA SelectKeeps ==
  ASSUME IInv, NEW found \in SUBSET Symbol, SelectChanged(found)
  PROVE  IInv'
  <1>1. TypeOK /\ AnswerInv /\ ProgressInv /\ ContentInv /\ CheckedInv
    BY DEF IInv
  <1>2. /\ step = "select" /\ step' = "relate" /\ answer' = [answer EXCEPT !.changed = found]
        /\ \A s \in found : s \in Symbol /\ ranges[Home[s]] # 0 /\ rows[Home[s]] # 0
        /\ UNCHANGED <<tree, restored, rows, mode, ranges, hashes, unread, checked>>
    BY DEF SelectChanged
  <1>3. answer = Nobody /\ unread = {}
    BY <1>1, <1>2 DEF ProgressInv
  <1>4. answer' = [changed |-> found, related |-> {}, order |-> <<>>]
    BY <1>2, <1>3 DEF Nobody
  <1>5. ASSUME NEW s \in found
        PROVE  /\ ranges[Home[s]] = rows[Home[s]] \/ Home[s] \in restored
               /\ rows[Home[s]] = hashes[Home[s]]
    <2>1. Home[s] \in Path /\ ranges[Home[s]] # 0
      BY <1>1, <1>2, ImpactAssumption DEF TypeOK
    <2>2. hashes[Home[s]] = rows[Home[s]]
      BY <1>1, <1>2, <2>1 DEF CheckedInv, Affected
    <2> QED BY <1>1, <1>3, <2>1, <2>2 DEF ContentInv
  <1>6. TypeOK'
    BY <1>1, <1>2 DEF TypeOK
  <1>7. AnswerInv' /\ ProgressInv' /\ ContentInv' /\ CheckedInv'
    BY <1>1, <1>2, <1>4 DEF AnswerInv, ProgressInv, ContentInv, CheckedInv, Affected
  <1>8. SymbolsInv'
    BY <1>2, <1>4, <1>5 DEF SymbolsInv
  <1>9. OrderInv'
    BY <1>2, <1>4 DEF OrderInv, Named, Candidates, ToSet, ChangedGiveWayToChanged
  <1> QED BY <1>6, <1>7, <1>8, <1>9 DEF IInv

\* Sources of relations are verified as changed files are.
LEMMA RelateKeeps ==
  ASSUME IInv, Relate
  PROVE  IInv'
  <1>1. TypeOK /\ AnswerInv /\ ProgressInv /\ ContentInv /\ CheckedInv /\ SymbolsInv /\ OrderInv
    BY DEF IInv
  <1> DEFINE related == {s \in RelatedSymbols(answer.changed) : rows[Home[s]] # 0}
             homes == {Home[s] : s \in related}
  <1>2. step = "relate" /\ UNCHANGED <<tree, restored, rows, mode, ranges, hashes, unread>>
    BY DEF Relate
  <1>3. CASE Refuse(homes) /\ UNCHANGED <<checked, answer>>
    <2>1. step' \in {"unreadable", "stale"}
      BY <1>3 DEF Refuse
    <2>2. TypeOK'
      BY <1>1, <1>2, <1>3, <2>1 DEF TypeOK, Ended
    <2>3. AnswerInv' /\ ProgressInv' /\ ContentInv' /\ CheckedInv'
      BY <1>1, <1>2, <1>3, <2>1 DEF AnswerInv, ProgressInv, ContentInv, CheckedInv
    <2> QED BY <1>1, <1>2, <1>3, <2>1, <2>2, <2>3, SymbolsStay DEF IInv
  <1>4. CASE /\ Verifiable(homes) /\ checked' = Verified(homes).checked
             /\ answer' = [answer EXCEPT !.related =
                             {s \in related : checked'[Home[s]]} \ answer.changed]
             /\ step' = "rank"
    <2>1. /\ related \subseteq Symbol /\ homes \in SUBSET Path
          /\ \A s \in related : Home[s] \in homes
      BY ImpactAssumption DEF RelatedSymbols
    <2>2. /\ DOMAIN checked' = homes \cup DOMAIN checked
          /\ \A p \in DOMAIN checked' :
               (checked'[p] <=> hashes[p] # 0) /\ (checked'[p] => hashes[p] = rows[p])
      BY <1>1, <1>4, <2>1, VerifiedAreIndexed
    <2>3. \A s \in related : checked'[Home[s]] => rows[Home[s]] = hashes[Home[s]]
      BY <2>2
    <2>4. /\ answer' = [changed |-> answer.changed, related |-> answer'.related,
                       order |-> answer.order]
          /\ answer'.related = {s \in related : checked'[Home[s]]} \ answer.changed
      BY <1>1, <1>4 DEF AnswerInv
    <2>5. answer'.changed = answer.changed /\ answer'.order = answer.order
      BY <2>4
    <2>6. TypeOK'
      BY <1>1, <1>2, <1>4, <2>1, <2>2 DEF TypeOK
    <2>7. AnswerInv' /\ ContentInv'
      BY <1>1, <1>2, <2>4 DEF AnswerInv, ContentInv
    <2>8. ProgressInv'
      BY <1>1, <1>2, <1>4 DEF ProgressInv
    <2>9. CheckedInv'
      BY <1>1, <1>2, <2>2 DEF CheckedInv, Affected
    <2>10. SymbolsInv'
      BY <1>1, <1>2, <2>3, <2>4 DEF SymbolsInv
    <2>11. OrderInv'
      <3>1. answer'.order = <<>>
        BY <1>1, <1>2, <2>5 DEF ProgressInv
      <3> QED BY <1>4, <3>1 DEF OrderInv, Named, Candidates, ToSet, ChangedGiveWayToChanged
    <2> QED BY <2>6, <2>7, <2>8, <2>9, <2>10, <2>11 DEF IInv
  <1> QED BY <1>3, <1>4 DEF Relate

\* The ranking of the candidates is deduplicated, sorted, and cut.
LEMMA RankKeeps ==
  ASSUME IInv, Rank
  PROVE  IInv'
  <1>1. TypeOK /\ AnswerInv /\ ProgressInv /\ ContentInv /\ CheckedInv /\ SymbolsInv /\ OrderInv
    BY DEF IInv
  <1>2. /\ step = "rank" /\ step' = "answered"
        /\ UNCHANGED <<tree, restored, rows, mode, ranges, hashes, unread, checked>>
    BY DEF Rank
  <1>3. PICK ranking, kept, order :
          /\ kept \subseteq Candidates /\ order \in SetToSeqs(kept)
          /\ ByScore(ranking) /\ Deduplicated(ranking, kept) /\ ChangedFirst(order, ranking)
          /\ answer' = [answer EXCEPT !.order =
                          SubSeq(order, 1, Min({Len(order), MaxCandidates}))]
    BY DEF Rank
  <1>4. /\ answer'.changed = answer.changed /\ answer'.related = answer.related
        /\ answer'.order = CutTo(order, MaxCandidates)
        /\ AnswerInv'
    BY <1>1, <1>3 DEF AnswerInv, CutTo
  <1>5. Candidates' = Candidates /\ Named' = ToSet(CutTo(order, MaxCandidates))
    BY <1>4 DEF Candidates, Named
  <1>6. order \in Seq(kept) /\ \A x \in kept : \E i \in DOMAIN order : order[i] = x
    <2>1. kept \subseteq Symbol
      BY <1>1, <1>3 DEF TypeOK, Candidates
    <2>2. IsFiniteSet(kept)
      BY <2>1, ImpactAssumption, FS_Subset
    <2> QED BY <1>3, <2>2, RankingNamesAll
  <1>7. /\ ToSet(CutTo(order, MaxCandidates)) \subseteq kept
        /\ FilledBy(order, MaxCandidates, answer.changed)
    <2> DEFINE C == answer.changed
    <2>1. \A i, j \in DOMAIN order : (i < j /\ order[j] \in C) => order[i] \in C
      BY <1>3 DEF ChangedFirst
    <2>2. MaxCandidates \in Nat
      BY ImpactAssumption
    <2> HIDE DEF C
    <2>3. ToSet(CutTo(order, MaxCandidates)) \subseteq kept /\ FilledBy(order, MaxCandidates, C)
      BY <1>6, <2>1, <2>2, LimitCutsTheRest
    <2> QED BY <2>3 DEF C
  <1>8. \A s \in kept \cap answer.changed :
          \/ s \in Named'
          \/ Len(answer'.order) = MaxCandidates /\ Named' \subseteq answer.changed
    BY <1>4, <1>5, <1>6, <1>7 DEF FilledBy
  <1>9. ASSUME NEW s \in answer.changed \ kept
        PROVE  Idle(s) \/ \E t \in kept : <<t, s>> \in Alike /\ Score(t) >= Score(s)
    <2>1. Idle(s) \/ \E t \in kept : Above(ranking, t, s) /\ <<t, s>> \in Alike
      BY <1>3 DEF Deduplicated, Candidates
    <2>2. \A t : Above(ranking, t, s) => Score(t) >= Score(s)
      BY <1>3 DEF Above, ByScore
    <2> QED BY <2>1, <2>2
  <1>10. ASSUME NEW s \in answer.changed, NEW t \in answer.related, Score(t) >= Score(s)
         PROVE  Penalty[s] >= Penalty[t] + 28
    <2>1. s \in Symbol /\ t \in Symbol /\ t \notin answer.changed
      BY <1>1 DEF TypeOK, SymbolsInv
    <2>2. Penalty[s] \in Nat /\ Penalty[t] \in Nat
      BY <2>1, ImpactAssumption
    <2>3. Score(s) = 40 - Penalty[s] /\ Score(t) = 12 - Penalty[t]
      BY <2>1 DEF Score
    <2> QED BY <1>10, <2>2, <2>3
  <1>11. ChangedGiveWayToChanged'
    <2>1. ASSUME NEW s \in answer.changed, s \notin Named'
          PROVE  \/ Len(answer'.order) = MaxCandidates /\ Named' \subseteq answer.changed
                 \/ \E t \in Named' \cap answer.changed : <<t, s>> \in Alike
                 \/ Idle(s)
                 \/ \E t \in answer.related : <<t, s>> \in Alike /\ Penalty[s] >= Penalty[t] + 28
      <3>1. CASE s \in kept
        BY <1>8, <2>1, <3>1
      <3>2. CASE s \notin kept /\ ~Idle(s)
        <4>1. PICK t \in kept : <<t, s>> \in Alike /\ Score(t) >= Score(s)
          BY <1>9, <3>2
        <4>2. CASE t \in answer.changed
          BY <1>8, <4>1, <4>2
        <4>3. CASE t \in answer.related
          BY <1>10, <4>1, <4>3
        <4> QED BY <1>3, <4>2, <4>3 DEF Candidates
      <3> QED BY <3>1, <3>2
    <2>2. \A s \in answer.changed : Idle(s)' <=> Idle(s)
      BY <1>4, <1>5 DEF Idle
    <2> QED BY <1>4, <2>1, <2>2 DEF ChangedGiveWayToChanged
  <1>12. OrderInv'
    BY <1>3, <1>5, <1>7, <1>11 DEF OrderInv
  <1>13. TypeOK'
    BY <1>1, <1>2, <1>4 DEF TypeOK, Ended
  <1>14. ProgressInv' /\ ContentInv' /\ CheckedInv'
    BY <1>1, <1>2 DEF ProgressInv, ContentInv, CheckedInv
  <1>15. SymbolsInv'
    BY <1>1, <1>2, <1>4 DEF SymbolsInv
  <1> QED BY <1>4, <1>12, <1>13, <1>14, <1>15 DEF IInv

\* It holds at first.
LEMMA InitInv == Init => IInv
  <1> SUFFICES ASSUME Init PROVE IInv
    OBVIOUS
  <1> USE ImpactAssumption DEF Init
  <1>1. TypeOK
    <2>1. ranges \in [Path -> Content] /\ hashes \in [Path -> Content \cup {Unread}]
      BY DEF None
    <2> QED BY <2>1 DEF TypeOK, Nobody
  <1>2. ProgressInv /\ ContentInv /\ CheckedInv
    BY DEF ProgressInv, ContentInv, CheckedInv, None
  <1>3. AnswerInv /\ SymbolsInv /\ OrderInv
    BY DEF Nobody, AnswerInv, SymbolsInv, OrderInv, Named, Candidates, ToSet,
           ChangedGiveWayToChanged
  <1> QED BY <1>1, <1>2, <1>3 DEF IInv

\* It is kept by every step.
LEMMA StepInv == IInv /\ [Next]_vars => IInv'
  <1> SUFFICES ASSUME IInv, [Next]_vars PROVE IInv'
    OBVIOUS
  <1>1. CASE UNCHANGED vars
    <2>1. UNCHANGED <<tree, restored, rows, mode, step, ranges, hashes, unread, checked, answer>>
      BY <1>1 DEF vars
    <2>2. TypeOK' /\ AnswerInv' /\ ProgressInv' /\ ContentInv' /\ CheckedInv'
      BY <2>1 DEF IInv, TypeOK, AnswerInv, ProgressInv, ContentInv, CheckedInv, Affected
    <2> QED BY <2>1, <2>2, SymbolsStay DEF IInv
  <1> QED BY <1>1, EditKeeps, ReadDiffKeeps, NoRepositoryKeeps, ScanFileKeeps,
     NothingAffectedKeeps, VerifyKeeps, SelectKeeps, RelateKeeps, RankKeeps DEF Next, Done

-----------------------------------------------------------------------------
(* Theorems                                                                *)

\* The inductive invariant holds in every reachable state: it says which
\* contents can have met in an answer when files are edited, and edits undone,
\* between git, the scan and the index.
THEOREM InvCorrect == Spec => []IInv
  BY InitInv, StepInv, PTL DEF Spec

\* The variables of the call have their types.
THEOREM TypeCorrect == Spec => []TypeOK
  <1>1. IInv => TypeOK
    BY DEF IInv
  <1> QED BY <1>1, InvCorrect, PTL

(* validateImpactSources, impactCandidates: what an answer names comes from *)
(* rows the scan confirmed, and what it calls changed from ranges of the    *)
(* same content, unless that content was put back behind git's back.        *)

\* An impact answer speaks of one content, whatever edits, undone ones among
\* them, come between its steps: of every symbol the rows and the scanned file
\* agree, and of a changed one the ranges too, but for a file that was given
\* the indexed content after git read it and before the scanner did
\* (evidence.go 239, impact_freshness.go 63).
THEOREM OneContentCorrect == Spec => []OneContent
  <1>1. IInv => OneContent
    BY DEF IInv, OneContent, SymbolsInv, OrderInv, Candidates
  <1> QED BY <1>1, InvCorrect, PTL

(* RankWithPlan, the stable sort and the limit: a changed symbol makes      *)
(* place for changed ones, or for the two reasons Deduplicate has.          *)

\* However candidates are ranked and whatever the limit, a changed symbol that
\* an answer leaves out has made place for changed ones, or was dropped as an
\* outline, or as a test or documentation that a related symbol of its lines
\* outranks (evidence.go 300-315, rank.go 100-126, rank.go 198-234).
THEOREM ChangedGiveWayToChangedCorrect == Spec => []ChangedGiveWayToChanged
  <1>1. IInv => ChangedGiveWayToChanged
    BY DEF IInv, OrderInv
  <1> QED BY <1>1, InvCorrect, PTL

-----------------------------------------------------------------------------
(* Bundles                                                                 *)

\* Candidates come from the offers, with an intent, a mode and a budget.
PackTypeOK ==
  NothingToPack
    \/ pack \in [intent : PackIntents, mode : PackModes, budget : PackBudgets, cands : Seq(PackOffers)]

\* What an item can show of a candidate.
Contents ==
  {0, 1} \cup {c.lines : c \in PackOffers}
         \cup {Elide(c.lines, room) : c \in PackOffers, room \in {PackBudget \div 3, PackBudget \div 5}}

\* An item of one of the first n candidates.
Item(n) == [cand : 1 .. n, content : Contents, elided : BOOLEAN]

\* The bundles after the first n candidates, and what is true of them.
Bundle(n) ==
  [items : Seq(Item(n)), omitted : Nat, estimated : {0}, tests : Nat,
   relations : SUBSET {c.relation : c \in PackOffers}]

\* Each of the first n candidates is in the bundle or counted.
Accounted(bundle, n) ==
  /\ Len(bundle.items) + bundle.omitted = n
  /\ \A k \in DOMAIN bundle.items : bundle.items[k].cand <= n
  /\ \A j, k \in DOMAIN bundle.items : j < k => bundle.items[j].cand < bundle.items[k].cand

\* Whatever form is chosen, an item is of its candidate.
LEMMA ItemIsTyped ==
  ASSUME NEW n \in Nat, NEW k \in 1 .. n, pack.cands \in Seq(PackOffers), n = Len(pack.cands),
           NEW b, NEW d
  PROVE  Shortened(ItemOf(k, b), k, d) \in Item(n) /\ Shortened(ItemOf(k, b), k, d).cand = k
  <1> DEFINE c == pack.cands[k]
             item == ItemOf(k, b)
             Cut(i, room) == [i EXCEPT !.content = Elide(c.lines, room), !.elided = TRUE]
  <1>1. c \in PackOffers
    OBVIOUS
  <1>2. item \in Item(n) /\ item.cand = k
    <2> DEFINE again == c.relation # "" /\ c.relation \in b.relations /\ pack.mode = "source"
                        /\ c.lines > 0
               content == IF pack.mode = "outline" THEN 0 ELSE IF again THEN 1 ELSE c.lines
    <2>1. again \in BOOLEAN
      OBVIOUS
    <2>2. content \in Contents
      <3> HIDE DEF again, c
      <3>1. 0 \in Contents /\ 1 \in Contents /\ c.lines \in Contents
        BY <1>1 DEF Contents
      <3> QED BY <3>1
    <2>3. item = [cand |-> k, content |-> content, elided |-> again]
      BY DEF ItemOf
    <2> HIDE DEF content, again, item
    <2> QED BY <2>1, <2>2, <2>3 DEF Item
  <1>3. ASSUME NEW i \in Item(n), i.cand = k, NEW room \in {PackBudget \div 3, PackBudget \div 5}
        PROVE  Cut(i, room) \in Item(n) /\ Cut(i, room).cand = k
    <2>1. Elide(c.lines, room) \in Contents
      BY <1>1 DEF Contents
    <2> QED BY <1>3, <2>1 DEF Item
  <1>4. ASSUME NEW i \in Item(n), i.cand = k
        PROVE  [i EXCEPT !.content = 0, !.elided = TRUE] \in Item(n)
                 /\ [i EXCEPT !.content = 0, !.elided = TRUE].cand = k
    <2>1. 0 \in Contents
      BY DEF Contents
    <2> QED BY <1>4, <2>1 DEF Item
  <1> DEFINE Small(i) == i \in Item(n) /\ i.cand = k
  <1>5. Small(item) /\ \A i : Small(i) => /\ Small(Cut(i, PackBudget \div 3))
                                             /\ Small(Cut(i, PackBudget \div 5))
                                          /\ Small([i EXCEPT !.content = 0, !.elided = TRUE])
    BY <1>2, <1>3, <1>4
  <1> DEFINE TooLarge(i) == BundleTokens(d, <<i>>) > PackBudget
             third == IF /\ pack.mode = "source" /\ item.content > 0
                         /\ TooLarge(item) \/ (item.content > (PackBudget * 40) \div 100 /\ k # 1)
                      THEN Cut(item, PackBudget \div 3) ELSE item
             fifth == IF pack.mode = "source" /\ TooLarge(third) THEN Cut(third, PackBudget \div 5)
                      ELSE third
             last == IF TooLarge(fifth) THEN [fifth EXCEPT !.content = 0, !.elided = TRUE] ELSE fifth
  <1>6. Shortened(item, k, d) = last
    BY DEF Shortened
  <1>7. Small(third)
    <2> HIDE DEF item, Small, Cut, TooLarge
    <2> QED BY <1>5
  <1>8. Small(fifth)
    <2> HIDE DEF third, Small, Cut, TooLarge
    <2> QED BY <1>5, <1>7
  <1>9. Small(last)
    <2> HIDE DEF fifth, Small, TooLarge
    <2> QED BY <1>5, <1>8
  <1> HIDE DEF last
  <1> QED BY <1>6, <1>9

\* What is changed of a bundle, and what is not.
LEMMA BundleFields ==
  ASSUME NEW n \in Nat, NEW b \in Bundle(n)
  PROVE  /\ b.items \in Seq(Item(n)) /\ b.omitted \in Nat
         /\ \A m \in Nat : LET d == [b EXCEPT !.omitted = m] IN
                             d \in Bundle(n) /\ d.items = b.items /\ d.omitted = m
         /\ \A s \in Seq(Item(n)) : LET d == [b EXCEPT !.items = s] IN
                             d \in Bundle(n) /\ d.items = s /\ d.omitted = b.omitted
  <1> DEFINE I == Seq(Item(n))
             R == SUBSET {c.relation : c \in PackOffers}
             B == [items : I, omitted : Nat, estimated : {0}, tests : Nat, relations : R]
  <1>1. b \in B /\ Bundle(n) = B
    BY DEF Bundle
  <1> HIDE DEF I, R
  <1>2. /\ b.items \in I /\ b.omitted \in Nat
        /\ \A m \in Nat : LET d == [b EXCEPT !.omitted = m] IN d \in B /\ d.items = b.items
           /\ d.omitted = m
        /\ \A s \in I : LET d == [b EXCEPT !.items = s] IN d \in B /\ d.items = s
           /\ d.omitted = b.omitted
    BY <1>1
  <1> HIDE DEF B
  <1> QED BY <1>1, <1>2 DEF I

\* Items have the number of a candidate.
LEMMA ItemsAreNumbered ==
  ASSUME NEW n \in Nat, NEW b \in Bundle(n)
  PROVE  \A i \in DOMAIN b.items : b.items[i].cand \in Nat
  <1>1. b.items \in Seq(Item(n))
    BY DEF Bundle
  <1>2. \A i \in DOMAIN b.items : b.items[i] \in Item(n)
    BY <1>1
  <1>3. \A i \in Item(n) : i.cand \in Nat
    BY DEF Item
  <1> QED BY <1>2, <1>3

\* One candidate more is shown once or counted once (budget.go 78).
LEMMA ConsiderOne ==
  ASSUME NEW n \in Nat, NEW k \in 1 .. n, pack.cands \in Seq(PackOffers), n = Len(pack.cands),
           NEW b \in Bundle(n)
  PROVE  Consider(b, k) \in Bundle(n) /\ (Accounted(b, k - 1) => Accounted(Consider(b, k), k))
  <1> DEFINE c == pack.cands[k]
             isTest == pack.intent = "tests" /\ Some(LAMBDA d : d.class = "test")
             counted == [b EXCEPT !.tests = @ + (IF isTest THEN 1 ELSE 0)]
             related == IF c.relation = "" THEN counted
                        ELSE [counted EXCEPT !.relations = @ \cup {c.relation}]
             short == Shortened(ItemOf(k, b), k, related)
             more == [related EXCEPT !.items = Append(@, short)]
  <1>1. Consider(b, k) \in {Omit(b), Omit(related), more}
    BY DEF Consider
  <1>2. c \in PackOffers
    OBVIOUS
  <1>3. counted \in Bundle(n) /\ counted.items = b.items /\ counted.omitted = b.omitted
    <2>1. IF isTest THEN b.tests + 1 \in Nat ELSE b.tests + 0 \in Nat
      BY DEF Bundle
    <2> HIDE DEF isTest
    <2> QED BY <2>1 DEF Bundle
  <1>4. related \in Bundle(n) /\ related.items = b.items /\ related.omitted = b.omitted
    <2> HIDE DEF counted, c
    <2> QED BY <1>2, <1>3 DEF Bundle
  <1>5. short \in Item(n) /\ short.cand = k
    <2> HIDE DEF related
    <2> QED BY ItemIsTyped
  <1> HIDE DEF related, short
  <1>6. ASSUME NEW d \in Bundle(n), d.items = b.items, d.omitted = b.omitted
        PROVE  Omit(d) \in Bundle(n) /\ (Accounted(b, k - 1) => Accounted(Omit(d), k))
    <2>1. Omit(d) \in Bundle(n) /\ Omit(d).items = b.items /\ Omit(d).omitted = b.omitted + 1
      <3>1. b.omitted + 1 \in Nat
        BY BundleFields
      <3> QED BY <1>6, <3>1, BundleFields DEF Omit
    <2>2. \A i \in DOMAIN b.items : b.items[i].cand \in Nat
      BY ItemsAreNumbered
    <2>3. Len(b.items) \in Nat /\ b.omitted \in Nat
      BY DEF Bundle
    <2> QED BY <2>1, <2>2, <2>3 DEF Accounted
  <1>7. more \in Bundle(n) /\ (Accounted(b, k - 1) => Accounted(more, k))
    <2>1. /\ more.items = Append(b.items, short) /\ more.omitted = b.omitted
          /\ b.items \in Seq(Item(n)) /\ b.omitted \in Nat
      BY <1>4 DEF Bundle
    <2>2. more \in Bundle(n)
      <3>1. Append(b.items, short) \in Seq(Item(n))
        BY <1>5, <2>1
      <3> QED BY <1>4, <3>1, BundleFields
    <2>3. /\ Len(more.items) = Len(b.items) + 1 /\ more.items[Len(b.items) + 1] = short
          /\ \A i \in DOMAIN b.items : more.items[i] = b.items[i]
          /\ DOMAIN more.items = 1 .. Len(b.items) + 1 /\ DOMAIN b.items = 1 .. Len(b.items)
             /\ Len(b.items) \in Nat
      BY <1>5, <2>1
    <2>4. \A i \in DOMAIN b.items : b.items[i].cand \in Nat
      BY ItemsAreNumbered
    <2> HIDE DEF more
    <2>5. SUFFICES ASSUME Accounted(b, k - 1) PROVE Accounted(more, k)
      BY <2>2
    <2>6. \A i \in DOMAIN b.items : b.items[i].cand <= k - 1
      BY <2>5 DEF Accounted
    <2>7. Len(more.items) + more.omitted = k
      <3>1. Len(b.items) + b.omitted = k - 1
        BY <2>5 DEF Accounted
      <3>2. Len(more.items) = Len(b.items) + 1 /\ more.omitted = b.omitted
        BY <2>1, <2>3
      <3>3. Len(b.items) \in Int /\ b.omitted \in Int /\ k \in Int
        BY <2>1, <2>3
      <3> QED BY ONLY <3>1, <3>2, <3>3
    <2>8. \A i \in DOMAIN more.items : more.items[i].cand <= k
      BY <1>5, <2>3, <2>4, <2>6
    <2>9. ASSUME NEW i \in DOMAIN more.items, NEW j \in DOMAIN more.items, i < j
          PROVE  more.items[i].cand < more.items[j].cand
      <3>1. CASE j = Len(b.items) + 1
        <4>1. more.items[j].cand = k
          BY <1>5, <2>3, <3>1
        <4>2. i \in DOMAIN b.items
          BY <2>3, <2>9, <3>1
        <4>3. more.items[i] = b.items[i] /\ b.items[i].cand \in Nat /\ b.items[i].cand <= k - 1
          BY <2>3, <2>4, <2>6, <4>2
        <4> DEFINE x == b.items[i].cand
        <4>4. x \in Nat /\ x <= k - 1 /\ more.items[i].cand = x
          BY <4>3
        <4> HIDE DEF x
        <4> QED BY <4>1, <4>4
      <3>2. CASE j # Len(b.items) + 1
        <4>1. i \in DOMAIN b.items /\ j \in DOMAIN b.items
          BY <2>3, <2>9, <3>2
        <4>2. b.items[i].cand < b.items[j].cand
          BY <2>5, <2>9, <4>1 DEF Accounted
        <4> QED BY <2>3, <4>1, <4>2
      <3> QED BY <3>1, <3>2
    <2> QED BY <2>7, <2>8, <2>9 DEF Accounted
  <1> HIDE DEF more
  <1> QED BY <1>1, <1>4, <1>6, <1>7
\* The loop of Pack, candidate by candidate.
LEMMA PackSteps ==
  ASSUME NEW n \in Nat, pack.cands \in Seq(PackOffers), n = Len(pack.cands)
  PROVE  \E f : /\ f[0] = NoItems /\ \A k \in 1 .. n : f[k] = Consider(f[k - 1], k)
                /\ Pack = Estimated(TakeBack(f[n]))
  <1> DEFINE seq == [k \in DOMAIN pack.cands |-> k]
             A == Bundle(n)
             h == [p \in A \X (1 .. n) |-> Consider(p[1], p[2])]
             Step(g, s) == IF s = {} THEN NoItems ELSE Consider(g[s \ {Max(s)}], seq[Max(s)])
             Of(g) == g = [s \in SUBSET (DOMAIN seq) |-> Step(g, s)]
             iter == CHOOSE g : Of(g)
  <1>1. NoItems \in A
    BY DEF NoItems, Bundle
  <1>2. h \in [A \X (1 .. n) -> A] /\ \A b \in A, k \in 1 .. n : h[<<b, k>>] = Consider(b, k)
    BY ConsiderOne
  <1>3. DOMAIN seq = 1 .. n /\ \A k \in 1 .. n : seq[k] = k
    OBVIOUS
  <1>4. Pack = Estimated(TakeBack(iter[DOMAIN seq]))
    <2>1. FoldLeft(Consider, NoItems, seq) = iter[DOMAIN seq]
      BY DEF FoldLeft, MapThenFoldSet
    <2>2. Pack = Estimated(TakeBack(FoldLeft(Consider, NoItems, seq)))
      BY DEF Pack, seq
    <2> QED BY <2>1, <2>2
  <1> HIDE DEF seq, A, h
  <1>5. PICK g : Sequential(g, n, A, NoItems, h)
    BY <1>1, <1>2, SequenceRecursion
  <1>6. Of(iter)
    <2>1. ASSUME NEW s \in SUBSET (1 .. n) PROVE g[s] = Step(g, s)
      <3>1. CASE s = {}
        BY <1>5, <3>1 DEF Sequential
      <3>2. CASE s # {}
        <4>1. Max(s) \in 1 .. n /\ g[s \ {Max(s)}] \in A /\ g[s] = h[<<g[s \ {Max(s)}], Max(s)>>]
          BY <1>5, <3>2 DEF Sequential
        <4>2. seq[Max(s)] = Max(s)
          BY <1>3, <4>1
        <4>3. h[<<g[s \ {Max(s)}], Max(s)>>] = Consider(g[s \ {Max(s)}], Max(s))
          BY <1>2, <4>1
        <4> QED BY <3>2, <4>1, <4>2, <4>3
      <3> QED BY <3>1, <3>2
    <2>2. Of(g)
      <3> HIDE DEF Step
      <3> QED BY <1>3, <1>5, <2>1 DEF Sequential
    <2> HIDE DEF Of
    <2> QED BY <2>2
  <1> HIDE DEF iter
  <1>7. iter[{}] = NoItems /\ \A s \in SUBSET (1 .. n) : s # {}
        => iter[s] = Consider(iter[s \ {Max(s)}], seq[Max(s)])
    <2>1. \A s \in SUBSET (1 .. n) : iter[s] = Step(iter, s)
      <3> HIDE DEF Step
      <3> QED BY <1>3, <1>6
    <2> QED BY <2>1
  <1>8. Iterates(iter, n, A, h)
    <2>1. ASSUME NEW s \in SUBSET (1 .. n), s # {}, iter[s \ {Max(s)}] \in A
          PROVE  iter[s] = h[<<iter[s \ {Max(s)}], Max(s)>>]
      <3>1. Max(s) \in 1 .. n /\ iter[s] = Consider(iter[s \ {Max(s)}], seq[Max(s)])
        BY <1>5, <1>7, <2>1 DEF Sequential
      <3>2. seq[Max(s)] = Max(s)
        BY <1>3, <3>1
      <3>3. h[<<iter[s \ {Max(s)}], Max(s)>>] = Consider(iter[s \ {Max(s)}], Max(s))
        BY <1>2, <2>1, <3>1
      <3> QED BY <3>1, <3>2, <3>3
    <2> QED BY <1>1, <1>7, <2>1 DEF Iterates
  <1>9. PICK f : Steps(f, n, A, iter[{}], h, iter[1 .. n])
    BY <1>2, <1>8, StepByStep
  <1>10. f[0] = NoItems /\ Pack = Estimated(TakeBack(f[n]))
    BY <1>3, <1>4, <1>7, <1>9 DEF Steps
  <1>11. \A k \in 1 .. n : f[k] = Consider(f[k - 1], k)
    BY <1>2, <1>9 DEF Steps
  <1> HIDE DEF Of, Step
  <1> QED BY <1>10, <1>11

\* What the loop leaves for the last one to take back.
LEMMA PackLoop ==
  ASSUME NEW n \in Nat, pack.cands \in Seq(PackOffers), n = Len(pack.cands)
  PROVE  \E b \in Bundle(n) : Accounted(b, n) /\ Pack = Estimated(TakeBack(b))
  <1>1. PICK f : /\ f[0] = NoItems /\ \A k \in 1 .. n : f[k] = Consider(f[k - 1], k)
                 /\ Pack = Estimated(TakeBack(f[n]))
    BY PackSteps
  <1> DEFINE S == {k \in 0 .. n : f[k] \in Bundle(n) /\ Accounted(f[k], k)}
  <1>2. 0 \in S
    <2>1. NoItems \in Bundle(n) /\ Accounted(NoItems, 0)
      BY DEF NoItems, Bundle, Accounted
    <2> QED BY <1>1, <2>1
  <1>3. ASSUME NEW k \in 1 .. n, k - 1 \in S PROVE k \in S
    BY <1>1, <1>3, ConsiderOne
  <1>4. n \in S
    <2>1. n \in 0 .. n
      OBVIOUS
    <2> HIDE DEF S
    <2> QED BY <1>2, <1>3, <2>1, UpTo
  <1> QED BY <1>1, <1>4

\* What is taken back is counted, and what remains fits (budget.go 178).
LEMMA TakenBack ==
  ASSUME NEW n \in Nat, NEW b \in Bundle(n), Accounted(b, n)
  PROVE  /\ TakeBack(b) \in Bundle(n)
         /\ TakeBack(b).items # <<>> => BundleTokens(TakeBack(b), <<>>) <= PackBudget
         /\ Len(TakeBack(b).items) + TakeBack(b).omitted = n
         /\ \A j, k \in DOMAIN TakeBack(b).items :
              j < k => TakeBack(b).items[j].cand < TakeBack(b).items[k].cand
  <1> DEFINE size == Len(b.items)
             Kept(m) == [b EXCEPT !.items = SubSeq(@, 1, m), !.omitted = @ + Len(b.items) - m]
             keeps == {m \in 0 .. Len(b.items) : m = 0 \/ BundleTokens(Kept(m), <<>>) <= PackBudget}
             m == Max(keeps)
  <1>1. b.items \in Seq(Item(n)) /\ b.omitted \in Nat /\ size \in Nat
    BY BundleFields
  <1>2. m \in keeps
    <2>1. keeps \in SUBSET (0 .. size) /\ 0 \in keeps
      <3> HIDE DEF Kept
      <3> QED BY <1>1
    <2> HIDE DEF keeps, size
    <2>2. 0 \in Int /\ size \in Int
      BY <1>1
    <2>3. IsFiniteSet(0 .. size)
      BY <2>2, FS_Interval
    <2>4. IsFiniteSet(keeps)
      BY <2>1, <2>3, FS_Subset
    <2>5. keeps \in SUBSET Int /\ keeps # {}
      BY <2>1, <2>2
    <2> QED BY <2>4, <2>5, MaxOfSet
  <1>3. TakeBack(b) = Kept(m)
    BY DEF TakeBack
  <1> HIDE DEF m
  <1>4. Kept(m).items = SubSeq(b.items, 1, m) /\ Kept(m).omitted = b.omitted + size - m
    BY DEF Bundle
  <1>5. /\ Len(Kept(m).items) = m /\ DOMAIN Kept(m).items = 1 .. m
        /\ \A k \in 1 .. m : k \in DOMAIN b.items /\ Kept(m).items[k] = b.items[k]
    BY <1>1, <1>2, <1>4
  <1>6. m = 0 => Kept(m).items = <<>>
    BY <1>1, <1>4
  <1>10. Kept(m) \in Bundle(n)
    <2>1. SubSeq(b.items, 1, m) \in Seq(Item(n)) /\ b.omitted + size - m \in Nat
      BY <1>1, <1>2
    <2> DEFINE s == SubSeq(b.items, 1, m)
               o == b.omitted + size - m
    <2>2. Kept(m) = [b EXCEPT !.items = s, !.omitted = o]
      BY DEF Bundle
    <2>3. s \in Seq(Item(n)) /\ o \in Nat
      BY <2>1
    <2> HIDE DEF s, o, Kept
    <2>4. [b EXCEPT !.items = s, !.omitted = o] \in Bundle(n)
      <3> DEFINE I == Seq(Item(n))
                 R == SUBSET {c.relation : c \in PackOffers}
      <3>1. b \in [items : I, omitted : Nat, estimated : {0}, tests : Nat, relations : R] /\ s \in I
        BY <2>3 DEF Bundle
      <3> HIDE DEF I, R
      <3>2. [b EXCEPT !.items = s, !.omitted = o]
              \in [items : I, omitted : Nat, estimated : {0}, tests : Nat, relations : R]
        BY <2>3, <3>1
      <3> QED BY <3>2 DEF Bundle, I, R
    <2> QED BY <2>2, <2>4
  <1> HIDE DEF Kept, keeps
  <1>7. Kept(m).items # <<>> => BundleTokens(Kept(m), <<>>) <= PackBudget
    BY <1>2, <1>6 DEF keeps
  <1>8. Len(Kept(m).items) + Kept(m).omitted = n
    BY <1>1, <1>2, <1>4, <1>5 DEF Accounted, keeps
  <1>9. \A j, k \in DOMAIN Kept(m).items : j < k => Kept(m).items[j].cand < Kept(m).items[k].cand
    BY <1>5 DEF Accounted
  <1> QED BY <1>3, <1>7, <1>8, <1>9, <1>10

\* The lines of an item of a candidate are counted.
LEMMA ItemsHaveLines ==
  ASSUME NEW n \in Nat, NEW item \in Item(n), PackBudget \in Int
  PROVE  ItemLines(item) \in Nat
  <1>1. ASSUME NEW lines \in Nat, NEW room \in Int PROVE Elide(lines, room) \in Nat
    <2> DEFINE rest == room - 1
               some == Min({lines, rest})
               shown == Max({0, some})
    <2>1. rest \in Int /\ lines \in Int /\ 0 \in Int
      OBVIOUS
    <2> HIDE DEF rest
    <2>2. some = lines \/ some = rest
      BY <2>1, PairsHaveEnds
    <2>3. some \in Int
      BY <2>1, <2>2
    <2> HIDE DEF some
    <2>4. (shown = 0 \/ shown = some) /\ 0 <= shown
      BY <2>1, <2>3, PairsHaveEnds
    <2>5. shown \in Nat
      BY <2>3, <2>4
    <2> HIDE DEF shown
    <2> QED BY <2>5 DEF Elide, shown, some, rest
  <1>2. PackBudget \div 3 \in Int /\ PackBudget \div 5 \in Int
    OBVIOUS
  <1>3. Contents \subseteq Nat
    <2>1. \A c \in PackOffers : c.lines \in Nat
      BY PackAssumption
    <2>2. ASSUME NEW c \in PackOffers, NEW room \in {PackBudget \div 3, PackBudget \div 5}
          PROVE  Elide(c.lines, room) \in Nat
      BY <1>1, <1>2, <2>1
    <2> QED BY <2>1, <2>2 DEF Contents
  <1>4. item.content \in Nat
    BY <1>3 DEF Item
  <1> QED BY <1>4 DEF ItemLines

\* The budget of a request is a number.
LEMMA PackBudgetIsNumber ==
  ASSUME PackTypeOK, ~NothingToPack
  PROVE  PackBudget \in Int
  <1>1. pack.budget \in Int /\ MinPack \in Int /\ MaxPack \in Int
    <2> DEFINE Q == Seq(PackOffers)
    <2>1. pack \in [intent : PackIntents, mode : PackModes, budget : PackBudgets, cands : Q]
      BY DEF PackTypeOK
    <2> HIDE DEF Q
    <2>2. pack.budget \in PackBudgets
      BY <2>1
    <2>3. \A b \in PackBudgets : b \in Int
      BY PackAssumption
    <2>4. MinPack \in Int /\ MaxPack \in Int
      BY PackAssumption
    <2> QED BY <2>2, <2>3, <2>4
  <1> DEFINE b == pack.budget
             some == Min({MaxPack, b})
  <1>2. b \in Int
    BY <1>1
  <1> HIDE DEF b
  <1>3. some \in Int
    BY <1>1, <1>2, PairsHaveEnds
  <1> HIDE DEF some
  <1>4. Max({MinPack, some}) \in Int
    BY <1>1, <1>3, PairsHaveEnds
  <1> QED BY <1>4 DEF PackBudget, some, b

\* The estimate is of a part of what is measured, and only its digits come on
\* top (budget.go 185).
LEMMA EstimateIsOfAPart ==
  ASSUME NEW n \in Nat, NEW b \in Bundle(n), PackBudget \in Int
  PROVE  /\ Estimated(b).items = b.items /\ Estimated(b).omitted = b.omitted
         /\ BundleTokens(b, <<>>) \in Int /\ Estimated(b).estimated \in Int
         /\ Estimated(b).estimated <= BundleTokens(b, <<>>)
         /\ JsonTokens(Estimated(b), <<>>)
              = BundleTokens(b, <<>>) + NumberTokens(Estimated(b).estimated)
  <1> DEFINE l == Len(b.items)
             w == [k \in 1 .. l |-> Max({1, ItemLines(b.items[k])})]
             v == [k \in 1 .. l |-> ItemTokens(b.items[k])]
             z == [k \in DOMAIN <<>> |-> ItemTokens(<<>>[k])]
  <1>1. b.items \in Seq(Item(n)) /\ l \in Nat /\ DOMAIN b.items = 1 .. l /\ b.omitted \in Nat
    BY DEF Bundle
  <1>2. ASSUME NEW k \in 1 .. l PROVE w[k] \in Int /\ v[k] \in Int /\ w[k] <= v[k]
    <2> DEFINE x == ItemLines(b.items[k])
    <2>1. b.items[k] \in Item(n)
      BY <1>1
    <2>2. x \in Nat
      BY <2>1, ItemsHaveLines
    <2>3. w[k] = Max({1, x}) /\ v[k] = 1 + x
      BY DEF ItemTokens
    <2> HIDE DEF x, w, v
    <2>4. 1 \in Int /\ x \in Int
      BY <2>2
    <2>5. Max({1, x}) = 1 \/ Max({1, x}) = x
      BY <2>4, PairsHaveEnds
    <2> QED BY <2>2, <2>3, <2>5
  <1>3. w \in [1 .. l -> Int] /\ v \in [1 .. l -> Int] /\ \A k \in 1 .. l : w[k] <= v[k]
    BY <1>2
  <1>4. SourceTokens(b) = SumFunction(w)
    BY <1>1 DEF SourceTokens
  <1>5. SumFunction(z) = 0
    <2>1. z \in [1 .. 0 -> Int] /\ 1 .. 0 = {}
      OBVIOUS
    <2> HIDE DEF z
    <2>2. PICK g : g[{}] = 0 /\ SumFunction(z) = g[1 .. 0]
      BY <2>1, SumRecursion
    <2> QED BY <2>1, <2>2
  <1>6. ASSUME NEW x PROVE
          JsonTokens([b EXCEPT !.estimated = x], <<>>)
            = 2 + NumberTokens(b.omitted) + NumberTokens(x) + SumFunction(v) + SumFunction(z)
    <2>1. /\ [b EXCEPT !.estimated = x].items = b.items /\ [b EXCEPT !.estimated = x].omitted = b.omitted
          /\ [b EXCEPT !.estimated = x].estimated = x
      BY DEF Bundle
    <2> QED BY <1>1, <2>1 DEF JsonTokens
  <1> HIDE DEF w, v, z, l
  <1>7. SumFunction(w) \in Int /\ SumFunction(v) \in Int /\ SumFunction(w) <= SumFunction(v)
    BY <1>1, <1>3, SumsCompare
  <1> DEFINE s == SumFunction(w)
             t == SumFunction(v)
             y == SumFunction(z)
  <1>8. s \in Int /\ t \in Int /\ s <= t /\ y = 0
    BY <1>5, <1>7
  <1>9. /\ Estimated(b) = [b EXCEPT !.estimated = s]
        /\ Estimated(b).items = b.items /\ Estimated(b).omitted = b.omitted
        /\ Estimated(b).estimated = s
    BY <1>4 DEF Estimated, Bundle
  <1>10. /\ BundleTokens(b, <<>>) = 2 + NumberTokens(b.omitted) + NumberTokens(0) + t + y
         /\ JsonTokens(Estimated(b), <<>>) = 2 + NumberTokens(b.omitted) + NumberTokens(s) + t + y
    BY <1>6, <1>9 DEF BundleTokens
  <1> HIDE DEF s, t, y
  <1>11. NumberTokens(0) = 0 /\ NumberTokens(s) \in {0, 1} /\ NumberTokens(b.omitted) \in {0, 1}
    BY DEF NumberTokens
  <1> QED BY <1>8, <1>9, <1>10, <1>11

\* The packer is given candidates with an intent, a mode and a budget.
THEOREM PackIsTyped == PackSpec => []PackTypeOK
  <1>1. NothingToPack => PackTypeOK
    BY DEF PackTypeOK
  <1>2. PackTypeOK /\ [NextPack]_pack => PackTypeOK'
    <2> SUFFICES ASSUME PackTypeOK, [NextPack]_pack PROVE PackTypeOK'
      OBVIOUS
    <2>1. ASSUME NEW i \in PackIntents, NEW m \in PackModes, NEW b \in PackBudgets, PackRequest(i, m, b)
          PROVE  PackTypeOK'
      BY <2>1 DEF PackRequest, PackTypeOK
    <2>2. ASSUME NEW c \in PackOffers, PackCandidate(c)
          PROVE  PackTypeOK'
      <3>1. pack \in [intent : PackIntents, mode : PackModes, budget : PackBudgets,
            cands : Seq(PackOffers)]
        BY <2>2 DEF PackCandidate, PackTypeOK
      <3>2. Append(pack.cands, c) \in Seq(PackOffers)
        BY <3>1
      <3> QED BY <2>2, <3>1, <3>2 DEF PackCandidate, PackTypeOK
    <2>3. CASE UNCHANGED pack
      BY <2>3 DEF PackTypeOK, NothingToPack
    <2> QED BY <2>1, <2>2, <2>3 DEF NextPack
  <1> QED BY <1>1, <1>2, PTL DEF PackSpec

\* Measured without its estimate a bundle is within its budget, so what is sent
\* passes it by the digits of that number at most; and it accounts for every
\* candidate it was given (budget.go 78, 178, 185).
THEOREM BundleIsAccountedFor == PackSpec => []BundleAccountsForAll
  <1>1. PackTypeOK => BundleAccountsForAll
    <2> SUFFICES ASSUME PackTypeOK, ~NothingToPack PROVE BundleAccountsForAll
      BY DEF BundleAccountsForAll
    <2> DEFINE n == Len(pack.cands)
    <2>1. pack.cands \in Seq(PackOffers) /\ n \in Nat
      BY DEF PackTypeOK
    <2>2. PICK b \in Bundle(n) : Accounted(b, n) /\ Pack = Estimated(TakeBack(b))
      BY <2>1, PackLoop
    <2> DEFINE d == TakeBack(b)
    <2>3. /\ d \in Bundle(n)
          /\ d.items # <<>> => BundleTokens(d, <<>>) <= PackBudget
          /\ Len(d.items) + d.omitted = n
          /\ \A j, k \in DOMAIN d.items : j < k => d.items[j].cand < d.items[k].cand
      BY <2>1, <2>2, TakenBack
    <2> HIDE DEF d
    <2>4. /\ Pack.items = d.items /\ Pack.omitted = d.omitted
          /\ BundleTokens(d, <<>>) \in Int /\ Pack.estimated \in Int
          /\ Pack.estimated <= BundleTokens(d, <<>>)
          /\ JsonTokens(Pack, <<>>) = BundleTokens(d, <<>>) + NumberTokens(Pack.estimated)
      BY <2>1, <2>2, <2>3, EstimateIsOfAPart, PackBudgetIsNumber DEF d
    <2>5. PackBudget \in Int /\ NumberTokens(Pack.estimated) \in Int
      BY PackBudgetIsNumber DEF NumberTokens
    <2> DEFINE x == BundleTokens(d, <<>>)
               y == JsonTokens(Pack, <<>>)
               t == NumberTokens(Pack.estimated)
               e == Pack.estimated
               limit == PackBudget
    <2>6. d.items # <<>> => y <= limit + t /\ e <= limit
      <3>1. /\ x \in Int /\ e \in Int /\ t \in Int /\ limit \in Int /\ e <= x /\ y = x + t
            /\ d.items # <<>> => x <= limit
        BY <2>3, <2>4, <2>5
      <3> HIDE DEF x, y, t, e, limit
      <3> QED BY <3>1
    <2> HIDE DEF n
    <2> QED BY <2>3, <2>4, <2>6 DEF BundleAccountsForAll, n
  <1> QED BY <1>1, PackIsTyped, PTL

-----------------------------------------------------------------------------
(* Evidence: preprocess                                                    *)

\* What ByHandle may have collected of the candidates C.
Collected(C) == [kept : Seq(C), duplicates : Nat]

\* One candidate more is collected, in its place or at the end.
LEMMA PutOne ==
  ASSUME NEW C, NEW seen \in Collected(C), NEW c \in C
  PROVE  Put(seen, c) \in Collected(C)
  <1> DEFINE same == {i \in DOMAIN seen.kept : seen.kept[i].handle = c.handle /\ c.handle # 0}
  <1>1. seen.kept \in Seq(C) /\ seen.duplicates \in Nat
        /\ seen = [kept |-> seen.kept, duplicates |-> seen.duplicates]
    BY DEF Collected
  <1>2. Append(seen.kept, c) \in Seq(C)
    BY <1>1
  <1>3. ASSUME NEW i PROVE [seen.kept EXCEPT ![i] = c] \in Seq(C)
    <2> DEFINE t == [seen.kept EXCEPT ![i] = c]
    <2>1. DOMAIN t = 1 .. Len(seen.kept) /\ \A j \in 1 .. Len(seen.kept) : t[j] \in C
      BY <1>1
    <2>2. t \in [1 .. Len(seen.kept) -> C]
      BY <2>1
    <2> QED BY <1>1, <2>2
  <1> DEFINE kept == IF Stronger(c.context, seen.kept[Min(same)].context)
                     THEN [seen.kept EXCEPT ![Min(same)] = c] ELSE seen.kept
  <1>4. kept \in Seq(C)
    BY <1>1, <1>3
  <1>5. Put(seen, c) = IF same = {} THEN [seen EXCEPT !.kept = Append(@, c)]
                       ELSE [kept |-> kept, duplicates |-> seen.duplicates + 1]
    BY DEF Put
  <1> HIDE DEF kept, same
  <1>6. [seen EXCEPT !.kept = Append(@, c)] = [kept |-> Append(seen.kept, c),
        duplicates |-> seen.duplicates]
    BY <1>1
  <1>7. [kept |-> kept, duplicates |-> seen.duplicates + 1] \in Collected(C)
    BY <1>1, <1>4 DEF Collected
  <1>8. [kept |-> Append(seen.kept, c), duplicates |-> seen.duplicates] \in Collected(C)
    BY <1>1, <1>2 DEF Collected
  <1> QED BY <1>5, <1>6, <1>7, <1>8

\* ByHandle, candidate by candidate.
LEMMA PutSteps ==
  ASSUME NEW C, NEW cands \in Seq(C)
  PROVE  \E f \in [0 .. Len(cands) -> Collected(C)] :
           /\ f[0] = [kept |-> <<>>, duplicates |-> 0] /\ ByHandle(cands) = f[Len(cands)]
           /\ \A k \in 1 .. Len(cands) : f[k - 1] \in Collected(C) /\ f[k] = Put(f[k - 1], cands[k])
  <1> DEFINE n == Len(cands)
             A == Collected(C)
             base == [kept |-> <<>>, duplicates |-> 0]
             h == [p \in A \X (1 .. n) |-> Put(p[1], cands[p[2]])]
             Step(g, s) == IF s = {} THEN base ELSE Put(g[s \ {Max(s)}], cands[Max(s)])
             Of(g) == g = [s \in SUBSET (DOMAIN cands) |-> Step(g, s)]
             iter == CHOOSE g : Of(g)
  <1>1. n \in Nat /\ DOMAIN cands = 1 .. n /\ base \in A
    BY DEF Collected
  <1>2. h \in [A \X (1 .. n) -> A] /\ \A a \in A, k \in 1 .. n : h[<<a, k>>] = Put(a, cands[k])
    BY PutOne
  <1>3. ByHandle(cands) = iter[DOMAIN cands]
    BY DEF ByHandle, FoldLeft, MapThenFoldSet
  <1> HIDE DEF n, A, base, h
  <1>4. PICK g : Sequential(g, n, A, base, h)
    BY <1>1, <1>2, SequenceRecursion
  <1>5. Of(iter)
    <2>1. \A s \in SUBSET (1 .. n) : g[s] = Step(g, s)
      BY <1>2, <1>4 DEF Sequential
    <2>2. Of(g)
      <3> HIDE DEF Step
      <3> QED BY <1>1, <1>4, <2>1 DEF Sequential
    <2> HIDE DEF Of
    <2> QED BY <2>2
  <1> HIDE DEF iter
  <1>6. iter[{}] = base /\ \A s \in SUBSET (1 .. n) : s # {}
        => iter[s] = Put(iter[s \ {Max(s)}], cands[Max(s)])
    <2>1. \A s \in SUBSET (1 .. n) : iter[s] = Step(iter, s)
      <3> HIDE DEF Step
      <3> QED BY <1>1, <1>5
    <2> QED BY <2>1
  <1>7. Iterates(iter, n, A, h)
    BY <1>1, <1>2, <1>4, <1>6 DEF Sequential, Iterates
  <1>8. PICK f : Steps(f, n, A, iter[{}], h, iter[1 .. n])
    BY <1>1, <1>2, <1>7, StepByStep
  <1>9. f \in [0 .. n -> A] /\ f[0] = base /\ ByHandle(cands) = f[n]
    BY <1>1, <1>3, <1>6, <1>8 DEF Steps
  <1>10. \A k \in 1 .. n : f[k - 1] \in A /\ f[k] = Put(f[k - 1], cands[k])
    BY <1>2, <1>8 DEF Steps
  <1> HIDE DEF Of, Step
  <1> QED BY <1>9, <1>10 DEF n, A, base

\* No two of what is kept have the same handle.
KeptApart(kept) ==
  \A i, j \in DOMAIN kept : i # j /\ kept[i].handle # 0 => kept[i].handle # kept[j].handle

\* A candidate takes the place of one with its handle, or has a new one.
LEMMA PutKeepsApart ==
  ASSUME NEW C, NEW seen \in Collected(C), NEW c \in C, KeptApart(seen.kept)
  PROVE  KeptApart(Put(seen, c).kept)
  <1> DEFINE same == {i \in DOMAIN seen.kept : seen.kept[i].handle = c.handle /\ c.handle # 0}
             m == Len(seen.kept)
  <1>1. seen.kept \in Seq(C) /\ seen = [kept |-> seen.kept, duplicates |-> seen.duplicates]
    BY DEF Collected
  <1>2. DOMAIN seen.kept = 1 .. m /\ m \in Nat
    BY <1>1
  <1>3. CASE same = {}
    <2>1. Put(seen, c).kept = Append(seen.kept, c)
      BY <1>1, <1>3 DEF Put
    <2>2. DOMAIN Append(seen.kept, c) = 1 .. m + 1 /\ Append(seen.kept, c)[m + 1] = c
          /\ \A i \in 1 .. m : Append(seen.kept, c)[i] = seen.kept[i] /\ i \in DOMAIN seen.kept
      BY <1>1, <1>2
    <2>3. \A i \in 1 .. m + 1 : i \in 1 .. m \/ i = m + 1
      BY <1>2
    <2>4. \A i \in 1 .. m : c.handle # 0 => seen.kept[i].handle # c.handle
      BY <1>2, <1>3
    <2> HIDE DEF same, m
    <2>5. ASSUME NEW i \in 1 .. m + 1, NEW j \in 1 .. m + 1, i # j, Append(seen.kept, c)[i].handle # 0
          PROVE  Append(seen.kept, c)[i].handle # Append(seen.kept, c)[j].handle
      <3>1. CASE i = m + 1 /\ j \in 1 .. m
        BY <2>2, <2>4, <2>5, <3>1
      <3>2. CASE i \in 1 .. m /\ j = m + 1
        BY <2>2, <2>4, <2>5, <3>2
      <3>3. CASE i \in 1 .. m /\ j \in 1 .. m
        BY <2>2, <2>5, <3>3 DEF KeptApart
      <3> QED BY <2>3, <2>5, <3>1, <3>2, <3>3
    <2> QED BY <2>1, <2>2, <2>5 DEF KeptApart
  <1>4. CASE same # {}
    <2> DEFINE i0 == Min(same)
               kept == Put(seen, c).kept
    <2>1. i0 \in same
      <3>1. same \in SUBSET (1 .. m)
        BY <1>2
      <3>2. IsFiniteSet(same) /\ same \in SUBSET Int
        <4> HIDE DEF same
        <4> QED BY <1>2, <3>1, FirstNumbers
      <3> HIDE DEF same
      <3> QED BY <1>4, <3>2, MinOfSet
    <2>2. kept = [seen.kept EXCEPT ![i0] = c] \/ kept = seen.kept
      BY <1>4 DEF Put
    <2>3. i0 \in 1 .. m /\ seen.kept[i0].handle = c.handle
      BY <1>2, <2>1
    <2> HIDE DEF i0, kept
    <2>4. DOMAIN kept = 1 .. m /\ \A i \in 1 .. m : kept[i].handle = seen.kept[i].handle
      BY <1>1, <1>2, <2>2, <2>3
    <2> QED BY <1>2, <2>4 DEF KeptApart, kept
  <1> QED BY <1>3, <1>4

\* ByHandle keeps candidates it was given, each handle once (compiler.go
\* 199).
LEMMA ByHandleIs ==
  ASSUME NEW C, NEW cands \in Seq(C)
  PROVE  ByHandle(cands) \in Collected(C) /\ KeptApart(ByHandle(cands).kept)
  <1> DEFINE n == Len(cands)
  <1>1. PICK f \in [0 .. n -> Collected(C)] :
           /\ f[0] = [kept |-> <<>>, duplicates |-> 0] /\ ByHandle(cands) = f[n]
           /\ \A k \in 1 .. n : f[k - 1] \in Collected(C) /\ f[k] = Put(f[k - 1], cands[k])
    BY PutSteps
  <1>2. n \in Nat /\ \A k \in 1 .. n : cands[k] \in C
    OBVIOUS
  <1> DEFINE S == {k \in 0 .. n : KeptApart(f[k].kept)}
  <1>3. 0 \in S
    <2>1. f[0].kept = <<>>
      BY <1>1
    <2>2. KeptApart(<<>>)
      BY DEF KeptApart
    <2> QED BY <1>2, <2>1, <2>2
  <1>4. ASSUME NEW k \in 1 .. n, k - 1 \in S PROVE k \in S
    <2>1. f[k - 1] \in Collected(C) /\ f[k] = Put(f[k - 1], cands[k]) /\ KeptApart(f[k - 1].kept)
      BY <1>1, <1>4
    <2>2. k \in 0 .. n
      OBVIOUS
    <2> QED BY <1>2, <2>1, <2>2, PutKeepsApart
  <1>5. n \in S
    <2> HIDE DEF S, n
    <2> QED BY <1>2, <1>3, <1>4, UpTo
  <1>6. n \in 0 .. n
    BY <1>2
  <1> QED BY <1>1, <1>5, <1>6

\* Every role has a place in the order of presentation.
LEMMA PriorityIsNumber ==
  ASSUME NEW intent, NEW role
  PROVE  Priority(intent, role) \in Nat
  <1> DEFINE roles == Priorities(intent)
             at == {i \in DOMAIN roles : roles[i] = role}
  <1>1. DOMAIN roles = 1 .. Len(roles) /\ Len(roles) \in Nat
    <2>1. CASE intent = "callers"
      BY <2>1 DEF Priorities
    <2>2. CASE intent = "tests"
      BY <2>2 DEF Priorities
    <2>3. CASE intent = "impact"
      BY <2>3 DEF Priorities
    <2>4. CASE intent \notin {"callers", "tests", "impact"}
      <3>1. roles = <<"target", "implementation", "definition", "declaration", "type", "caller",
            "callee",
                      "test", "import", "reference", "config", "template", "change", "dependent",
                      "context", "documentation">>
        BY <2>4 DEF Priorities
      <3> HIDE DEF roles
      <3> QED BY <3>1
    <2> QED BY <2>1, <2>2, <2>3, <2>4
  <1> HIDE DEF roles
  <1>2. at \in SUBSET (1 .. Len(roles))
    BY <1>1
  <1>3. IsFiniteSet(at) /\ at \in SUBSET Int
    <2> HIDE DEF at
    <2> QED BY <1>1, <1>2, FirstNumbers
  <1>4. at # {} => Min(at) \in at
    <2> HIDE DEF at
    <2> QED BY <1>3, MinOfSet
  <1>5. at # {} => Min(at) \in Nat
    <2>1. at \in SUBSET Nat
      BY <1>1
    <2> HIDE DEF at
    <2> QED BY <1>4, <2>1
  <1> HIDE DEF at
  <1> QED BY <1>1, <1>5 DEF Priority, roles, at

\* The presentation has each candidate once, whatever the intent (roles.go
\* 54).
LEMMA PresentationIs ==
  ASSUME NEW intent, NEW C, NEW cands \in Seq(C)
  PROVE  /\ Presentation(intent, cands) \in Seq(DOMAIN cands)
         /\ \A i, j \in DOMAIN Presentation(intent, cands) :
              i # j => Presentation(intent, cands)[i] # Presentation(intent, cands)[j]
         /\ \A i \in DOMAIN cands : \E k \in DOMAIN Presentation(intent,
            cands) : Presentation(intent, cands)[k] = i
         /\ Len(Presentation(intent, cands)) = Len(cands)
  <1> DEFINE D == DOMAIN cands
             Key(i) == Priority(intent, Role(intent, cands, i))
             key == [i \in D |-> Key(i)]
             B == {p \in D \X D : key[p[1]] < key[p[2]] \/ (key[p[1]] = key[p[2]] /\ p[1] < p[2])}
             f == Ordered(D, B)
  <1>1. Presentation(intent, cands) = f
    BY DEF Presentation, Sorted
  <1>2. IsFiniteSet(D) /\ D \in SUBSET Int /\ Cardinality(D) = Len(cands)
    <2>1. D = 1 .. Len(cands) /\ Len(cands) \in Nat
      OBVIOUS
    <2> QED BY <2>1, FirstNumbers
  <1>3. key \in [D -> Nat]
    BY PriorityIsNumber
  <1> HIDE DEF D, key
  <1>4. \A x, y \in D : <<x, y>> \in B <=> key[x] < key[y] \/ (key[x] = key[y] /\ x < y)
    OBVIOUS
  <1>5. \A x \in D : key[x] \in Int /\ x \in Int
    BY <1>2, <1>3
  <1>6. /\ \A x, y \in D : x # y => <<x, y>> \in B \/ <<y, x>> \in B
        /\ \A x, y \in D : <<x, y>> \in B => <<y, x>> \notin B
        /\ \A x, y, z \in D : <<x, y>> \in B /\ <<y, z>> \in B => <<x, z>> \in B
    <2> HIDE DEF B
    <2> QED BY <1>4, <1>5
  <1> HIDE DEF B
  <1>7. /\ f \in Seq(D) /\ \A i, j \in DOMAIN f : i < j => <<f[i], f[j]>> \in B
    BY <1>2, <1>6, OrderedIs
  <1>8. Len(f) = Cardinality(D)
    BY <1>2, <1>6, OrderedIs
  <1>9. \A x \in D : \E k \in DOMAIN f : f[k] = x
    <2>1. /\ Ordered(D, B) \in Seq(D) /\ Len(Ordered(D, B)) = Cardinality(D)
          /\ \A x \in D : \E k \in DOMAIN Ordered(D, B) : Ordered(D, B)[k] = x
          /\ \A i, j \in DOMAIN Ordered(D, B) : i < j => <<Ordered(D, B)[i], Ordered(D, B)[j]>> \in B
      BY <1>2, <1>6, OrderedIs
    <2> QED BY <2>1
  <1> HIDE DEF f
  <1>10. ASSUME NEW i \in DOMAIN f, NEW j \in DOMAIN f, i # j PROVE f[i] # f[j]
    <2>1. i < j \/ j < i
      BY <1>7, <1>10
    <2>2. f[i] \in D /\ f[j] \in D
      BY <1>7
    <2>3. <<f[i], f[j]>> \in B \/ <<f[j], f[i]>> \in B
      BY <1>7, <2>1
    <2> QED BY <1>6, <2>2, <2>3
  <1> QED BY <1>1, <1>2, <1>7, <1>8, <1>9, <1>10 DEF D

\* The prepared candidate i.
Entry(request, cands, i) ==
  [c |-> cands[i], role |-> Role(request.intent, cands, i), rank |-> i - 1,
   variants |-> Variants(cands[i], Role(request.intent, cands, i), request.mode)]

\* What may be prepared of the candidates.
Entries(request, cands) == {Entry(request, cands, i) : i \in DOMAIN cands}

\* What preprocess may have found.
Seen(request, cands, C) ==
  [prepared : Seq(Entries(request, cands)), duplicates : Nat, skipped : Nat,
   hashes : SUBSET {<<c.path, c.hash>> : c \in C}, spans : SUBSET {<<c.path, c.span>> : c \in C}]

\* What is invalid, or a copy of what was marked.
Passed(c, digests, spans) ==
  c.handle = 0 \/ c.span = 0 \/ <<c.path, c.hash>> \in digests \/ <<c.path, c.span>> \in spans

\* What is prepared when candidate i is valid and no copy.
Prepared(request, cands, prepared, i) ==
  IF cands[i].handle \in ToSet(request.known) \/ Entry(request, cands, i).variants = <<>> THEN prepared
  ELSE Append(prepared, Entry(request, cands, i))

\* What preprocess has found, put together.
Found(prepared, duplicates, skipped, digests, spans) ==
  [prepared |-> prepared, duplicates |-> duplicates, skipped |-> skipped, hashes |-> digests,
      spans |-> spans]

\* One of the things preprocess does to what it has found.
Skipping(s) == [s EXCEPT !.skipped = @ + 1]
Doubling(s) == [s EXCEPT !.duplicates = @ + 1]
Taking(s, e) == [s EXCEPT !.prepared = Append(@, e)]

\* What it marks of a candidate.
HashesWith(digests, c) == IF c.hash = 0 THEN digests ELSE digests \cup {<<c.path, c.hash>>}
SpansWith(spans, c) == spans \cup {<<c.path, c.span>>}

\* Marking a candidate changes only the marks.
LEMMA MarkIs ==
  ASSUME NEW p, NEW d, NEW k, NEW h, NEW x, NEW c, NEW known, NEW s, s = Found(p, d, k, h, x)
  PROVE  Mark(s, c, known) = Found(p, d, k, HashesWith(h, c), SpansWith(x, c))
  <1> DEFINE digests == IF c.hash = 0 THEN s.hashes ELSE s.hashes \cup {<<c.path, c.hash>>}
             spans == {<<c.path, c.span>>}
             Only(q, g, y) == [prepared : {p}, duplicates : {d}, skipped : {q}, hashes : {g},
                              spans : {y}]
  <1>1. s \in Only(k, h, x) /\ s.hashes = h /\ s.spans = x
    BY DEF Found
  <1>2. Mark(s, c, known) = [s EXCEPT !.hashes = digests, !.spans = @ \cup spans]
    BY DEF Mark
  <1> HIDE DEF digests, spans
  <1>3. [s EXCEPT !.hashes = digests, !.spans = @ \cup spans] \in Only(k, digests, x \cup spans)
    BY <1>1
  <1>4. Mark(s, c, known) = Found(p, d, k, digests, x \cup spans)
    BY <1>2, <1>3 DEF Found
  <1> QED BY <1>1, <1>4 DEF digests, spans, HashesWith, SpansWith

\* Counting one changes only the counts.
LEMMA CountsAre ==
  ASSUME NEW p, NEW d, NEW k, NEW h, NEW x, NEW s, s = Found(p, d, k, h, x)
  PROVE  /\ Skipping(s) = Found(p, d, k + 1, h, x)
         /\ Doubling(s) = Found(p, d + 1, k, h, x)
  BY DEF Found, Skipping, Doubling

\* Taking one changes only what is prepared.
LEMMA TakingIs ==
  ASSUME NEW p, NEW d, NEW k, NEW h, NEW x, NEW e, NEW s, s = Found(p, d, k, h, x)
  PROVE  Taking(s, e) = Found(Append(p, e), d, k, h, x)
  BY DEF Found, Taking

\* next is seen with what candidate i adds to it.
Follows(request, cands, C, seen, i, next) ==
  LET c == cands[i]
      passed == Passed(c, seen.hashes, seen.spans)
  IN /\ next \in Seen(request, cands, C)
     /\ next.hashes = IF passed THEN seen.hashes ELSE HashesWith(seen.hashes, c)
     /\ next.spans = IF passed THEN seen.spans ELSE SpansWith(seen.spans, c)
     /\ next.prepared = IF passed THEN seen.prepared ELSE Prepared(request, cands, seen.prepared, i)

\* One candidate more is passed, or marked and prepared (compiler.go 213).
LEMMA PrepareOne ==
  ASSUME NEW request, NEW C, NEW cands \in Seq(C), NEW seen \in Seen(request, cands, C),
           NEW i \in DOMAIN cands
  PROVE  Follows(request, cands, C, seen, i, Prepare(request, cands, seen, i))
  <1> DEFINE c == cands[i]
             e == Entry(request, cands, i)
             passed == Passed(c, seen.hashes, seen.spans)
             known == c.handle \in ToSet(request.known)
             marked == Mark(seen, c, known)
             next == Prepare(request, cands, seen, i)
             H == {<<d.path, d.hash>> : d \in C}
             X == {<<d.path, d.span>> : d \in C}
             E == Entries(request, cands)
             digests == HashesWith(seen.hashes, c)
             spans == SpansWith(seen.spans, c)
  <1>1. seen \in [prepared : Seq(E), duplicates : Nat, skipped : Nat, hashes : SUBSET H,
        spans : SUBSET X]
    BY DEF Seen
  <1>2. c \in C /\ <<c.path, c.hash>> \in H /\ <<c.path, c.span>> \in X
    OBVIOUS
  <1>3. e \in E
    BY DEF Entries
  <1> HIDE DEF E, H, X, e
  <1>4. seen = Found(seen.prepared, seen.duplicates, seen.skipped, seen.hashes, seen.spans)
    BY <1>1 DEF Found
  <1>5. digests \in SUBSET H /\ spans \in SUBSET X /\ Append(seen.prepared, e) \in Seq(E)
    <2>1. digests \in SUBSET H /\ spans \in SUBSET X
      BY <1>1, <1>2 DEF HashesWith, SpansWith
    <2>2. Append(seen.prepared, e) \in Seq(E)
      BY <1>1, <1>3
    <2> QED BY <2>1, <2>2
  <1>6. \A k : Mark(seen, c, k) = Found(seen.prepared, seen.duplicates, seen.skipped, digests, spans)
    <2> SUFFICES ASSUME NEW k PROVE Mark(seen, c, k) = Found(seen.prepared, seen.duplicates,
             seen.skipped, digests, spans)
      OBVIOUS
    <2> HIDE DEF c
    <2>1. Mark(seen, c, k) = Found(seen.prepared, seen.duplicates, seen.skipped, digests, spans)
      BY ONLY <1>4, MarkIs
    <2> QED BY <2>1
  <1>7. ASSUME NEW p \in Seq(E), NEW d \in Nat, NEW k \in Nat, NEW h \in SUBSET H, NEW x \in SUBSET X
        PROVE  /\ Found(p, d, k, h, x) \in Seen(request, cands, C)
               /\ Found(p, d, k, h, x).prepared = p /\ Found(p, d, k, h, x).hashes = h
               /\ Found(p, d, k, h, x).spans = x
    BY DEF Seen, Found, E, H, X
  <1>8. CASE passed
    <2>1. next = seen \/ next = Doubling(seen)
      BY <1>8 DEF Prepare, Passed, Doubling
    <2>2. Doubling(seen) = Found(seen.prepared, seen.duplicates + 1, seen.skipped, seen.hashes,
          seen.spans)
      BY <1>4, CountsAre
    <2>3. seen.duplicates + 1 \in Nat /\ seen.duplicates \in Nat /\ seen.skipped \in Nat
      BY <1>1
    <2> HIDE DEF next
    <2>4. /\ next \in Seen(request, cands, C) /\ next.hashes = seen.hashes /\ next.spans = seen.spans
          /\ next.prepared = seen.prepared
      BY <1>1, <1>4, <1>7, <2>1, <2>2, <2>3
    <2> QED BY <1>8, <2>4 DEF next, Follows
  <1>9. CASE ~ passed
    <2> DEFINE variants == e.variants
    <2>1. /\ known => next = Skipping(Mark(seen, c, TRUE))
          /\ ~ known /\ variants = <<>> => next = Mark(seen, c, FALSE)
          /\ ~ known /\ variants # <<>> => next = Taking(Mark(seen, c, FALSE), e)
      BY <1>9 DEF Prepare, Passed, Entry, e, Skipping, Taking
    <2>2. Prepared(request, cands, seen.prepared, i) =
            IF known \/ variants = <<>> THEN seen.prepared ELSE Append(seen.prepared, e)
      BY DEF Prepared, e
    <2> HIDE DEF next, known, variants, digests, spans
    <2>3. seen.skipped + 1 \in Nat /\ seen.duplicates \in Nat /\ seen.skipped \in Nat
          /\ seen.prepared \in Seq(E)
      BY <1>1
    <2>4. CASE known
      <3>1. next = Found(seen.prepared, seen.duplicates, seen.skipped + 1, digests, spans)
        <4> DEFINE m == Mark(seen, c, TRUE)
        <4>1. m = Found(seen.prepared, seen.duplicates, seen.skipped, digests, spans)
              /\ next = Skipping(m)
          BY <1>6, <2>1, <2>4
        <4> HIDE DEF m
        <4> QED BY <4>1, CountsAre
      <3>2. next \in Seen(request, cands, C) /\ next.hashes = digests /\ next.spans = spans
            /\ next.prepared = seen.prepared
        BY <1>5, <1>7, <2>3, <3>1
      <3> QED BY <1>9, <2>2, <2>4, <3>2 DEF next, digests, spans, Follows
    <2>5. CASE ~ known /\ variants = <<>>
      <3>1. next = Found(seen.prepared, seen.duplicates, seen.skipped, digests, spans)
        BY <1>6, <2>1, <2>5
      <3>2. next \in Seen(request, cands, C) /\ next.hashes = digests /\ next.spans = spans
            /\ next.prepared = seen.prepared
        BY <1>5, <1>7, <2>3, <3>1
      <3> QED BY <1>9, <2>2, <2>5, <3>2 DEF next, digests, spans, Follows
    <2>6. CASE ~ known /\ variants # <<>>
      <3>1. next = Found(Append(seen.prepared, e), seen.duplicates, seen.skipped, digests, spans)
        <4> DEFINE m == Mark(seen, c, FALSE)
        <4>1. m = Found(seen.prepared, seen.duplicates, seen.skipped, digests, spans)
              /\ next = Taking(m, e)
          BY <1>6, <2>1, <2>6
        <4> HIDE DEF m
        <4> QED BY <4>1, TakingIs
      <3>2. /\ next \in Seen(request, cands, C) /\ next.hashes = digests /\ next.spans = spans
            /\ next.prepared = Append(seen.prepared, e)
        <4> DEFINE more == Append(seen.prepared, e)
        <4>1. more \in Seq(E)
          BY <1>5
        <4> HIDE DEF more
        <4>2. next = Found(more, seen.duplicates, seen.skipped, digests, spans)
          BY <3>1 DEF more
        <4>3. /\ next \in Seen(request, cands, C) /\ next.hashes = digests /\ next.spans = spans
              /\ next.prepared = more
          BY <1>5, <1>7, <2>3, <4>1, <4>2
        <4> QED BY <4>3 DEF more
      <3> QED BY <1>9, <2>2, <2>6, <3>2 DEF next, digests, spans, Follows
    <2> QED BY <2>4, <2>5, <2>6
  <1> QED BY <1>8, <1>9

\* The loop of preprocess, candidate by candidate.
LEMMA PrepareSteps ==
  ASSUME NEW request, NEW C, request.cands \in Seq(C), NEW cands, cands = ByHandle(request.cands).kept,
         NEW order, order = Presentation(request.intent, cands), NEW first,
             first = ByHandle(request.cands).duplicates
  PROVE  \E f : /\ f \in [0 .. Len(order) -> Seen(request, cands, C)]
                   /\ f[0] = Found(<<>>, first, 0, {}, {}) /\ Preprocess(request) = f[Len(order)]
               /\ \A k \in 1 .. Len(order) : f[k - 1] \in Seen(request, cands, C)
                  /\ f[k] = Prepare(request, cands, f[k - 1], order[k])
  <1> DEFINE seq == order
             n == Len(seq)
             A == Seen(request, cands, C)
             base == Found(<<>>, first, 0, {}, {})
             Op(a, x) == Prepare(request, cands, a, x)
             h == [p \in A \X (1 .. n) |-> Op(p[1], seq[p[2]])]
             Step(g, s) == IF s = {} THEN base ELSE Op(g[s \ {Max(s)}], seq[Max(s)])
             Of(g) == g = [s \in SUBSET (DOMAIN seq) |-> Step(g, s)]
             iter == CHOOSE g : Of(g)
  <1>1. /\ cands \in Seq(C) /\ first \in Nat /\ order \in Seq(DOMAIN cands)
    <2>1. ByHandle(request.cands) \in Collected(C)
      BY ByHandleIs
    <2>2. cands \in Seq(C) /\ first \in Nat
      BY <2>1 DEF Collected
    <2> QED BY <2>2, PresentationIs
  <1>2. n \in Nat /\ DOMAIN seq = 1 .. n /\ base \in A
    BY <1>1 DEF Seen, Found
  <1>3. h \in [A \X (1 .. n) -> A] /\ \A a \in A, k \in 1 .. n : h[<<a, k>>] = Op(a, seq[k])
    <2>1. \A k \in 1 .. n : order[k] \in DOMAIN cands
      BY <1>1
    <2>2. ASSUME NEW a \in A, NEW k \in 1 .. n PROVE Op(a, seq[k]) \in A
      <3> DEFINE i == order[k]
      <3>1. i \in DOMAIN cands
        BY <2>1
      <3> HIDE DEF i, seq, n
      <3>2. Prepare(request, cands, a, i) \in Seen(request, cands, C)
        BY <1>1, <3>1, PrepareOne DEF Follows
      <3> QED BY <3>2 DEF i, seq
    <2> HIDE DEF A, n, Op, seq
    <2> QED BY <2>2
  <1>4. Preprocess(request) = iter[DOMAIN seq]
    BY DEF Preprocess, Found, FoldLeft, MapThenFoldSet
  <1> HIDE DEF seq, n, A, base, Op, h
  <1>5. PICK g : Sequential(g, n, A, base, h)
    BY <1>2, <1>3, SequenceRecursion
  <1>6. Of(iter)
    <2>1. \A s \in SUBSET (1 .. n) : g[s] = Step(g, s)
      BY <1>3, <1>5 DEF Sequential
    <2>2. Of(g)
      <3> HIDE DEF Step
      <3> QED BY <1>2, <1>5, <2>1 DEF Sequential
    <2> HIDE DEF Of
    <2> QED BY <2>2
  <1> HIDE DEF iter
  <1>7. iter[{}] = base /\ \A s \in SUBSET (1 .. n) : s # {}
        => iter[s] = Op(iter[s \ {Max(s)}], seq[Max(s)])
    <2>1. \A s \in SUBSET (1 .. n) : iter[s] = Step(iter, s)
      <3> HIDE DEF Step
      <3> QED BY <1>2, <1>6
    <2> QED BY <2>1
  <1>8. Iterates(iter, n, A, h)
    BY <1>2, <1>3, <1>5, <1>7 DEF Sequential, Iterates
  <1>9. PICK f : Steps(f, n, A, iter[{}], h, iter[1 .. n])
    BY <1>2, <1>3, <1>8, StepByStep
  <1>10. f \in [0 .. n -> A] /\ f[0] = base /\ Preprocess(request) = f[n]
    BY <1>2, <1>4, <1>7, <1>9 DEF Steps
  <1>11. \A k \in 1 .. n : f[k - 1] \in A /\ f[k] = Op(f[k - 1], seq[k])
    BY <1>3, <1>9 DEF Steps
  <1> HIDE DEF Of, Step
  <1> QED BY <1>10, <1>11 DEF seq, n, A, base, Op

\* Prepared candidates have different handles and different lines.
Apart(prepared) ==
  \A a, b \in DOMAIN prepared :
    a # b => /\ prepared[a].c.handle # prepared[b].c.handle
             /\ <<prepared[a].c.path, prepared[a].c.span>> # <<prepared[b].c.path, prepared[b].c.span>>

\* What is prepared is of the first k, is not known and its lines are marked.
Taken(request, cands, order, seen, k) ==
  \A a \in DOMAIN seen.prepared :
    LET p == seen.prepared[a] IN
    /\ \E l \in 1 .. k : p = Entry(request, cands, order[l])
    /\ p.c.handle # 0 /\ p.c.span # 0
    /\ p.c.handle \notin ToSet(request.known) /\ <<p.c.path, p.c.span>> \in seen.spans

\* A candidate with a known handle, or with marked lines, is not prepared.
LEMMA PrepareKeepsApart ==
  ASSUME NEW request, NEW C, NEW cands \in Seq(C), KeptApart(cands),
         NEW order \in Seq(DOMAIN cands), \A i, j \in DOMAIN order : i # j => order[i] # order[j],
         NEW k \in 1 .. Len(order), NEW seen \in Seen(request, cands, C),
         Taken(request, cands, order, seen, k - 1), Apart(seen.prepared)
  PROVE  LET next == Prepare(request, cands, seen, order[k])
         IN Taken(request, cands, order, next, k) /\ Apart(next.prepared)
  <1> DEFINE i == order[k]
             c == cands[i]
             e == Entry(request, cands, i)
             next == Prepare(request, cands, seen, i)
             m == Len(seen.prepared)
  <1>1. i \in DOMAIN cands /\ \A l \in 1 .. k - 1 : order[l] \in DOMAIN cands /\ order[l] # i
    OBVIOUS
  <1>2. seen.prepared \in Seq(Entries(request, cands)) /\ DOMAIN seen.prepared = 1 .. m /\ m \in Nat
    BY DEF Seen
  <1>3. e.c = c /\ e \in Entries(request, cands)
    BY <1>1 DEF Entry, Entries
  <1>4. \A l \in 1 .. k - 1 : l \in 1 .. k
    OBVIOUS
  <1>5. k \in 1 .. k
    OBVIOUS
  <1> DEFINE Known == ToSet(request.known)
  <1> HIDE DEF i, next, e, Known
  <1>6. /\ seen.spans \subseteq next.spans
        /\ next.prepared = seen.prepared
           \/ /\ next.prepared = Append(seen.prepared, e) /\ c.handle # 0 /\ c.span # 0
              /\ c.handle \notin Known
              /\ <<c.path, c.span>> \notin seen.spans /\ <<c.path, c.span>> \in next.spans
    <2> DEFINE passed == Passed(c, seen.hashes, seen.spans)
    <2>1. /\ next.spans = IF passed THEN seen.spans ELSE seen.spans \cup {<<c.path, c.span>>}
          /\ next.prepared = IF passed THEN seen.prepared
             ELSE Prepared(request, cands, seen.prepared, i)
      <3>1. Follows(request, cands, C, seen, i, next)
        BY <1>1, PrepareOne DEF next
      <3> QED BY <3>1 DEF Follows, SpansWith
    <2>2. Prepared(request, cands, seen.prepared, i) =
            IF c.handle \in Known \/ e.variants = <<>> THEN seen.prepared ELSE Append(seen.prepared, e)
      BY DEF Prepared, e, Known
    <2>3. CASE passed
      BY <2>1, <2>3
    <2>4. CASE ~ passed
      <3>1. c.handle # 0 /\ c.span # 0 /\ <<c.path, c.span>> \notin seen.spans
        BY <2>4 DEF Passed
      <3> HIDE DEF passed
      <3> QED BY <2>1, <2>2, <2>4, <3>1
    <2> QED BY <2>3, <2>4
  <1>7. CASE next.prepared = seen.prepared
    <2>1. Taken(request, cands, order, next, k)
      BY <1>4, <1>6, <1>7 DEF Taken
    <2> QED BY <1>7, <2>1 DEF next, i
  <1>8. CASE next.prepared # seen.prepared
    <2> DEFINE q == next.prepared
    <2>1. DOMAIN q = 1 .. m + 1 /\ q[m + 1] = e /\ \A a \in 1 .. m : q[a] = seen.prepared[a]
      <3> DEFINE s == seen.prepared
                 E == Entries(request, cands)
      <3>1. q = Append(s, e)
        BY <1>6, <1>8
      <3>2. s \in Seq(E) /\ e \in E /\ m = Len(s)
        BY <1>2, <1>3
      <3> HIDE DEF s, E, q, m
      <3>3. DOMAIN q = 1 .. m + 1 /\ q[m + 1] = e /\ \A a \in 1 .. m : q[a] = s[a]
        BY <3>1, <3>2
      <3> QED BY <3>3 DEF s
    <2>2. \A a \in 1 .. m + 1 : a \in 1 .. m \/ a = m + 1
      BY <1>2
    <2>3. /\ c.handle # 0 /\ c.span # 0 /\ c.handle \notin Known
          /\ <<c.path, c.span>> \notin seen.spans /\ <<c.path, c.span>> \in next.spans
      BY <1>6, <1>8
    <2> HIDE DEF q
    <2>4. ASSUME NEW a \in 1 .. m
          PROVE  /\ \E l \in 1 .. k : q[a] = Entry(request, cands, order[l])
                 /\ q[a].c.handle # 0 /\ q[a].c.span # 0 /\ q[a].c.handle \notin Known
                    /\ <<q[a].c.path, q[a].c.span>> \in seen.spans
                 /\ q[a].c.handle # c.handle
      <3>1. q[a] = seen.prepared[a]
        BY <2>1
      <3>2. PICK l \in 1 .. k - 1 : seen.prepared[a] = Entry(request, cands, order[l])
        BY <1>2 DEF Taken
      <3>3. seen.prepared[a].c = cands[order[l]]
        BY <3>2 DEF Entry
      <3>4. cands[order[l]].handle # c.handle
        BY <1>1, <2>3 DEF KeptApart
      <3> QED BY <1>2, <1>4, <3>1, <3>2, <3>3, <3>4 DEF Taken, Known
    <2>5. Taken(request, cands, order, next, k)
      <3> SUFFICES ASSUME NEW a \in 1 .. m + 1
                   PROVE  /\ \E l \in 1 .. k : q[a] = Entry(request, cands, order[l])
                          /\ q[a].c.handle # 0 /\ q[a].c.span # 0 /\ q[a].c.handle \notin Known
                          /\ <<q[a].c.path, q[a].c.span>> \in next.spans
        BY <2>1 DEF Taken, Known, q
      <3>1. CASE a \in 1 .. m
        BY <1>6, <2>4, <3>1
      <3>2. CASE a = m + 1
        BY <1>3, <1>5, <2>1, <2>3, <3>2 DEF e, i
      <3> QED BY <2>2, <3>1, <3>2
    <2>6. Apart(q)
      <3> SUFFICES ASSUME NEW a \in 1 .. m + 1, NEW b \in 1 .. m + 1, a # b
                   PROVE  q[a].c.handle # q[b].c.handle
                            /\ <<q[a].c.path, q[a].c.span>> # <<q[b].c.path, q[b].c.span>>
        BY <2>1 DEF Apart
      <3>1. CASE a \in 1 .. m /\ b \in 1 .. m
        BY <1>2, <2>1, <3>1 DEF Apart
      <3>2. CASE a \in 1 .. m /\ b = m + 1
        <4>1. q[b].c = c
          BY <1>3, <2>1, <3>2
        <4>2. <<q[a].c.path, q[a].c.span>> # <<c.path, c.span>>
          BY <2>3, <2>4, <3>2
        <4> QED BY <2>4, <3>2, <4>1, <4>2
      <3>3. CASE a = m + 1 /\ b \in 1 .. m
        <4>1. q[a].c = c
          BY <1>3, <2>1, <3>3
        <4>2. <<q[b].c.path, q[b].c.span>> # <<c.path, c.span>>
          BY <2>3, <2>4, <3>3
        <4> QED BY <2>4, <3>3, <4>1, <4>2
      <3> QED BY <2>2, <3>1, <3>2, <3>3
    <2> QED BY <2>5, <2>6 DEF next, i, q
  <1> QED BY <1>7, <1>8

\* What preprocess prepares has different handles and lines, and none the
\* client knows.
LEMMA PreparedIs ==
  ASSUME NEW request, NEW C, request.cands \in Seq(C)
  PROVE  LET found == Preprocess(request)
             cands == ByHandle(request.cands).kept
         IN /\ cands \in Seq(C) /\ found \in Seen(request, cands, C) /\ Apart(found.prepared)
            /\ \A a \in DOMAIN found.prepared :
                 /\ found.prepared[a].c.handle # 0 /\ found.prepared[a].c.span # 0
                 /\ found.prepared[a].c.handle \notin ToSet(request.known)
  <1> DEFINE found == Preprocess(request)
             cands == ByHandle(request.cands).kept
             first == ByHandle(request.cands).duplicates
             order == Presentation(request.intent, cands)
             n == Len(order)
             S == Seen(request, cands, C)
  <1>1. cands \in Seq(C) /\ KeptApart(cands)
    BY ByHandleIs DEF Collected
  <1>2. order \in Seq(DOMAIN cands) /\ \A i, j \in DOMAIN order : i # j => order[i] # order[j]
    BY <1>1, PresentationIs
  <1>3. PICK f : /\ f \in [0 .. n -> S] /\ f[0] = Found(<<>>, first, 0, {}, {}) /\ found = f[n]
                 /\ \A k \in 1 .. n : f[k - 1] \in S
                    /\ f[k] = Prepare(request, cands, f[k - 1], order[k])
    <2> HIDE DEF found, cands, first, order, S
    <2>1. cands = ByHandle(request.cands).kept /\ order = Presentation(request.intent, cands)
          /\ first = ByHandle(request.cands).duplicates /\ found = Preprocess(request)
          /\ S = Seen(request, cands, C)
      BY DEF cands, order, first, found, S
    <2> QED BY <2>1, PrepareSteps
  <1> DEFINE T == {k \in 0 .. n : Taken(request, cands, order, f[k], k) /\ Apart(f[k].prepared)}
  <1> HIDE DEF found, cands, first, order
  <1>4. n \in Nat
    BY <1>2
  <1>5. 0 \in T
    <2>1. f[0].prepared = <<>>
      BY <1>3 DEF Found
    <2> QED BY <1>4, <2>1 DEF Taken, Apart
  <1>6. ASSUME NEW k \in 1 .. n, k - 1 \in T PROVE k \in T
    <2>1. f[k - 1] \in S /\ f[k] = Prepare(request, cands, f[k - 1], order[k]) /\ k \in 0 .. n
      BY <1>3
    <2>2. Taken(request, cands, order, f[k - 1], k - 1) /\ Apart(f[k - 1].prepared)
      BY <1>6
    <2> HIDE DEF n
    <2>3. Taken(request, cands, order, f[k], k) /\ Apart(f[k].prepared)
      BY <1>1, <1>2, <2>1, <2>2, PrepareKeepsApart DEF n
    <2> QED BY <2>1, <2>3
  <1>7. n \in T /\ n \in 0 .. n
    <2> HIDE DEF T, n
    <2> QED BY <1>4, <1>5, <1>6, UpTo
  <1>8. found \in S /\ Taken(request, cands, order, found, n) /\ Apart(found.prepared)
    BY <1>3, <1>7
  <1> QED BY <1>1, <1>8 DEF Taken, found, cands

\* The same question, by a client that knows nothing.
Afresh(request, fresh) ==
  /\ fresh.intent = request.intent /\ fresh.mode = request.mode /\ fresh.cands = request.cands
  /\ fresh.known = <<>>

\* All of the one is among the other.
AmongAll(prepared, all) == \A a \in DOMAIN prepared : \E b \in DOMAIN all : prepared[a] = all[b]

\* The same marks, whatever else was found.
SameMarks(seen, other) == seen.hashes = other.hashes /\ seen.spans = other.spans

\* A sequence with one element more.
LEMMA SequenceGrows ==
  ASSUME NEW S, NEW s \in Seq(S), NEW e \in S
  PROVE  /\ DOMAIN s = 1 .. Len(s) /\ Len(s) \in Nat /\ DOMAIN Append(s, e) = 1 .. Len(s) + 1
         /\ Append(s, e)[Len(s) + 1] = e /\ \A a \in 1 .. Len(s) : Append(s, e)[a] = s[a]
  OBVIOUS

\* What is known changes what is prepared, not what is marked.
LEMMA PrepareAfresh ==
  ASSUME NEW request, NEW fresh, Afresh(request, fresh), NEW C, NEW cands \in Seq(C),
           NEW i \in DOMAIN cands,
         NEW seen \in Seen(request, cands, C), NEW other \in Seen(fresh, cands, C),
         SameMarks(seen, other), AmongAll(seen.prepared, other.prepared)
  PROVE  /\ SameMarks(Prepare(request, cands, seen, i), Prepare(fresh, cands, other, i))
         /\ AmongAll(Prepare(request, cands, seen, i).prepared, Prepare(fresh, cands, other,
            i).prepared)
  <1> DEFINE c == cands[i]
             e == Entry(request, cands, i)
             next == Prepare(request, cands, seen, i)
             new == Prepare(fresh, cands, other, i)
             passed == Passed(c, seen.hashes, seen.spans)
             E == Entries(fresh, cands)
             known == c.handle \in ToSet(request.known)
  <1>1. e = Entry(fresh, cands, i)
    BY DEF Entry, Afresh
  <1>2. Follows(request, cands, C, seen, i, next) /\ Follows(fresh, cands, C, other, i, new)
    BY PrepareOne
  <1>3. c.handle \notin ToSet(fresh.known)
    BY DEF Afresh, ToSet
  <1>4. e \in E /\ seen.prepared \in Seq(Entries(request, cands)) /\ other.prepared \in Seq(E)
        /\ e \in Entries(request, cands)
    BY <1>1 DEF Entries, Seen
  <1>5. /\ Prepared(request, cands, seen.prepared, i) =
             IF known \/ e.variants = <<>> THEN seen.prepared ELSE Append(seen.prepared, e)
        /\ Prepared(fresh, cands, other.prepared, i) =
             IF e.variants = <<>> THEN other.prepared ELSE Append(other.prepared, e)
    BY <1>1, <1>3 DEF Prepared
  <1>6. Passed(c, other.hashes, other.spans) <=> passed
    BY DEF SameMarks
  <1> HIDE DEF next, new, e, E, known
  <1>7. SameMarks(next, new)
    <2>1. CASE passed
      BY <1>2, <1>6, <2>1 DEF Follows, SameMarks
    <2>2. CASE ~ passed
      BY <1>2, <1>6, <2>2 DEF Follows, SameMarks
    <2> QED BY <2>1, <2>2
  <1>8. AmongAll(next.prepared, new.prepared)
    <2> DEFINE p == seen.prepared
               q == other.prepared
    <2>1. CASE passed
      BY <1>2, <1>6, <2>1 DEF Follows
    <2>2. CASE ~ passed
      <3>1. /\ next.prepared = IF known \/ e.variants = <<>> THEN p ELSE Append(p, e)
            /\ new.prepared = IF e.variants = <<>> THEN q ELSE Append(q, e)
        BY <1>2, <1>5, <1>6, <2>2 DEF Follows
      <3>2. AmongAll(p, q) /\ p \in Seq(Entries(request, cands)) /\ q \in Seq(E)
        BY <1>4
      <3> HIDE DEF p, q
      <3>3. /\ DOMAIN q = 1 .. Len(q) /\ Len(q) \in Nat /\ DOMAIN Append(q, e) = 1 .. Len(q) + 1
            /\ Append(q, e)[Len(q) + 1] = e /\ \A a \in 1 .. Len(q) : Append(q, e)[a] = q[a]
        BY <1>4, <3>2, SequenceGrows
      <3>4. /\ DOMAIN p = 1 .. Len(p) /\ Len(p) \in Nat /\ DOMAIN Append(p, e) = 1 .. Len(p) + 1
            /\ Append(p, e)[Len(p) + 1] = e /\ \A a \in 1 .. Len(p) : Append(p, e)[a] = p[a]
        BY <1>4, <3>2, SequenceGrows
      <3>5. AmongAll(p, Append(q, e))
        <4>1. \A b \in DOMAIN q : b \in DOMAIN Append(q, e) /\ Append(q, e)[b] = q[b]
          BY <3>3
        <4> QED BY <3>2, <4>1 DEF AmongAll
      <3>6. AmongAll(Append(p, e), Append(q, e))
        <4> SUFFICES ASSUME NEW a \in 1 .. Len(p) + 1
                     PROVE  \E b \in DOMAIN Append(q, e) : Append(p, e)[a] = Append(q, e)[b]
          BY <3>4 DEF AmongAll
        <4>1. CASE a = Len(p) + 1
          <5>1. Len(q) + 1 \in DOMAIN Append(q, e)
            BY <3>3
          <5> QED BY <3>3, <3>4, <4>1, <5>1
        <4>2. CASE a # Len(p) + 1
          <5>1. a \in 1 .. Len(p)
            BY <3>4, <4>2
          <5> QED BY <3>4, <3>5, <5>1 DEF AmongAll
        <4> QED BY <4>1, <4>2
      <3> QED BY <3>1, <3>2, <3>5, <3>6
    <2> QED BY <2>1, <2>2
  <1> QED BY <1>7, <1>8 DEF next, new

\* A client that knows more is prepared nothing that one who knows nothing is
\* not.
LEMMA AllAreFresh ==
  ASSUME NEW request, NEW fresh, Afresh(request, fresh), NEW C, request.cands \in Seq(C)
  PROVE  AmongAll(Preprocess(request).prepared, Preprocess(fresh).prepared)
  <1> DEFINE cands == ByHandle(request.cands).kept
             first == ByHandle(request.cands).duplicates
             order == Presentation(request.intent, cands)
             n == Len(order)
             S == Seen(request, cands, C)
             R == Seen(fresh, cands, C)
  <1>1. /\ cands \in Seq(C) /\ order \in Seq(DOMAIN cands)
    <2>1. cands \in Seq(C)
      BY ByHandleIs DEF Collected
    <2> QED BY <2>1, PresentationIs
  <1>2. PICK f : /\ f \in [0 .. n -> S] /\ f[0] = Found(<<>>, first, 0, {}, {})
                    /\ Preprocess(request) = f[n]
                 /\ \A k \in 1 .. n : f[k - 1] \in S
                    /\ f[k] = Prepare(request, cands, f[k - 1], order[k])
    <2> HIDE DEF cands, first, order, S
    <2>1. cands = ByHandle(request.cands).kept /\ order = Presentation(request.intent, cands)
          /\ first = ByHandle(request.cands).duplicates /\ S = Seen(request, cands, C)
             /\ request.cands \in Seq(C)
      BY DEF cands, order, first, S
    <2> QED BY ONLY <2>1, PrepareSteps
  <1>3. PICK g : /\ g \in [0 .. n -> R] /\ g[0] = Found(<<>>, first, 0, {}, {})
                    /\ Preprocess(fresh) = g[n]
                 /\ \A k \in 1 .. n : g[k - 1] \in R /\ g[k] = Prepare(fresh, cands, g[k - 1], order[k])
    <2> HIDE DEF cands, first, order, R
    <2>1. cands = ByHandle(fresh.cands).kept /\ order = Presentation(fresh.intent, cands)
          /\ first = ByHandle(fresh.cands).duplicates /\ R = Seen(fresh, cands, C)
             /\ fresh.cands \in Seq(C)
      BY DEF cands, order, first, R, Afresh
    <2> QED BY ONLY <2>1, PrepareSteps
  <1> DEFINE T == {k \in 0 .. n : SameMarks(f[k], g[k]) /\ AmongAll(f[k].prepared, g[k].prepared)}
  <1> HIDE DEF cands, first, order
  <1>4. n \in Nat
    BY <1>1
  <1>5. 0 \in T
    <2>1. f[0] = g[0] /\ 0 \in 0 .. n
      BY <1>2, <1>3, <1>4
    <2> QED BY <2>1 DEF SameMarks, AmongAll
  <1>6. ASSUME NEW k \in 1 .. n, k - 1 \in T PROVE k \in T
    <2>1. /\ f[k - 1] \in S /\ f[k] = Prepare(request, cands, f[k - 1], order[k]) /\ k \in 0 .. n
          /\ g[k - 1] \in R /\ g[k] = Prepare(fresh, cands, g[k - 1], order[k])
      BY <1>2, <1>3
    <2>2. SameMarks(f[k - 1], g[k - 1]) /\ AmongAll(f[k - 1].prepared, g[k - 1].prepared)
      BY <1>6
    <2>3. order[k] \in DOMAIN cands
      BY <1>1
    <2> HIDE DEF n
    <2>4. SameMarks(f[k], g[k]) /\ AmongAll(f[k].prepared, g[k].prepared)
      BY <1>1, <2>1, <2>2, <2>3, PrepareAfresh
    <2> QED BY <2>1, <2>4
  <1>7. n \in T
    <2> HIDE DEF T, n
    <2> QED BY <1>4, <1>5, <1>6, UpTo
  <1> QED BY <1>2, <1>3, <1>7

-----------------------------------------------------------------------------
(* Evidence: sizes                                                         *)

\* The forms a candidate is shown in, and their sizes.
Fidelities == {"verbatim", "excerpt", "signature", "synthetic"}
Forms == [fidelity : Fidelities, tokens : Nat \ {0}]

\* Every usable candidate has a form (variants.go).
LEMMA VariantsAreForms ==
  ASSUME NEW c, c.lines \in Nat, NEW role, NEW manner
  PROVE  Variants(c, role, manner) \in Seq(Forms) /\ ((c.nature = "outline" => c.lines > 0)
           => Variants(c, role, manner) # <<>>)
  <1> DEFINE verbatim == Text("verbatim", 2 + c.lines \div 10)
             excerpt == Text("excerpt", 3)
             compact == \/ role \in {"target", "implementation"} /\ c.lines < 40
                        \/ role \in {"caller", "callee", "test"} /\ c.lines < 24
             focused == role \in {"target", "implementation"} \/ c.hits
             body == IF c.lines = 0 \/ manner = "outline" THEN <<>>
                     ELSE IF manner = "source" THEN <<verbatim>> \o (IF c.lines > 1 THEN <<excerpt>>
                         ELSE <<>>)
                     ELSE IF compact THEN <<verbatim>>
                     ELSE IF focused THEN <<excerpt>> ELSE <<>>
  <1>1. verbatim \in Forms /\ excerpt \in Forms /\ Text("signature", 1) \in Forms
        /\ Text("synthetic", 2) \in Forms
    <2>1. \A n \in Nat : 2 + n \div 10 \in Nat \ {0}
      OBVIOUS
    <2>2. \A n \in Nat \ {0}, f \in Fidelities : Text(f, n) \in Forms
      BY DEF Text, Forms
    <2>3. 1 \in Nat \ {0} /\ 2 \in Nat \ {0} /\ 3 \in Nat \ {0}
      OBVIOUS
    <2>4. "verbatim" \in Fidelities /\ "excerpt" \in Fidelities
      BY DEF Fidelities
    <2>5. "signature" \in Fidelities /\ "synthetic" \in Fidelities
      BY DEF Fidelities
    <2>6. 2 + c.lines \div 10 \in Nat \ {0}
      BY <2>1
    <2>7. verbatim \in Forms
      BY <2>2, <2>4, <2>6
    <2>8. excerpt \in Forms
      BY <2>2, <2>3, <2>4
    <2>9. Text("signature", 1) \in Forms
      BY <2>2, <2>3, <2>5
    <2>10. Text("synthetic", 2) \in Forms
      BY <2>2, <2>3, <2>5
    <2> QED BY <2>7, <2>8, <2>9, <2>10
  <1> HIDE DEF verbatim, excerpt
  <1>2. body \in Seq(Forms)
    <2>1. <<verbatim>> \in Seq(Forms) /\ <<excerpt>> \in Seq(Forms) /\ <<>> \in Seq(Forms)
      BY <1>1
    <2>2. <<verbatim>> \o <<excerpt>> \in Seq(Forms) /\ <<verbatim>> \o <<>> \in Seq(Forms)
      BY <2>1
    <2> HIDE DEF compact, focused
    <2> QED BY <2>1, <2>2
  <1>3. Variants(c, role, manner) = IF c.nature # "outline" THEN Append(body, Text("signature", 1))
                                  ELSE IF c.lines > 0 THEN <<Text("synthetic", 2)>> ELSE <<>>
    BY DEF Variants, verbatim, excerpt
  <1> HIDE DEF body
  <1>4. Append(body, Text("signature", 1)) \in Seq(Forms) /\ <<Text("synthetic", 2)>> \in Seq(Forms)
        /\ <<>> \in Seq(Forms)
    BY <1>1, <1>2
  <1>5. Append(body, Text("signature", 1)) # <<>> /\ <<Text("synthetic", 2)>> # <<>>
    <2> DEFINE x == Text("signature", 1)
    <2> HIDE DEF x
    <2>1. x \in Forms
      BY <1>1 DEF x
    <2>2. DOMAIN Append(body, x) = 1 .. Len(body) + 1 /\ Len(body) \in Nat
      BY <1>2, <2>1, SequenceGrows
    <2>3. 1 \in DOMAIN Append(body, x)
      BY <2>2
    <2> QED BY <2>3 DEF x
  <1> QED BY <1>3, <1>4, <1>5

\* The values of a function.
Values(f) == {f[x] : x \in DOMAIN f}

\* A finite domain has finitely many values.
LEMMA ValuesAreFinite ==
  ASSUME NEW f, IsFiniteSet(DOMAIN f)
  PROVE  IsFiniteSet(Values(f))
  <1> DEFINE g == [x \in DOMAIN f |-> f[x]]
  <1>1. g \in Surjection(DOMAIN f, Values(f))
    BY DEF Surjection, Values
  <1> HIDE DEF g
  <1> QED BY <1>1, FS_Surjection

\* A sequence has finitely many elements.
LEMMA ToSetIsFinite ==
  ASSUME NEW S, NEW s \in Seq(S)
  PROVE  IsFiniteSet(ToSet(s)) /\ ToSet(s) \in SUBSET S
           /\ \A x \in ToSet(s) : \E k \in DOMAIN s : s[k] = x
  <1>1. DOMAIN s = 1 .. Len(s) /\ Len(s) \in Nat
    OBVIOUS
  <1>2. IsFiniteSet(Values(s))
    BY <1>1, FirstNumbers, ValuesAreFinite
  <1>3. ToSet(s) = Values(s)
    BY DEF ToSet, Values
  <1>4. ToSet(s) \in SUBSET S /\ \A x \in ToSet(s) : \E k \in DOMAIN s : s[k] = x
    BY DEF ToSet
  <1> QED BY <1>2, <1>3, <1>4

\* Finitely many candidates have finitely many edges.
LEMMA EdgesAreFinite ==
  ASSUME NEW shown, IsFiniteSet(shown)
  PROVE  IsFiniteSet(Edges(shown))
  <1> DEFINE handles == {p.c.handle : p \in shown}
             cs == {p.c : p \in shown}
             joined == {c \in cs :
                   /\ c.context # NoContext /\ c.context.direction # "related"
                   /\ c.context.anchor \in handles \ {c.handle}}
             Edge(c) == [from |-> IF c.context.direction = "incoming" THEN c.handle
                        ELSE c.context.anchor,
                         to |-> IF c.context.direction = "incoming" THEN c.context.anchor ELSE c.handle,
                         kind |-> EdgeKind(c.context.kind), certainty |-> Certainty(c.context)]
             cf == [p \in shown |-> p.c]
             ef == [c \in joined |-> Edge(c)]
  <1>1. IsFiniteSet(cs)
    <2>1. cs = Values(cf) /\ DOMAIN cf = shown
      BY DEF Values
    <2> HIDE DEF cs, cf
    <2> QED BY <2>1, ValuesAreFinite
  <1>2. IsFiniteSet(joined)
    <2>1. joined \subseteq cs
      OBVIOUS
    <2> HIDE DEF joined, cs
    <2> QED BY <1>1, <2>1, FS_Subset
  <1>3. Edges(shown) = {Edge(c) : c \in joined}
    BY DEF Edges
  <1> HIDE DEF Edge, joined
  <1>4. {Edge(c) : c \in joined} = Values(ef) /\ DOMAIN ef = joined
    BY DEF Values
  <1> HIDE DEF ef
  <1> QED BY <1>2, <1>3, <1>4, ValuesAreFinite

\* A packet whose size is a number.
Sized(p) ==
  /\ \E n \in Nat : DOMAIN p.evidence = 1 .. n
  /\ \A k \in DOMAIN p.evidence : p.evidence[k].tokens \in Nat /\ p.evidence[k].meta \in Nat
  /\ IsFiniteSet(p.relations) /\ Len(p.limitations) \in Nat /\ Len(p.next) \in Nat

\* The size of such a packet is a number.
LEMMA BodyIsNumber ==
  ASSUME NEW p, Sized(p)
  PROVE  Body(p) \in Int
  <1> DEFINE w == [i \in DOMAIN p.evidence |-> ItemSize(p.evidence[i])]
  <1>1. PICK n \in Nat : DOMAIN p.evidence = 1 .. n
    BY DEF Sized
  <1>2. w \in [1 .. n -> Int]
    BY <1>1 DEF Sized, ItemSize
  <1>3. SumFunction(w) \in Int
    <2> HIDE DEF w
    <2>1. \A i \in 1 .. n : w[i] <= w[i]
      BY <1>2
    <2> QED BY <1>2, <2>1, SumsCompare
  <1>4. Cardinality(p.relations) \in Nat
    BY FS_CardinalityType DEF Sized
  <1>5. Digits(p.omitted) \in Int
    BY DEF Digits
  <1>6. Body(p) = 2 + SumFunction(w) + Cardinality(p.relations) + Len(p.limitations) + Len(p.next)
                    + 2 * Digits(p.omitted) + (IF p.skipped > 0 THEN 1 ELSE 0)
    BY DEF Body
  <1> DEFINE a == SumFunction(w)
             b == Cardinality(p.relations)
             l == Len(p.limitations)
             x == Len(p.next)
             d == Digits(p.omitted)
             z == IF p.skipped > 0 THEN 1 ELSE 0
  <1>7. a \in Int /\ b \in Int /\ l \in Int /\ x \in Int /\ d \in Int /\ z \in Int
    BY <1>3, <1>4, <1>5 DEF Sized
  <1>8. Body(p) = 2 + a + b + l + x + 2 * d + z
    BY <1>6
  <1> HIDE DEF a, b, l, x, d, z
  <1> QED BY <1>7, <1>8

\* The rounds of settleWireUsage.
LEMMA SettleSteps ==
  ASSUME NEW p, Body(p) \in Int, p.used \in Int
  PROVE  \E f : /\ f \in [0 .. 5 -> Int] /\ f[0] = p.used /\ Settle(p) = [p EXCEPT !.used = f[5]]
               /\ \A k \in 1 .. 5 : f[k - 1] \in Int /\ f[k] = Body(p) + 2 * Digits(f[k - 1])
  <1> DEFINE seq == <<1, 2, 3, 4, 5>>
             n == 5
             A == Int
             base == p.used
             Op(a, x) == Body(p) + 2 * Digits(a)
             h == [z \in A \X (1 .. n) |-> Op(z[1], seq[z[2]])]
             Step(g, s) == IF s = {} THEN base ELSE Op(g[s \ {Max(s)}], seq[Max(s)])
             Of(g) == g = [s \in SUBSET (DOMAIN seq) |-> Step(g, s)]
             iter == CHOOSE g : Of(g)
  <1>1. n \in Nat /\ DOMAIN seq = 1 .. n /\ base \in A
    OBVIOUS
  <1>2. h \in [A \X (1 .. n) -> A] /\ \A a \in A, k \in 1 .. n : h[<<a, k>>] = Op(a, seq[k])
    <2>1. \A a \in A, k \in 1 .. n : Op(a, seq[k]) \in A
      BY DEF Digits
    <2> HIDE DEF A, n, Op, seq
    <2> QED BY <2>1
  <1>3. Settle(p) = [p EXCEPT !.used = iter[DOMAIN seq]]
    BY DEF Settle, FoldLeft, MapThenFoldSet
  <1> HIDE DEF seq, n, A, base, Op, h
  <1>4. PICK g : Sequential(g, n, A, base, h)
    BY <1>1, <1>2, SequenceRecursion
  <1>5. Of(iter)
    <2>1. \A s \in SUBSET (1 .. n) : g[s] = Step(g, s)
      BY <1>2, <1>4 DEF Sequential
    <2>2. Of(g)
      <3> HIDE DEF Step
      <3> QED BY <1>1, <1>4, <2>1 DEF Sequential
    <2> HIDE DEF Of
    <2> QED BY <2>2
  <1> HIDE DEF iter
  <1>6. iter[{}] = base /\ \A s \in SUBSET (1 .. n) : s # {}
        => iter[s] = Op(iter[s \ {Max(s)}], seq[Max(s)])
    <2>1. \A s \in SUBSET (1 .. n) : iter[s] = Step(iter, s)
      <3> HIDE DEF Step
      <3> QED BY <1>1, <1>5
    <2> QED BY <2>1
  <1>7. Iterates(iter, n, A, h)
    BY <1>1, <1>2, <1>4, <1>6 DEF Sequential, Iterates
  <1>8. PICK f : Steps(f, n, A, iter[{}], h, iter[1 .. n])
    BY <1>1, <1>2, <1>7, StepByStep
  <1>9. f \in [0 .. n -> A] /\ f[0] = base /\ Settle(p) = [p EXCEPT !.used = f[n]]
    BY <1>1, <1>3, <1>6, <1>8 DEF Steps
  <1>10. \A k \in 1 .. n : f[k - 1] \in A /\ f[k] = Op(f[k - 1], seq[k])
    BY <1>2, <1>8 DEF Steps
  <1> HIDE DEF Of, Step
  <1> QED BY <1>9, <1>10 DEF seq, n, A, base, Op

\* What has settled at u is as large as it says; it says no more than a size
\* that does not grow.
Settled(p, u) ==
  /\ u \in Int /\ u = Body(p) + 2 * Digits(u) /\ Settle(p) = [p EXCEPT !.used = u]
  /\ \A w \in Int : p.used <= w /\ Body(p) + 2 * Digits(w) <= w => u <= w

\* Five rounds suffice: a size of two digits does not make the packet grow
\* again (wire.go 25).
LEMMA SettleIs ==
  ASSUME NEW p, Body(p) \in Int, p.used \in Int
  PROVE  \E u : Settled(p, u)
  <1> DEFINE b == Body(p)
  <1>1. PICK f : /\ f \in [0 .. 5 -> Int] /\ f[0] = p.used /\ Settle(p) = [p EXCEPT !.used = f[5]]
                 /\ \A k \in 1 .. 5 : f[k - 1] \in Int /\ f[k] = b + 2 * Digits(f[k - 1])
    BY SettleSteps
  <1> HIDE DEF b
  <1>2. /\ f[1] = b + 2 * Digits(f[0]) /\ f[2] = b + 2 * Digits(f[1]) /\ f[3] = b + 2 * Digits(f[2])
        /\ f[4] = b + 2 * Digits(f[3]) /\ f[5] = b + 2 * Digits(f[4])
        /\ f[0] \in Int /\ f[1] \in Int /\ f[2] \in Int /\ f[3] \in Int /\ f[4] \in Int
           /\ f[5] \in Int /\ b \in Int
    <2>1. 1 \in 1 .. 5 /\ 2 \in 1 .. 5 /\ 3 \in 1 .. 5 /\ 4 \in 1 .. 5 /\ 5 \in 1 .. 5
      OBVIOUS
    <2>2. 1 - 1 = 0 /\ 2 - 1 = 1 /\ 3 - 1 = 2 /\ 4 - 1 = 3 /\ 5 - 1 = 4
      OBVIOUS
    <2>3. 5 \in 0 .. 5
      OBVIOUS
    <2> QED BY <1>1, <2>1, <2>2, <2>3 DEF b
  <1>3. f[5] = b + 2 * Digits(f[5])
    BY <1>2 DEF Digits
  <1>4. ASSUME NEW w \in Int, f[0] <= w, b + 2 * Digits(w) <= w PROVE f[5] <= w
    <2>1. ASSUME NEW x \in Int, x <= w PROVE b + 2 * Digits(x) <= w
      BY <1>2, <1>4, <2>1 DEF Digits
    <2> QED BY <1>2, <1>4, <2>1
  <1> QED BY <1>1, <1>2, <1>3, <1>4 DEF Settled, b

-----------------------------------------------------------------------------
(* Evidence: selection                                                     *)

\* What Preprocess may return.
PreTyped(pre) ==
  /\ DOMAIN pre.prepared = 1 .. Len(pre.prepared) /\ Len(pre.prepared) \in Nat
  /\ \A i \in DOMAIN pre.prepared : pre.prepared[i].variants \in Seq(Forms)
     /\ pre.prepared[i].rank \in Nat
  /\ pre.duplicates \in Nat /\ pre.skipped \in Nat

\* A prepared candidate in one of its forms.
ChoicesOf(pre) == {c \in [at : DOMAIN pre.prepared, v : Nat,
                  utility : Int] : c.v \in DOMAIN pre.prepared[c.at].variants}

\* What Select may select: each candidate once.
Selections(pre) == {s \in Seq(ChoicesOf(pre)) : \A a, b \in DOMAIN s : a # b => s[a].at # s[b].at}

\* The item that shows a choice.
EvidenceOf(pre, s) ==
  LET p == pre.prepared[s.at] IN
  [handle |-> p.c.handle, path |-> p.c.path, span |-> p.c.span, role |-> p.role,
   fidelity |-> p.variants[s.v].fidelity, tokens |-> p.variants[s.v].tokens, meta |-> 1]

\* The choices in the order of presentation.
ByPlace(s) == Ordered(ToSet(s), {p \in ToSet(s) \X ToSet(s) : p[1].at < p[2].at})

\* The items of a packet.
Items(pre, s) == [k \in DOMAIN ByPlace(s) |-> EvidenceOf(pre, ByPlace(s)[k])]

\* What a selection shows.
ShownBy(pre, s) == {pre.prepared[c.at] : c \in ToSet(s)}

\* The packet before it is measured and guidance is added.
Bare(limit, pre, s, omitted) ==
  [schema |-> "v1", limit |-> limit, used |-> 0, omitted |-> omitted, evidence |-> Items(pre, s),
   relations |-> Edges(ShownBy(pre, s)), limitations |-> IF omitted > 0 THEN <<"budget_limited">>
       ELSE <<>>,
   next |-> <<>>, skipped |-> pre.skipped]

\* buildPacket measures such a packet.
LEMMA BuildPacketIs ==
  ASSUME NEW limit, NEW pre, NEW s, NEW omitted
  PROVE  BuildPacket(limit, pre, s, omitted) = Settle(Bare(limit, pre, s, omitted))
  BY DEF BuildPacket, Bare, Items, ByPlace, EvidenceOf, Sorted, ShownBy

\* The choices of a selection in the order of the prepared candidates.
LEMMA ByPlaceIs ==
  ASSUME NEW pre, PreTyped(pre), NEW s \in Selections(pre)
  PROVE  /\ ByPlace(s) \in Seq(ToSet(s)) /\ IsFiniteSet(ToSet(s)) /\ ToSet(s) \in SUBSET ChoicesOf(pre)
         /\ Len(ByPlace(s)) = Cardinality(ToSet(s))
         /\ \A c \in ToSet(s) : \E k \in DOMAIN ByPlace(s) : ByPlace(s)[k] = c
         /\ \A i, j \in DOMAIN ByPlace(s) : i < j => ByPlace(s)[i].at < ByPlace(s)[j].at
  <1> DEFINE T == ToSet(s)
             B == {p \in T \X T : p[1].at < p[2].at}
  <1>1. IsFiniteSet(T) /\ T \in SUBSET ChoicesOf(pre) /\ \A x \in T : \E k \in DOMAIN s : s[k] = x
    BY ToSetIsFinite DEF Selections
  <1>2. \A x \in T : x.at \in Int
    BY <1>1 DEF ChoicesOf, PreTyped
  <1>3. \A x, y \in T : x # y => x.at # y.at
    <2> SUFFICES ASSUME NEW x \in T, NEW y \in T, x # y PROVE x.at # y.at
      OBVIOUS
    <2>1. PICK a \in DOMAIN s : s[a] = x
      BY <1>1
    <2>2. PICK b \in DOMAIN s : s[b] = y
      BY <1>1
    <2>3. a # b
      BY <2>1, <2>2
    <2> QED BY <2>1, <2>2, <2>3 DEF Selections
  <1> HIDE DEF T
  <1>4. \A x, y \in T : <<x, y>> \in B <=> x.at < y.at
    OBVIOUS
  <1>5. /\ \A x, y \in T : x # y => <<x, y>> \in B \/ <<y, x>> \in B
        /\ \A x, y \in T : <<x, y>> \in B => <<y, x>> \notin B
        /\ \A x, y, z \in T : <<x, y>> \in B /\ <<y, z>> \in B => <<x, z>> \in B
    <2> HIDE DEF B
    <2> QED BY <1>2, <1>3, <1>4
  <1>6. ByPlace(s) = Ordered(T, B)
    BY DEF ByPlace, T
  <1> HIDE DEF B
  <1>7. /\ ByPlace(s) \in Seq(T) /\ Len(ByPlace(s)) = Cardinality(T)
        /\ \A x \in T : \E k \in DOMAIN ByPlace(s) : ByPlace(s)[k] = x
        /\ \A i, j \in DOMAIN ByPlace(s) : i < j => <<ByPlace(s)[i], ByPlace(s)[j]>> \in B
    <2>1. /\ Ordered(T, B) \in Seq(T) /\ Len(Ordered(T, B)) = Cardinality(T)
          /\ \A x \in T : \E k \in DOMAIN Ordered(T, B) : Ordered(T, B)[k] = x
          /\ \A i, j \in DOMAIN Ordered(T, B) : i < j => <<Ordered(T, B)[i], Ordered(T, B)[j]>> \in B
      BY <1>1, <1>5, OrderedIs
    <2> QED BY <1>6, <2>1
  <1>8. \A i \in DOMAIN ByPlace(s) : ByPlace(s)[i] \in T
    BY <1>7
  <1>9. \A i, j \in DOMAIN ByPlace(s) : i < j => ByPlace(s)[i].at < ByPlace(s)[j].at
    BY <1>4, <1>7, <1>8
  <1> QED BY <1>1, <1>7, <1>9 DEF T

\* An item has a size.
LEMMA ItemIsSized ==
  ASSUME NEW pre, PreTyped(pre), NEW c \in ChoicesOf(pre)
  PROVE  EvidenceOf(pre, c).tokens \in Nat /\ EvidenceOf(pre, c).meta \in Nat
  <1>1. pre.prepared[c.at].variants \in Seq(Forms) /\ c.v \in DOMAIN pre.prepared[c.at].variants
    BY DEF ChoicesOf, PreTyped
  <1>2. pre.prepared[c.at].variants[c.v] \in Forms
    BY <1>1
  <1> QED BY <1>2 DEF EvidenceOf, Forms

\* So has the packet.
LEMMA BareIsSized ==
  ASSUME NEW pre, PreTyped(pre), NEW s \in Selections(pre), NEW limit, NEW omitted
  PROVE  Sized(Bare(limit, pre, s, omitted)) /\ Bare(limit, pre, s, omitted).used = 0
  <1> DEFINE p == Bare(limit, pre, s, omitted)
  <1>1. /\ p.evidence = Items(pre, s) /\ p.relations = Edges(ShownBy(pre, s)) /\ p.next = <<>>
           /\ p.used = 0
        /\ p.limitations = IF omitted > 0 THEN <<"budget_limited">> ELSE <<>>
    BY DEF Bare
  <1> HIDE DEF p
  <1>2. Len(p.limitations) \in Nat /\ Len(p.next) \in Nat
    BY <1>1
  <1>3. IsFiniteSet(p.relations)
    <2> DEFINE f == [c \in ToSet(s) |-> pre.prepared[c.at]]
    <2>1. ShownBy(pre, s) = Values(f) /\ DOMAIN f = ToSet(s)
      BY DEF ShownBy, Values
    <2> HIDE DEF f
    <2>2. IsFiniteSet(ShownBy(pre, s))
      BY <2>1, ByPlaceIs, ValuesAreFinite
    <2> QED BY <1>1, <2>2, EdgesAreFinite
  <1>4. ByPlace(s) \in Seq(ToSet(s)) /\ ToSet(s) \in SUBSET ChoicesOf(pre)
    BY ByPlaceIs
  <1>5. DOMAIN p.evidence = 1 .. Len(ByPlace(s)) /\ Len(ByPlace(s)) \in Nat
    BY <1>1, <1>4 DEF Items
  <1>6. \A k \in DOMAIN p.evidence : p.evidence[k].tokens \in Nat /\ p.evidence[k].meta \in Nat
    <2> SUFFICES ASSUME NEW k \in DOMAIN p.evidence PROVE p.evidence[k].tokens \in Nat
             /\ p.evidence[k].meta \in Nat
      OBVIOUS
    <2>1. k \in DOMAIN ByPlace(s) /\ p.evidence[k] = EvidenceOf(pre, ByPlace(s)[k])
      BY <1>1 DEF Items
    <2>2. ByPlace(s)[k] \in ChoicesOf(pre)
      BY <1>4, <2>1
    <2> QED BY <2>1, <2>2, ItemIsSized
  <1> QED BY <1>1, <1>2, <1>3, <1>5, <1>6 DEF Sized, p

\* Products by a positive number compare as their factors do.
LEMMA ProductsKeepOrder ==
  ASSUME NEW a \in Int, NEW b \in Int, NEW c \in Int, c >= 1
  PROVE  (a >= b <=> a * c >= b * c) /\ (a > b <=> a * c > b * c)
  <1>1. a >= b => a * c >= b * c
    OBVIOUS
  <1>2. a > b => a * c > b * c
    OBVIOUS
  <1>3. b > a => b * c > a * c
    OBVIOUS
  <1>4. b >= a => b * c >= a * c
    OBVIOUS
  <1>5. a * c \in Int /\ b * c \in Int
    OBVIOUS
  <1> QED BY <1>1, <1>2, <1>3, <1>4, <1>5

\* Ratios are compared by their cross products, and that is an order.
LEMMA CrossIsTransitive ==
  ASSUME NEW u \in Int, NEW v \in Int, NEW w \in Int, NEW a \in Int, NEW b \in Int, NEW c \in Int,
         a >= 1, b >= 1, c >= 1, u * b >= v * a, v * c >= w * b
  PROVE  /\ u * c >= w * a
         /\ u * c = w * a => u * b = v * a /\ v * c = w * b
  <1>1. /\ u * b \in Int /\ v * a \in Int /\ v * c \in Int /\ w * b \in Int /\ u * c \in Int
           /\ w * a \in Int
    OBVIOUS
  <1>2. (u * b) * c >= (v * a) * c /\ (v * c) * a >= (w * b) * a
    BY <1>1, ProductsKeepOrder
  <1>3. (u * b) * c = (u * c) * b /\ (v * a) * c = (v * c) * a /\ (w * b) * a = (w * a) * b
    OBVIOUS
  <1>4. (u * c) * b >= (v * c) * a /\ (v * c) * a >= (w * a) * b
    BY <1>2, <1>3
  <1>5. (u * c) * b \in Int /\ (v * c) * a \in Int /\ (w * a) * b \in Int
    BY <1>1
  <1>6. (u * c) * b >= (w * a) * b
    BY <1>4, <1>5
  <1>7. u * c >= w * a
    BY <1>1, <1>6, ProductsKeepOrder
  <1>8. ASSUME u * c = w * a PROVE u * b = v * a /\ v * c = w * b
    <2>1. (u * c) * b = (w * a) * b
      BY <1>8
    <2>2. (u * b) * c = (v * a) * c /\ (v * c) * a = (w * b) * a
      BY <1>3, <1>4, <1>5, <2>1
    <2>3. ~ (u * b > v * a)
      <3>1. u * b > v * a => (u * b) * c > (v * a) * c
        BY <1>1, ProductsKeepOrder
      <3> QED BY <1>3, <1>5, <2>2, <3>1
    <2>4. ~ (v * c > w * b)
      <3>1. v * c > w * b => (v * c) * a > (w * b) * a
        BY <1>1, ProductsKeepOrder
      <3> QED BY <1>3, <1>5, <2>2, <3>1
    <2> QED BY <1>1, <2>3, <2>4
  <1> QED BY <1>7, <1>8

\* Weights are numbers.
LEMMA RoleWeightIsNumber ==
  ASSUME NEW intent, NEW role
  PROVE  RoleWeight(intent, role) \in Int
  <1> DEFINE weights == CASE intent = "callers" -> [target |-> 40, caller |-> 46, test |-> 20,
                        implementation |-> 18]
                   [] intent = "tests" -> [target |-> 36, test |-> 50, implementation |-> 18,
                       config |-> 12]
                   [] intent = "impact" -> [change |-> 50, dependent |-> 46, caller |-> 30,
                       test |-> 28, target |-> 26]
                   [] intent = "definition" -> [target |-> 45, implementation |-> 34, definition |-> 30,
                                                declaration |-> 24, type |-> 18]
                   [] OTHER -> [target |-> 8]
  <1>1. \A r \in DOMAIN weights : weights[r] \in Int
    <2>1. CASE intent = "callers"
      BY <2>1
    <2>2. CASE intent = "tests"
      BY <2>2
    <2>3. CASE intent = "impact"
      BY <2>3
    <2>4. CASE intent = "definition"
      BY <2>4
    <2>5. CASE intent \notin {"callers", "tests", "impact", "definition"}
      BY <2>5
    <2> QED BY <2>1, <2>2, <2>3, <2>4, <2>5
  <1>2. RoleWeight(intent, role) = IF role \in DOMAIN weights THEN weights[role] ELSE 8
    BY DEF RoleWeight
  <1> HIDE DEF weights
  <1> QED BY <1>1, <1>2

\* So are utilities.
LEMMA UtilityIsNumber ==
  ASSUME NEW intent, NEW p, p.rank \in Nat, NEW shown, NEW diverse
  PROVE  Utility(intent, p, shown, diverse) \in Int
  <1> DEFINE fresh == IF p.role \notin {q.role : q \in shown} THEN 18 ELSE 0
             elsewhere == IF p.c.path \notin {q.c.path : q \in shown} THEN 10 ELSE -7
             a == IF diverse THEN fresh + elsewhere ELSE 0
             b == IF p.c.context = NoContext THEN 0 ELSE IF p.c.context.resolved THEN 24 ELSE 16
             d == IF p.c.named = "exactly" THEN 14 ELSE 0
             e == IF p.c.changed THEN 12 ELSE 0
             r == 6000 \div (1 + p.rank)
             w == RoleWeight(intent, p.role)
  <1>1. fresh \in Int /\ elsewhere \in Int
    OBVIOUS
  <1>2. Utility(intent, p, shown, diverse) = r + 60 * (w + a + b + d + e)
    BY DEF Utility
  <1> HIDE DEF fresh, elsewhere
  <1>3. a \in Int /\ b \in Int /\ d \in Int /\ e \in Int
    BY <1>1
  <1>4. r \in Int
    OBVIOUS
  <1>5. w \in Int
    BY RoleWeightIsNumber
  <1> HIDE DEF a, b, d, e, r, w
  <1> QED BY <1>2, <1>3, <1>4, <1>5

\* A packet of a selection settles, and says a size.
LEMMA BuiltIs ==
  ASSUME NEW pre, PreTyped(pre), NEW s \in Selections(pre), NEW limit, NEW omitted
  PROVE  /\ Body(Bare(limit, pre, s, omitted)) \in Int
         /\ \E u : Settled(Bare(limit, pre, s, omitted), u)
         /\ BuildPacket(limit, pre, s, omitted).used \in Int
  <1> DEFINE p == Bare(limit, pre, s, omitted)
  <1>1. Body(p) \in Int /\ p.used \in Int
    BY BareIsSized, BodyIsNumber
  <1>2. PICK u : Settled(p, u)
    <2> HIDE DEF p
    <2> QED BY <1>1, SettleIs
  <1>3. [p EXCEPT !.used = u].used = u
    BY DEF Bare
  <1>4. BuildPacket(limit, pre, s, omitted) = [p EXCEPT !.used = u]
    BY <1>2, BuildPacketIs DEF Settled
  <1> QED BY <1>1, <1>2, <1>3, <1>4 DEF Settled

\* A candidate that is not selected may be added.
LEMMA SelectionGrows ==
  ASSUME NEW pre, NEW s \in Selections(pre), NEW c \in ChoicesOf(pre),
           c.at \notin {x.at : x \in ToSet(s)}
  PROVE  Append(s, c) \in Selections(pre)
  <1> DEFINE t == Append(s, c)
             m == Len(s)
  <1>1. s \in Seq(ChoicesOf(pre))
    BY DEF Selections
  <1>2. /\ DOMAIN s = 1 .. m /\ m \in Nat /\ DOMAIN t = 1 .. m + 1 /\ t[m + 1] = c
        /\ \A a \in 1 .. m : t[a] = s[a]
    BY <1>1, SequenceGrows
  <1>3. t \in Seq(ChoicesOf(pre))
    BY <1>1
  <1>4. \A a \in 1 .. m : s[a].at # c.at
    BY <1>2 DEF ToSet
  <1>5. \A a \in 1 .. m + 1 : a \in 1 .. m \/ a = m + 1
    BY <1>2
  <1> HIDE DEF t, m
  <1>6. ASSUME NEW a \in 1 .. m + 1, NEW b \in 1 .. m + 1, a # b PROVE t[a].at # t[b].at
    <2>1. CASE a \in 1 .. m /\ b \in 1 .. m
      BY <1>2, <1>6, <2>1 DEF Selections
    <2>2. CASE a = m + 1 /\ b \in 1 .. m
      BY <1>2, <1>4, <2>2
    <2>3. CASE b = m + 1 /\ a \in 1 .. m
      BY <1>2, <1>4, <2>3
    <2> QED BY <1>5, <1>6, <2>1, <2>2, <2>3
  <1> QED BY <1>2, <1>3, <1>6 DEF Selections, t

\* The variant v of candidate i, as an addition to what is selected.
Addition(request, pre, limit, selected, i, v) ==
  LET p == pre.prepared[i]
      shown == ShownBy(pre, selected)
      utility == Utility(request.intent, p, shown, TRUE) * Quality(p.variants[v].fidelity)
      trial == Append(selected, Choice(i, v, utility))
      used == BuildPacket(limit, pre, trial, Omitted(pre, trial)).used
      current == BuildPacket(limit, pre, selected, Omitted(pre, selected)).used
  IN [at |-> i, v |-> v, utility |-> utility, used |-> used, cost |-> Max({1, used - current})]

\* What may be added.
Unselected(pre, selected) == DOMAIN pre.prepared \ {s.at : s \in ToSet(selected)}

\* Each variant of each of these.
Additions(request, pre, limit, selected) ==
  UNION {{Addition(request, pre, limit, selected, i, v) : v \in DOMAIN pre.prepared[i].variants} :
           i \in Unselected(pre, selected)}

\* The additions that fit.
Fitting(request, pre, limit, selected) ==
  {o \in Additions(request, pre, limit, selected) : Fits(o.used, limit)}

\* Ratio of utility and cost, then betterOption.
BetterThan(o, q) ==
  \/ o.utility * q.cost > q.utility * o.cost
  \/ o.utility * q.cost = q.utility * o.cost
     /\ (o.at < q.at \/ (o.at = q.at /\ o.v <= q.v))

\* A round adds the best addition that fits.
LEMMA AddBestExpands ==
  ASSUME NEW request, NEW pre, NEW limit, NEW selected
  PROVE  LET options == Fitting(request, pre, limit, selected) IN
         AddBest(request, pre, limit, selected) =
           IF options = {} THEN selected
           ELSE LET best == CHOOSE o \in options : \A q \in options : BetterThan(o, q)
                IN Append(selected, Choice(best.at, best.v, best.utility))
  BY DEF AddBest, Fitting, Additions, Addition, Unselected, ShownBy, BetterThan

\* What an addition says of itself is so.
Weighed(pre, limit, selected, i, v, o) ==
  LET c == Choice(i, v, o.utility)
      trial == Append(selected, c)
  IN /\ o.at = i /\ o.v = v /\ o.at \in Int /\ o.v \in Nat /\ o.utility \in Int /\ o.used \in Int
     /\ o.cost \in Int /\ o.cost >= 1
     /\ c \in ChoicesOf(pre) /\ trial \in Selections(pre)
     /\ o.used = BuildPacket(limit, pre, trial, Omitted(pre, trial)).used

\* Every addition is a selection with one choice more, and of its size.
LEMMA AdditionIs ==
  ASSUME NEW request, NEW pre, PreTyped(pre), NEW limit, NEW selected \in Selections(pre),
         NEW i \in Unselected(pre, selected), NEW v \in DOMAIN pre.prepared[i].variants
  PROVE  Weighed(pre, limit, selected, i, v, Addition(request, pre, limit, selected, i, v))
  <1> DEFINE o == Addition(request, pre, limit, selected, i, v)
             p == pre.prepared[i]
             shown == ShownBy(pre, selected)
             utility == Utility(request.intent, p, shown, TRUE) * Quality(p.variants[v].fidelity)
             c == Choice(i, v, utility)
             trial == Append(selected, c)
             used == BuildPacket(limit, pre, trial, Omitted(pre, trial)).used
             current == BuildPacket(limit, pre, selected, Omitted(pre, selected)).used
  <1>1. o = [at |-> i, v |-> v, utility |-> utility, used |-> used, cost |-> Max({1, used - current})]
    BY DEF Addition
  <1>2. i \in DOMAIN pre.prepared /\ i \in Int /\ p.rank \in Nat /\ v \in Nat
    BY DEF Unselected, PreTyped
  <1>3. utility \in Int
    <2>1. Utility(request.intent, p, shown, TRUE) \in Int
      BY <1>2, UtilityIsNumber
    <2>2. Quality(p.variants[v].fidelity) \in Int
      BY DEF Quality
    <2>3. \A x, y \in Int : x * y \in Int
      OBVIOUS
    <2> HIDE DEF p, shown
    <2> QED BY ONLY <2>1, <2>2, <2>3 DEF utility
  <1> HIDE DEF utility
  <1>4. c \in ChoicesOf(pre) /\ c.at = i
    BY <1>2, <1>3 DEF ChoicesOf, Choice
  <1> HIDE DEF c
  <1>5. trial \in Selections(pre)
    BY <1>4, SelectionGrows DEF Unselected
  <1> HIDE DEF trial
  <1>6. used \in Int /\ current \in Int
    BY <1>5, BuiltIs
  <1> HIDE DEF used, current
  <1>7. Max({1, used - current}) \in Int /\ Max({1, used - current}) >= 1
    <2> DEFINE T == {1, used - current}
    <2>1. T \in SUBSET Int /\ T # {} /\ 1 \in T
      BY <1>6
    <2>2. IsFiniteSet(T)
      <3>1. IsFiniteSet({1}) /\ T = {1} \cup {used - current}
        BY FS_Singleton
      <3> HIDE DEF T
      <3> QED BY <3>1, FS_AddElement
    <2> HIDE DEF T
    <2>3. Max(T) \in T /\ \A y \in T : y <= Max(T)
      BY <2>1, <2>2, MaxOfSet
    <2>4. Max(T) \in Int /\ Max(T) >= 1
      BY <2>1, <2>3
    <2> QED BY <2>4 DEF T
  <1>8. o.at = i /\ o.v = v /\ o.utility = utility /\ o.used = used /\ o.cost = Max({1, used - current})
    BY <1>1
  <1> HIDE DEF o
  <1>9. Choice(i, v, o.utility) = c
    BY <1>8 DEF c
  <1>10. Append(selected, Choice(i, v, o.utility)) = trial
    BY <1>9 DEF trial
  <1>11. o.used = BuildPacket(limit, pre, trial, Omitted(pre, trial)).used
    BY <1>8 DEF used
  <1> QED BY <1>2, <1>3, <1>4, <1>5, <1>6, <1>7, <1>8, <1>9, <1>10, <1>11 DEF o, Weighed

\* There are finitely many of them.
LEMMA AdditionsAreFinite ==
  ASSUME NEW request, NEW pre, PreTyped(pre), NEW limit, NEW selected
  PROVE  IsFiniteSet(Additions(request, pre, limit, selected))
  <1> DEFINE rest == Unselected(pre, selected)
             Of(i) == {Addition(request, pre, limit, selected, i,
                      v) : v \in DOMAIN pre.prepared[i].variants}
             f == [i \in rest |-> Of(i)]
  <1>1. IsFiniteSet(rest)
    <2>1. rest \subseteq 1 .. Len(pre.prepared) /\ Len(pre.prepared) \in Nat
      BY DEF Unselected, PreTyped
    <2> HIDE DEF rest
    <2> QED BY <2>1, FirstNumbers
  <1>2. ASSUME NEW i \in rest PROVE IsFiniteSet(Of(i))
    <2> DEFINE D == DOMAIN pre.prepared[i].variants
               g == [v \in D |-> Addition(request, pre, limit, selected, i, v)]
    <2>1. IsFiniteSet(D)
      <3>1. pre.prepared[i].variants \in Seq(Forms)
        BY DEF PreTyped, Unselected
      <3>2. D = 1 .. Len(pre.prepared[i].variants) /\ Len(pre.prepared[i].variants) \in Nat
        BY <3>1
      <3> HIDE DEF D
      <3> QED BY <3>2, FirstNumbers
    <2>2. Of(i) = Values(g) /\ DOMAIN g = D
      BY DEF Values
    <2> HIDE DEF g, Of, D
    <2> QED BY <2>1, <2>2, ValuesAreFinite
  <1>3. Additions(request, pre, limit, selected) = UNION Values(f) /\ DOMAIN f = rest
    BY DEF Values, Additions
  <1> HIDE DEF Of, rest
  <1>4. IsFiniteSet(Values(f)) /\ \A T \in Values(f) : IsFiniteSet(T)
    <2>1. \A T \in Values(f) : IsFiniteSet(T)
      BY <1>2 DEF Values
    <2> HIDE DEF f
    <2> QED BY <1>1, <1>3, <2>1, ValuesAreFinite
  <1> HIDE DEF f
  <1> QED BY <1>3, <1>4, FS_UNION

\* One addition is best: rates compare, and places and variants break ties.
LEMMA OneIsBest ==
  ASSUME NEW options, IsFiniteSet(options), options # {},
         \A o \in options : /\ o.at \in Int /\ o.v \in Int /\ o.utility \in Int /\ o.cost \in Int
                               /\ o.cost >= 1
  PROVE  \E o \in options : \A q \in options : BetterThan(o, q)
  <1> DEFINE R == {p \in options \X options : BetterThan(p[1], p[2])}
  <1>1. \A o, q \in options : <<o, q>> \in R <=> BetterThan(o, q)
    OBVIOUS
  <1>2. \A o, q \in options : BetterThan(o, q) \/ BetterThan(q, o)
    <2> SUFFICES ASSUME NEW o \in options, NEW q \in options PROVE BetterThan(o, q) \/ BetterThan(q, o)
      OBVIOUS
    <2> DEFINE x == o.utility * q.cost
               y == q.utility * o.cost
    <2>1. x \in Int /\ y \in Int
      OBVIOUS
    <2>2. BetterThan(o, q) <=> x > y \/ (x = y /\ (o.at < q.at \/ (o.at = q.at /\ o.v <= q.v)))
      BY DEF BetterThan
    <2>3. BetterThan(q, o) <=> y > x \/ (y = x /\ (q.at < o.at \/ (q.at = o.at /\ q.v <= o.v)))
      BY DEF BetterThan
    <2> HIDE DEF x, y
    <2> QED BY <2>1, <2>2, <2>3
  <1>3. ASSUME NEW o \in options, NEW q \in options, NEW r \in options, BetterThan(o, q),
        BetterThan(q, r)
        PROVE  BetterThan(o, r)
    <2> DEFINE Less(s, t) == s.at < t.at \/ (s.at = t.at /\ s.v <= t.v)
    <2>1. /\ o.utility \in Int /\ q.utility \in Int /\ r.utility \in Int
          /\ o.cost \in Int /\ q.cost \in Int /\ r.cost \in Int /\ o.cost >= 1 /\ q.cost >= 1
             /\ r.cost >= 1
      OBVIOUS
    <2>2. /\ o.utility * q.cost \in Int /\ q.utility * o.cost \in Int /\ q.utility * r.cost \in Int
          /\ r.utility * q.cost \in Int /\ o.utility * r.cost \in Int /\ r.utility * o.cost \in Int
      BY <2>1
    <2>3. o.utility * q.cost >= q.utility * o.cost /\ q.utility * r.cost >= r.utility * q.cost
      BY <1>3, <2>2 DEF BetterThan
    <2>4. /\ o.utility * r.cost >= r.utility * o.cost
          /\ o.utility * r.cost = r.utility * o.cost
               => o.utility * q.cost = q.utility * o.cost /\ q.utility * r.cost = r.utility * q.cost
      <3> DEFINE u == o.utility
                 v == q.utility
                 w == r.utility
                 a == o.cost
                 b == q.cost
                 c == r.cost
      <3>1. /\ u \in Int /\ v \in Int /\ w \in Int /\ a \in Int /\ b \in Int /\ c \in Int
            /\ a >= 1 /\ b >= 1 /\ c >= 1 /\ u * b >= v * a /\ v * c >= w * b
        BY <2>1, <2>3
      <3> HIDE DEF u, v, w, a, b, c
      <3>2. u * c >= w * a /\ (u * c = w * a => u * b = v * a /\ v * c = w * b)
        BY ONLY <3>1, CrossIsTransitive
      <3> QED BY <3>2 DEF u, v, w, a, b, c
    <2>5. CASE o.utility * r.cost = r.utility * o.cost
      <3>1. Less(o, q) /\ Less(q, r)
        BY <1>3, <2>2, <2>4, <2>5 DEF BetterThan
      <3>2. Less(o, r)
        BY <3>1
      <3> QED BY <2>5, <3>2 DEF BetterThan
    <2>6. CASE o.utility * r.cost # r.utility * o.cost
      <3>1. o.utility * r.cost > r.utility * o.cost
        BY <2>2, <2>4, <2>6
      <3> QED BY <3>1 DEF BetterThan
    <2> QED BY <2>5, <2>6
  <1> HIDE DEF R
  <1>4. /\ \A x, y \in options : <<x, y>> \in R \/ <<y, x>> \in R
        /\ \A x, y, z \in options : <<x, y>> \in R /\ <<y, z>> \in R => <<x, z>> \in R
    BY <1>1, <1>2, <1>3
  <1>5. \E x \in options : \A y \in options : <<x, y>> \in R
    BY <1>4, BestOf
  <1> QED BY <1>1, <1>5

\* What one round does: nothing, if nothing fits, or one choice more that fits.
Added(pre, limit, selected, new) ==
  \E c \in ChoicesOf(pre) : /\ c.at \notin {x.at : x \in ToSet(selected)}
                          /\ new = Append(selected, c) /\ new \in Selections(pre)
                          /\ BuildPacket(limit, pre, new, Omitted(pre, new)).used <= limit

\* A round does nothing, or adds what fits.
LEMMA AddBestIs ==
  ASSUME NEW request, NEW pre, PreTyped(pre), NEW limit, NEW selected \in Selections(pre)
  PROVE  \/ /\ AddBest(request, pre, limit, selected) = selected
            /\ Fitting(request, pre, limit, selected) = {}
         \/ Added(pre, limit, selected, AddBest(request, pre, limit, selected))
  <1> DEFINE options == Fitting(request, pre, limit, selected)
             best == CHOOSE o \in options : \A q \in options : BetterThan(o, q)
             c == Choice(best.at, best.v, best.utility)
             new == AddBest(request, pre, limit, selected)
  <1>1. new = IF options = {} THEN selected ELSE Append(selected, c)
    BY AddBestExpands
  <1>2. CASE options = {}
    BY <1>1, <1>2
  <1>3. CASE options # {}
    <2>1. ASSUME NEW o \in options
          PROVE  \E i \in Unselected(pre, selected) : \E v \in DOMAIN pre.prepared[i].variants :
                   o = Addition(request, pre, limit, selected, i, v) /\ o.used <= limit
      BY DEF Fitting, Additions, Fits
    <2>2. IsFiniteSet(options)
      <3>1. IsFiniteSet(Additions(request, pre, limit, selected))
        BY AdditionsAreFinite
      <3>2. options \subseteq Additions(request, pre, limit, selected)
        BY DEF Fitting
      <3> HIDE DEF options
      <3> QED BY <3>1, <3>2, FS_Subset
    <2>3. ASSUME NEW o \in options
          PROVE  o.at \in Int /\ o.v \in Int /\ o.utility \in Int /\ o.cost \in Int /\ o.cost >= 1
      <3>1. PICK i \in Unselected(pre, selected) : \E v \in DOMAIN pre.prepared[i].variants :
                   o = Addition(request, pre, limit, selected, i, v)
        BY <2>1
      <3>2. PICK v \in DOMAIN pre.prepared[i].variants : o = Addition(request, pre, limit, selected,
            i, v)
        BY <3>1
      <3>3. /\ o.at \in Int /\ o.v \in Nat /\ o.utility \in Int /\ o.cost \in Int /\ o.cost >= 1
        BY <3>2, AdditionIs DEF Weighed
      <3> QED BY <3>3
    <2>4. \E o \in options : \A q \in options : BetterThan(o, q)
      <3> HIDE DEF options
      <3> QED BY <1>3, <2>2, <2>3, OneIsBest
    <2>5. best \in options
      <3> HIDE DEF options
      <3> QED BY <2>4
    <2> HIDE DEF best
    <2>6. PICK i \in Unselected(pre, selected) : \E v \in DOMAIN pre.prepared[i].variants :
                   best = Addition(request, pre, limit, selected, i, v) /\ best.used <= limit
      BY <2>1, <2>5
    <2>7. PICK v \in DOMAIN pre.prepared[i].variants :
                   best = Addition(request, pre, limit, selected, i, v) /\ best.used <= limit
      BY <2>6
    <2>8. /\ best.at = i /\ c \in ChoicesOf(pre) /\ Append(selected, c) \in Selections(pre)
          /\ best.used = BuildPacket(limit, pre, Append(selected, c), Omitted(pre, Append(selected,
             c))).used
      <3>1. Weighed(pre, limit, selected, i, v, best)
        BY <2>7, AdditionIs
      <3> QED BY <3>1 DEF Weighed
    <2>9. c.at = i
      BY <2>8 DEF Choice
    <2>10. new = Append(selected, c)
      BY <1>1, <1>3
    <2> HIDE DEF c, new, options
    <2>11. Added(pre, limit, selected, new)
      BY <2>7, <2>8, <2>9, <2>10 DEF Added, Unselected
    <2> QED BY <2>11 DEF new
  <1> QED BY <1>2, <1>3

\* The first of some places.
LEMMA LeastPlace ==
  ASSUME NEW s, DOMAIN s = 1 .. Len(s), Len(s) \in Nat, NEW T \in SUBSET DOMAIN s, T # {}
  PROVE  Min(T) \in T /\ \A y \in T : Min(T) <= y
  <1>1. T \in SUBSET (1 .. Len(s))
    OBVIOUS
  <1>2. IsFiniteSet(T) /\ T \in SUBSET Int
    BY <1>1, FirstNumbers
  <1> QED BY <1>2, MinOfSet

\* One candidate in one form, and nothing else.
Alone(pre, limit, at, s) ==
  /\ at \in DOMAIN pre.prepared
  /\ \E v \in DOMAIN pre.prepared[at].variants : \E u \in Int : s = <<Choice(at, v, u)>>
  /\ s \in Selections(pre) /\ BuildPacket(limit, pre, s, Omitted(pre, s)).used <= limit

\* Where targets and changes are prepared.
Anchors(pre) == {i \in DOMAIN pre.prepared : pre.prepared[i].role \in AnchorRole}

\* One choice is a selection.
LEMMA OneIsSelection ==
  ASSUME NEW pre, PreTyped(pre), NEW i \in DOMAIN pre.prepared,
           NEW v \in DOMAIN pre.prepared[i].variants, NEW u \in Int
  PROVE  <<Choice(i, v, u)>> \in Selections(pre)
  <1> DEFINE c == Choice(i, v, u)
  <1>1. v \in Nat
    BY DEF PreTyped
  <1>2. c \in ChoicesOf(pre)
    BY <1>1 DEF ChoicesOf, Choice
  <1> HIDE DEF c
  <1>3. <<c>> \in Seq(ChoicesOf(pre)) /\ \A a, b \in DOMAIN <<c>> : a = b
    BY <1>2
  <1> QED BY <1>3 DEF Selections, c

\* The first target or change is selected if a form of it fits by itself
\* (compiler.go 88-107).
LEMMA AnchorIs ==
  ASSUME NEW request, NEW pre, PreTyped(pre), NEW limit
  PROVE  /\ Anchor(request, pre, limit) \in Selections(pre)
         /\ \/ /\ Anchor(request, pre, limit) = <<>>
               /\ Anchors(pre) = {}
                  \/ \A v \in DOMAIN pre.prepared[Min(Anchors(pre))].variants : \E u \in Int :
                       LET one == <<Choice(Min(Anchors(pre)), v, u)>>
                       IN ~ (BuildPacket(limit, pre, one, Omitted(pre, one)).used <= limit)
            \/ /\ Anchors(pre) # {} /\ Min(Anchors(pre)) \in Anchors(pre)
               /\ Alone(pre, limit, Min(Anchors(pre)), Anchor(request, pre, limit))
  <1> DEFINE anchors == Anchors(pre)
             at == Min(anchors)
             p == pre.prepared[at]
             u == Utility(request.intent, p, {}, FALSE)
             One(v) == <<Choice(at, v, u)>>
             fit == {v \in DOMAIN p.variants : BuildPacket(limit, pre, One(v), Omitted(pre,
                    One(v))).used <= limit}
             a == Anchor(request, pre, limit)
  <1>1. a = IF anchors = {} \/ fit = {} THEN <<>> ELSE One(Min(fit))
    BY DEF Anchor, Anchors
  <1>2. <<>> \in Selections(pre)
    BY DEF Selections
  <1>3. CASE anchors = {}
    BY <1>1, <1>2, <1>3
  <1>4. CASE anchors # {}
    <2>1. at \in anchors
      <3>1. anchors \in SUBSET DOMAIN pre.prepared /\ DOMAIN pre.prepared = 1 .. Len(pre.prepared)
            /\ Len(pre.prepared) \in Nat
        BY DEF PreTyped, Anchors
      <3> HIDE DEF anchors
      <3> QED BY <1>4, <3>1, LeastPlace
    <2>2. at \in DOMAIN pre.prepared /\ p.variants \in Seq(Forms) /\ p.rank \in Nat
      BY <2>1 DEF Anchors, PreTyped
    <2>3. u \in Int
      BY <2>2, UtilityIsNumber
    <2> HIDE DEF u, at
    <2>4. CASE fit = {}
      <3>1. a = <<>>
        BY <1>1, <2>4
      <3>2. \A v \in DOMAIN p.variants : ~ (BuildPacket(limit, pre, One(v), Omitted(pre,
            One(v))).used <= limit)
        BY <2>4
      <3> QED BY <1>2, <2>3, <3>1, <3>2 DEF at
    <2>5. CASE fit # {}
      <3> DEFINE v == Min(fit)
      <3>1. v \in fit
        <4>1. fit \in SUBSET DOMAIN p.variants /\ DOMAIN p.variants = 1 .. Len(p.variants)
              /\ Len(p.variants) \in Nat
          BY <2>2
        <4> HIDE DEF fit
        <4> QED BY <2>5, <4>1, LeastPlace
      <3> HIDE DEF v
      <3>2. v \in DOMAIN p.variants /\ BuildPacket(limit, pre, One(v), Omitted(pre,
            One(v))).used <= limit
        BY <3>1
      <3>3. a = One(v)
        BY <1>1, <1>4, <2>5 DEF v
      <3>4. One(v) \in Selections(pre)
        BY <2>2, <2>3, <3>2, OneIsSelection
      <3> HIDE DEF a, fit
      <3>5. Alone(pre, limit, at, a)
        BY <2>2, <2>3, <3>2, <3>3, <3>4 DEF Alone
      <3> QED BY <1>4, <2>1, <3>3, <3>4, <3>5 DEF at, a
    <2> QED BY <2>4, <2>5
  <1> QED BY <1>3, <1>4

\* How many rounds there are.
Rounds(request, pre) == Min({SelectionLimit(request.intent), Len(pre.prepared)})

\* There is a round if there is a candidate.
LEMMA RoundsAreCounted ==
  ASSUME NEW request, NEW pre, PreTyped(pre)
  PROVE  Rounds(request, pre) \in Nat /\ (Rounds(request, pre) = 0 => DOMAIN pre.prepared = {})
         /\ SelectionLimit(request.intent) \in Nat /\ SelectionLimit(request.intent) >= 1
  <1> DEFINE l == SelectionLimit(request.intent)
             m == Len(pre.prepared)
             T == {l, m}
  <1>1. l \in Nat /\ l >= 1 /\ m \in Nat /\ DOMAIN pre.prepared = 1 .. m
    BY DEF SelectionLimit, PreTyped
  <1>2. IsFiniteSet(T) /\ T \in SUBSET Int /\ T # {}
    <2>1. IsFiniteSet({l}) /\ T = {l} \cup {m}
      BY FS_Singleton
    <2>2. IsFiniteSet(T)
      <3> HIDE DEF T
      <3> QED BY <2>1, FS_AddElement
    <2> QED BY <1>1, <2>2
  <1> HIDE DEF l, m
  <1>3. Min(T) \in T /\ \A y \in T : Min(T) <= y
    <2> HIDE DEF T
    <2> QED BY <1>2, MinOfSet
  <1>4. Min(T) = l \/ Min(T) = m
    BY <1>3
  <1>5. Min(T) \in Nat /\ (Min(T) = 0 => m = 0)
    BY <1>1, <1>4
  <1>6. m = 0 => DOMAIN pre.prepared = {}
    BY <1>1
  <1> QED BY <1>1, <1>5, <1>6 DEF Rounds, l, m

\* A round finds nothing, or adds.
LEMMA RoundIs ==
  ASSUME NEW request, NEW pre, PreTyped(pre), NEW limit, NEW selected \in Selections(pre)
  PROVE  \/ /\ Round(request, pre, limit, selected) = selected
            /\ selected # <<>> \/ Fitting(request, pre, limit, <<>>) = {}
         \/ Added(pre, limit, selected, Round(request, pre, limit, selected))
  <1>1. SelectionLimit(request.intent) \in Nat /\ SelectionLimit(request.intent) >= 1
    BY RoundsAreCounted
  <1>2. CASE Len(selected) >= SelectionLimit(request.intent)
    <2>1. selected # <<>>
      BY <1>1, <1>2
    <2> QED BY <1>2, <2>1 DEF Round
  <1>3. CASE ~ (Len(selected) >= SelectionLimit(request.intent))
    <2>1. Round(request, pre, limit, selected) = AddBest(request, pre, limit, selected)
      BY <1>3 DEF Round
    <2> QED BY <2>1, AddBestIs
  <1> QED BY <1>2, <1>3

\* Select, round by round.
LEMMA SelectSteps ==
  ASSUME NEW request, NEW pre, PreTyped(pre), NEW limit, NEW last, last = Rounds(request, pre)
  PROVE  \E f : /\ f \in [0 .. last -> Selections(pre)] /\ f[0] = Anchor(request, pre, limit)
                   /\ Select(request, pre, limit) = f[last]
               /\ \A k \in 1 .. last : f[k - 1] \in Selections(pre)
                  /\ f[k] = Round(request, pre, limit, f[k - 1])
  <1> DEFINE seq == [k \in 1 .. last |-> k]
             n == last
             A == Selections(pre)
             base == Anchor(request, pre, limit)
             Op(a, x) == Round(request, pre, limit, a)
             h == [p \in A \X (1 .. n) |-> Op(p[1], seq[p[2]])]
             Step(g, s) == IF s = {} THEN base ELSE Op(g[s \ {Max(s)}], seq[Max(s)])
             Of(g) == g = [s \in SUBSET (DOMAIN seq) |-> Step(g, s)]
             iter == CHOOSE g : Of(g)
  <1>1. n \in Nat /\ DOMAIN seq = 1 .. n /\ base \in A
    BY RoundsAreCounted, AnchorIs DEF Alone
  <1>2. h \in [A \X (1 .. n) -> A] /\ \A a \in A, k \in 1 .. n : h[<<a, k>>] = Op(a, seq[k])
    <2>1. \A a \in A, k \in 1 .. n : Op(a, seq[k]) \in A
      BY RoundIs DEF Added
    <2> HIDE DEF A, n, Op, seq
    <2> QED BY <2>1
  <1>3. Select(request, pre, limit) = iter[DOMAIN seq]
    BY DEF Select, Rounds, FoldLeft, MapThenFoldSet
  <1> HIDE DEF seq, n, A, base, Op, h
  <1>4. PICK g : Sequential(g, n, A, base, h)
    BY <1>1, <1>2, SequenceRecursion
  <1>5. Of(iter)
    <2>1. \A s \in SUBSET (1 .. n) : g[s] = Step(g, s)
      BY <1>2, <1>4 DEF Sequential
    <2>2. Of(g)
      <3> HIDE DEF Step
      <3> QED BY <1>1, <1>4, <2>1 DEF Sequential
    <2> HIDE DEF Of
    <2> QED BY <2>2
  <1> HIDE DEF iter
  <1>6. iter[{}] = base /\ \A s \in SUBSET (1 .. n) : s # {}
        => iter[s] = Op(iter[s \ {Max(s)}], seq[Max(s)])
    <2>1. \A s \in SUBSET (1 .. n) : iter[s] = Step(iter, s)
      <3> HIDE DEF Step
      <3> QED BY <1>1, <1>5
    <2> QED BY <2>1
  <1>7. Iterates(iter, n, A, h)
    BY <1>1, <1>2, <1>4, <1>6 DEF Sequential, Iterates
  <1>8. PICK f : Steps(f, n, A, iter[{}], h, iter[1 .. n])
    BY <1>1, <1>2, <1>7, StepByStep
  <1>9. f \in [0 .. n -> A] /\ f[0] = base /\ Select(request, pre, limit) = f[n]
    BY <1>1, <1>3, <1>6, <1>8 DEF Steps
  <1>10. \A k \in 1 .. n : f[k - 1] \in A /\ f[k] = Op(f[k - 1], seq[k])
    BY <1>2, <1>8 DEF Steps
  <1> HIDE DEF Of, Step
  <1> QED BY <1>9, <1>10 DEF seq, n, A, base, Op

\* What Select may return.
Chosen(request, pre, limit, s) ==
  /\ s \in Selections(pre)
  /\ s = <<>> \/ BuildPacket(limit, pre, s, Omitted(pre, s)).used <= limit
  /\ Anchor(request, pre, limit) # <<>> => s # <<>> /\ s[1] = Anchor(request, pre, limit)[1]

\* A round keeps what is selected, fits, and keeps the anchor first.
LEMMA RoundKeeps ==
  ASSUME NEW request, NEW pre, PreTyped(pre), NEW limit, NEW s, Chosen(request, pre, limit, s)
  PROVE  Chosen(request, pre, limit, Round(request, pre, limit, s))
         /\ (s # <<>> => Round(request, pre, limit, s) # <<>>)
  <1> DEFINE new == Round(request, pre, limit, s)
  <1>1. s \in Selections(pre)
    BY DEF Chosen
  <1>2. CASE new = s
    BY <1>2
  <1>3. CASE Added(pre, limit, s, new)
    <2>1. PICK c \in ChoicesOf(pre) : /\ new = Append(s, c) /\ new \in Selections(pre)
                                    /\ BuildPacket(limit, pre, new, Omitted(pre, new)).used <= limit
      BY <1>3 DEF Added
    <2>2. s \in Seq(ChoicesOf(pre))
      BY <1>1 DEF Selections
    <2>3. DOMAIN s = 1 .. Len(s) /\ Len(s) \in Nat /\ DOMAIN new = 1 .. Len(s) + 1
          /\ \A a \in 1 .. Len(s) : new[a] = s[a]
      BY <2>1, <2>2, SequenceGrows
    <2>4. new # <<>>
      BY <2>3
    <2>5. s # <<>> => new[1] = s[1]
      BY <2>2, <2>3
    <2> HIDE DEF new
    <2> QED BY <2>1, <2>4, <2>5 DEF Chosen, new
  <1> QED BY <1>1, <1>2, <1>3, RoundIs

\* What is selected fits and begins with the anchor; when nothing is, nothing
\* fits (compiler.go 107-139).
LEMMA SelectIs ==
  ASSUME NEW request, NEW pre, PreTyped(pre), NEW limit
  PROVE  /\ Chosen(request, pre, limit, Select(request, pre, limit))
         /\ Select(request, pre, limit) = <<>> =>
              DOMAIN pre.prepared = {} \/ Fitting(request, pre, limit, <<>>) = {}
  <1> DEFINE n == Rounds(request, pre)
             a == Anchor(request, pre, limit)
             Nothing == DOMAIN pre.prepared = {} \/ Fitting(request, pre, limit, <<>>) = {}
  <1>1. n \in Nat /\ (n = 0 => DOMAIN pre.prepared = {})
    BY RoundsAreCounted
  <1>2. PICK f : /\ f \in [0 .. n -> Selections(pre)] /\ f[0] = a /\ Select(request, pre, limit) = f[n]
                 /\ \A k \in 1 .. n : f[k - 1] \in Selections(pre)
                    /\ f[k] = Round(request, pre, limit, f[k - 1])
    BY SelectSteps
  <1> DEFINE T == {k \in 0 .. n : Chosen(request, pre, limit, f[k]) /\ (k > 0 /\ f[k] = <<>>
                  => Nothing)}
  <1> HIDE DEF Nothing
  <1>3. 0 \in T
    <2>1. Chosen(request, pre, limit, a)
      <3>1. a \in Selections(pre) /\ (a = <<>> \/ BuildPacket(limit, pre, a, Omitted(pre,
            a)).used <= limit)
        BY AnchorIs DEF Alone
      <3> QED BY <3>1 DEF Chosen
    <2>2. 0 \in 0 .. n /\ ~ (0 > 0)
      BY <1>1
    <2> HIDE DEF n
    <2> QED BY <1>2, <2>1, <2>2
  <1>4. ASSUME NEW k \in 1 .. n, k - 1 \in T PROVE k \in T
    <2>1. f[k] = Round(request, pre, limit, f[k - 1]) /\ Chosen(request, pre, limit, f[k - 1])
      BY <1>2, <1>4
    <2>2. Chosen(request, pre, limit, f[k]) /\ (f[k - 1] # <<>> => f[k] # <<>>)
      BY <2>1, RoundKeeps
    <2>3. ASSUME f[k] = <<>> PROVE Nothing
      <3>1. f[k - 1] = <<>>
        BY <2>2, <2>3
      <3>2. ~ Added(pre, limit, f[k - 1], f[k])
        <4> SUFFICES ASSUME NEW c \in ChoicesOf(pre), f[k] = Append(<<>>, c) PROVE FALSE
          BY <3>1 DEF Added
        <4>1. Append(<<>>, c) = <<c>>
          OBVIOUS
        <4> QED BY <2>3, <4>1
      <3>3. f[k - 1] \in Selections(pre)
        BY <2>1 DEF Chosen
      <3> QED BY <2>1, <3>1, <3>2, <3>3, RoundIs DEF Nothing
    <2>4. k \in 0 .. n
      OBVIOUS
    <2> HIDE DEF n
    <2> QED BY <2>2, <2>3, <2>4
  <1>5. n \in T
    <2> HIDE DEF T, n
    <2> QED BY <1>1, <1>3, <1>4, UpTo
  <1>6. f[n] = <<>> => Nothing
    <2>1. CASE n = 0
      BY <1>1, <2>1 DEF Nothing
    <2>2. CASE n # 0
      <3>1. n > 0
        BY <1>1, <2>2
      <3> QED BY <1>5, <3>1
    <2> QED BY <2>1, <2>2
  <1> QED BY <1>2, <1>5, <1>6 DEF Nothing

\* The form of a candidate, not its utility, is what is measured.
LEMMA UtilityIsNotShown ==
  ASSUME NEW pre, PreTyped(pre), NEW i \in DOMAIN pre.prepared,
           NEW v \in DOMAIN pre.prepared[i].variants,
         NEW u \in Int, NEW w \in Int, NEW limit, NEW omitted
  PROVE  BuildPacket(limit, pre, <<Choice(i, v, u)>>, omitted) = BuildPacket(limit, pre, <<Choice(i,
           v, w)>>, omitted)
  <1>1. ASSUME NEW x \in Int
        PROVE  /\ Items(pre, <<Choice(i, v, x)>>) = [k \in 1 .. 1 |-> EvidenceOf(pre, Choice(i, v, 0))]
               /\ ShownBy(pre, <<Choice(i, v, x)>>) = {pre.prepared[i]}
    <2> DEFINE c == Choice(i, v, x)
               s == <<c>>
               o == ByPlace(s)
    <2>1. s \in Selections(pre)
      BY OneIsSelection
    <2>2. c.at = i /\ c.v = v
      BY DEF Choice
    <2>3. EvidenceOf(pre, c) = EvidenceOf(pre, Choice(i, v, 0))
      BY DEF EvidenceOf, Choice
    <2> HIDE DEF c
    <2>4. ToSet(s) = {c}
      BY DEF ToSet
    <2>5. o \in Seq({c}) /\ Len(o) = 1
      <3>1. o \in Seq(ToSet(s)) /\ Len(o) = Cardinality(ToSet(s))
        BY <2>1, ByPlaceIs
      <3> QED BY <2>4, <3>1, FS_Singleton
    <2>6. DOMAIN o = 1 .. 1 /\ \A k \in 1 .. 1 : o[k] = c
      BY <2>5
    <2>7. Items(pre, s) = [k \in 1 .. 1 |-> EvidenceOf(pre, c)]
      <3> HIDE DEF o
      <3> QED BY <2>6 DEF Items, o
    <2>8. ShownBy(pre, s) = {pre.prepared[i]}
      BY <2>2, <2>4 DEF ShownBy
    <2> QED BY <2>3, <2>7, <2>8 DEF c
  <1>2. Bare(limit, pre, <<Choice(i, v, u)>>, omitted) = Bare(limit, pre, <<Choice(i, v, w)>>, omitted)
    BY <1>1 DEF Bare
  <1> QED BY <1>2, BuildPacketIs

\* A form that fits by itself is an option when nothing is selected.
LEMMA RoomIsUsed ==
  ASSUME NEW request, NEW pre, PreTyped(pre), NEW limit, Fitting(request, pre, limit, <<>>) = {},
         NEW i \in DOMAIN pre.prepared, NEW v \in DOMAIN pre.prepared[i].variants
  PROVE  ~ (BuildPacket(limit, pre, <<Choice(i, v, 0)>>, Omitted(pre, <<Choice(i, v,
           0)>>)).used <= limit)
  <1> DEFINE o == Addition(request, pre, limit, <<>>, i, v)
             u == o.utility
             one == <<Choice(i, v, u)>>
             zero == <<Choice(i, v, 0)>>
  <1>1. <<>> \in Selections(pre) /\ i \in Unselected(pre, <<>>)
    BY DEF Selections, Unselected, ToSet
  <1>2. Weighed(pre, limit, <<>>, i, v, o)
    BY <1>1, AdditionIs
  <1>3. o \in Additions(request, pre, limit, <<>>)
    BY <1>1 DEF Additions
  <1>4. ~ (o.used <= limit)
    BY <1>3 DEF Fitting, Fits
  <1> HIDE DEF o
  <1>5. Append(<<>>, Choice(i, v, u)) = one
    OBVIOUS
  <1>6. Omitted(pre, one) = Omitted(pre, zero)
    BY DEF Omitted
  <1>7. o.used = BuildPacket(limit, pre, one, Omitted(pre, one)).used
    BY <1>2, <1>5 DEF Weighed
  <1>8. BuildPacket(limit, pre, one, Omitted(pre, one)) = BuildPacket(limit, pre, zero, Omitted(pre,
        one))
    <2>1. u \in Int /\ 0 \in Int
      BY <1>2 DEF Weighed
    <2> QED BY <2>1, UtilityIsNotShown
  <1> QED BY <1>4, <1>6, <1>7, <1>8

-----------------------------------------------------------------------------
(* Evidence: what a packet shows                                           *)

\* A packet that is no error.
PacketFields == {"schema", "limit", "used", "omitted", "evidence", "relations", "limitations",
                "next", "skipped"}

\* A packet with a sequence of items.
IsPacket(p) == DOMAIN p = PacketFields /\ p.schema = "v1" /\ \E S : p.evidence \in Seq(S)

\* An item has the fields it has, and no others.
IsItem(x) ==
  x = [handle |-> x.handle, path |-> x.path, span |-> x.span, role |-> x.role,
       fidelity |-> x.fidelity, tokens |-> x.tokens, meta |-> x.meta]

\* q shows what p shows.
Repeats(p, q) ==
  /\ DOMAIN q.evidence = DOMAIN p.evidence
  /\ \A k \in DOMAIN p.evidence : /\ q.evidence[k].handle = p.evidence[k].handle
                                  /\ q.evidence[k].path = p.evidence[k].path
                                  /\ q.evidence[k].span = p.evidence[k].span
                                  /\ q.evidence[k].tokens = p.evidence[k].tokens
                                  /\ IsItem(p.evidence[k]) => IsItem(q.evidence[k])

\* Measuring a packet changes nothing else in it.
LEMMA SettleKeeps ==
  ASSUME NEW p, IsPacket(p)
  PROVE  IsPacket(Settle(p)) /\ Settle(p).evidence = p.evidence /\ Settle(p).limit = p.limit
  <1> SUFFICES ASSUME NEW u
               PROVE  /\ IsPacket([p EXCEPT !.used = u]) /\ [p EXCEPT !.used = u].evidence = p.evidence
                      /\ [p EXCEPT !.used = u].limit = p.limit
    BY DEF Settle
  <1> QED BY DEF IsPacket, PacketFields

\* What buildPacket begins with is a packet.
LEMMA BareIsPacket ==
  ASSUME NEW pre, PreTyped(pre), NEW s \in Selections(pre), NEW limit, NEW omitted
  PROVE  /\ IsPacket(Bare(limit, pre, s, omitted)) /\ Bare(limit, pre, s, omitted).limit = limit
         /\ Bare(limit, pre, s, omitted).evidence = Items(pre, s)
  <1> DEFINE o == ByPlace(s)
             S == {EvidenceOf(pre, o[k]) : k \in DOMAIN o}
  <1>1. Items(pre, s) \in Seq(S)
    <2>1. o \in Seq(ToSet(s))
      BY ByPlaceIs
    <2>2. DOMAIN o = 1 .. Len(o) /\ Len(o) \in Nat
      BY <2>1
    <2>3. Items(pre, s) \in [1 .. Len(o) -> S]
      BY <2>2 DEF Items
    <2> HIDE DEF S, o
    <2> QED BY <2>2, <2>3
  <1> HIDE DEF S, o
  <1> QED BY <1>1 DEF Bare, IsPacket, PacketFields

\* A packet with guidance.
With(p, limitations, next) == [p EXCEPT !.limitations = limitations, !.next = next]

\* Guidance changes nothing of what a packet shows.
LEMMA WithKeeps ==
  ASSUME NEW p, IsPacket(p), NEW l, NEW n
  PROVE  IsPacket(With(p, l, n)) /\ With(p, l, n).evidence = p.evidence /\ With(p, l, n).limit = p.limit
  BY DEF With, IsPacket, PacketFields

\* Nor does cutting the guidance.
LEMMA GuidanceKeeps ==
  ASSUME NEW p, IsPacket(p), NEW limitations, NEW next
  PROVE  LET q == ApplyGuidance(p, limitations, next)
         IN IsPacket(q) /\ q.evidence = p.evidence /\ q.limit = p.limit
  <1>1. \E l, n : ApplyGuidance(p, limitations, next) = Settle(With(p, l, n))
    BY DEF ApplyGuidance, With
  <1> QED BY <1>1, WithKeeps, SettleKeeps

\* What is said twice is taken from an item, never the item.
LEMMA PruneKeeps ==
  ASSUME NEW p, IsPacket(p), \A k \in DOMAIN p.evidence : \E pre, c : p.evidence[k] = EvidenceOf(pre, c)
  PROVE  IsPacket(PruneMetadata(p)) /\ Repeats(p, PruneMetadata(p)) /\ PruneMetadata(p).limit = p.limit
  <1> DEFINE e == [k \in DOMAIN p.evidence |->
                     IF p.evidence[k].role \in AnchorRole THEN p.evidence[k]
                         ELSE [p.evidence[k] EXCEPT !.meta = 0]]
             q == PruneMetadata(p)
  <1>1. q = [p EXCEPT !.evidence = e]
    BY DEF PruneMetadata
  <1>2. ASSUME NEW k \in DOMAIN p.evidence
        PROVE  /\ e[k].handle = p.evidence[k].handle /\ e[k].path = p.evidence[k].path
                  /\ e[k].span = p.evidence[k].span
               /\ e[k].tokens = p.evidence[k].tokens /\ (IsItem(p.evidence[k]) => IsItem(e[k]))
    <2> DEFINE x == p.evidence[k]
               y == [x EXCEPT !.meta = 0]
    <2>1. PICK pre, c : x = EvidenceOf(pre, c)
      OBVIOUS
    <2>2. DOMAIN x = {"handle", "path", "span", "role", "fidelity", "tokens", "meta"}
      BY <2>1 DEF EvidenceOf
    <2>3. e[k] = x \/ e[k] = y
      OBVIOUS
    <2> HIDE DEF x, e
    <2>4. y.handle = x.handle /\ y.path = x.path /\ y.span = x.span /\ y.tokens = x.tokens
      BY <2>2
    <2>5. IsItem(y)
      <3> DEFINE z == pre.prepared[c.at]
                 h == z.c.handle
                 w == z.c.path
                 n == z.c.span
                 r == z.role
                 f == z.variants[c.v].fidelity
                 t == z.variants[c.v].tokens
                 b == [handle |-> h, path |-> w, span |-> n, role |-> r, fidelity |-> f, tokens |-> t,
                       meta |-> 0]
      <3>1. x = [handle |-> h, path |-> w, span |-> n, role |-> r, fidelity |-> f, tokens |-> t,
                 meta |-> 1]
        BY <2>1 DEF EvidenceOf
      <3> HIDE DEF h, w, n, r, f, t
      <3>2. y = b
        BY <3>1
      <3>3. IsItem(b)
        BY DEF IsItem
      <3> HIDE DEF b, y
      <3> QED BY <3>2, <3>3
    <2> QED BY <2>3, <2>4, <2>5 DEF x
  <1>3. DOMAIN e = DOMAIN p.evidence /\ \E S : e \in Seq(S)
    <2>1. PICK T : p.evidence \in Seq(T)
      BY DEF IsPacket
    <2>2. DOMAIN p.evidence = 1 .. Len(p.evidence) /\ Len(p.evidence) \in Nat
      BY <2>1
    <2>3. e \in [DOMAIN p.evidence -> Values(e)]
      BY DEF Values
    <2>4. DOMAIN e = DOMAIN p.evidence
      OBVIOUS
    <2> HIDE DEF e
    <2>5. e \in Seq(Values(e))
      BY <2>2, <2>3
    <2> QED BY <2>4, <2>5
  <1> HIDE DEF e, q
  <1>4. q.evidence = e /\ q.limit = p.limit /\ q.schema = p.schema /\ DOMAIN q = DOMAIN p
    BY <1>1 DEF IsPacket, PacketFields
  <1> QED BY <1>2, <1>3, <1>4 DEF IsPacket, Repeats, q

\* A packet that shows what bare shows, within its limit.
ShowsAll(q, limit, bare) ==
  \/ q = [schema |-> "error"]
  \/ IsPacket(q) /\ q.limit = limit /\ Repeats(bare, q)

\* A packet shows what was selected.
LEMMA GuidedShows ==
  ASSUME NEW request, NEW pre, PreTyped(pre), NEW s \in Selections(pre), NEW limit, NEW omitted
  PROVE  ShowsAll(Guided(request, pre, s, BuildPacket(limit, pre, s, omitted)), limit, Bare(limit,
           pre, s, omitted))
  <1> DEFINE bare == BuildPacket(limit, pre, s, omitted)
             q == Guided(request, pre, s, bare)
  <1>1. IsPacket(bare) /\ bare.evidence = Items(pre, s) /\ bare.limit = limit
    BY BareIsPacket, SettleKeeps, BuildPacketIs
  <1>2. CASE bare.used > bare.limit
    BY <1>2 DEF Guided, ShowsAll
  <1>3. CASE ~ (bare.used > bare.limit)
    <2>1. PICK l, n : q = Settle(PruneMetadata(ApplyGuidance(bare, l, n)))
      BY <1>3 DEF Guided
    <2> DEFINE g == ApplyGuidance(bare, l, n)
               m == PruneMetadata(g)
    <2>2. IsPacket(g) /\ g.evidence = Items(pre, s) /\ g.limit = limit
      BY <1>1, GuidanceKeeps
    <2> HIDE DEF g
    <2>3. \A k \in DOMAIN g.evidence : \E x, c : g.evidence[k] = EvidenceOf(x, c)
      BY <2>2 DEF Items
    <2>4. IsPacket(m) /\ Repeats(g, m) /\ m.limit = limit
      BY <2>2, <2>3, PruneKeeps
    <2> HIDE DEF m
    <2>5. q = Settle(m)
      BY <2>1 DEF m, g
    <2>6. IsPacket(q) /\ q.evidence = m.evidence /\ q.limit = limit
      BY <2>4, <2>5, SettleKeeps
    <2>7. Repeats(Bare(limit, pre, s, omitted), q)
      BY <2>2, <2>4, <2>6, BareIsPacket DEF Repeats
    <2> QED BY <2>6, <2>7 DEF ShowsAll
  <1> QED BY <1>2, <1>3

\* Preprocess prepares candidates with forms.
LEMMA PreIsTyped ==
  ASSUME NEW request, request.cands \in Seq(Offers)
  PROVE  PreTyped(Preprocess(request))
  <1> DEFINE found == Preprocess(request)
             cands == ByHandle(request.cands).kept
             E == Entries(request, cands)
  <1>1. cands \in Seq(Offers) /\ found \in Seen(request, cands, Offers)
    BY PreparedIs
  <1>2. found.prepared \in Seq(E) /\ found.duplicates \in Nat /\ found.skipped \in Nat
    BY <1>1 DEF Seen
  <1>3. \A e \in E : e.variants \in Seq(Forms) /\ e.rank \in Nat
    <2> SUFFICES ASSUME NEW i \in DOMAIN cands
                 PROVE  Entry(request, cands, i).variants \in Seq(Forms)
                          /\ Entry(request, cands, i).rank \in Nat
      BY DEF Entries
    <2>1. i \in 1 .. Len(cands) /\ cands[i] \in Offers
      BY <1>1
    <2>2. cands[i].lines \in Nat
      BY <2>1, OffersAssumption
    <2>3. Variants(cands[i], Role(request.intent, cands, i), request.mode) \in Seq(Forms)
      BY <2>2, VariantsAreForms
    <2> HIDE DEF cands
    <2> QED BY <2>1, <2>3 DEF Entry
  <1> HIDE DEF found, E
  <1>4. DOMAIN found.prepared = 1 .. Len(found.prepared) /\ Len(found.prepared) \in Nat
        /\ \A i \in DOMAIN found.prepared : found.prepared[i] \in E
    BY <1>2
  <1> QED BY <1>2, <1>3, <1>4 DEF PreTyped, found

\* e shows one of the candidates.
ShowsOneOf(e, all) ==
  \E b \in DOMAIN all : e.handle = all[b].c.handle /\ e.path = all[b].c.path /\ e.span = all[b].c.span

\* The items of a packet show different candidates.
ShowsApart(evidence, all) ==
  /\ \A k \in DOMAIN evidence : ShowsOneOf(evidence[k], all)
  /\ \A k, l \in DOMAIN evidence : k # l => evidence[k].handle # evidence[l].handle

\* A packet shows prepared candidates, each once.
LEMMA BareShowsApart ==
  ASSUME NEW pre, PreTyped(pre), Apart(pre.prepared), NEW s \in Selections(pre), NEW limit, NEW omitted
  PROVE  ShowsApart(Bare(limit, pre, s, omitted).evidence, pre.prepared)
  <1> DEFINE o == ByPlace(s)
             all == pre.prepared
  <1>1. o \in Seq(ChoicesOf(pre)) /\ \A i, j \in DOMAIN o : i < j => o[i].at < o[j].at
    BY ByPlaceIs
  <1>2. DOMAIN o = 1 .. Len(o) /\ Len(o) \in Nat /\ DOMAIN all = 1 .. Len(all) /\ Len(all) \in Nat
    BY <1>1 DEF PreTyped
  <1>3. Bare(limit, pre, s, omitted).evidence = [k \in DOMAIN o |-> EvidenceOf(pre, o[k])]
    BY DEF Bare, Items
  <1>4. \A k \in DOMAIN o : o[k].at \in DOMAIN all
    BY <1>1 DEF ChoicesOf
  <1> HIDE DEF o
  <1>5. \A k, l \in DOMAIN o : k # l => o[k].at # o[l].at
    BY <1>1, <1>2, <1>4
  <1>6. \A k \in DOMAIN o : /\ EvidenceOf(pre, o[k]).handle = all[o[k].at].c.handle
                               /\ EvidenceOf(pre, o[k]).path = all[o[k].at].c.path
                            /\ EvidenceOf(pre, o[k]).span = all[o[k].at].c.span
    BY DEF EvidenceOf
  <1>7. \A k, l \in DOMAIN o : k # l => EvidenceOf(pre, o[k]).handle # EvidenceOf(pre, o[l]).handle
    BY <1>4, <1>5, <1>6 DEF Apart
  <1>8. \A k \in DOMAIN o : ShowsOneOf(EvidenceOf(pre, o[k]), all)
    BY <1>4, <1>6 DEF ShowsOneOf
  <1> QED BY <1>3, <1>7, <1>8 DEF ShowsApart

\* So does a packet that shows the same.
LEMMA RepeatsShowApart ==
  ASSUME NEW p, NEW q, Repeats(p, q), NEW all, ShowsApart(p.evidence, all)
  PROVE  ShowsApart(q.evidence, all)
  BY DEF Repeats, ShowsApart, ShowsOneOf

\* What shows nothing selected nothing.
LEMMA NothingShown ==
  ASSUME NEW pre, PreTyped(pre), NEW s \in Selections(pre), NEW limit, NEW omitted,
         DOMAIN Bare(limit, pre, s, omitted).evidence = {}
  PROVE  s = <<>>
  <1>1. DOMAIN ByPlace(s) = {}
    BY DEF Bare, Items
  <1>2. ToSet(s) = {}
    BY <1>1, ByPlaceIs
  <1>3. s \in Seq(ChoicesOf(pre))
    BY DEF Selections
  <1>4. DOMAIN s = 1 .. Len(s) /\ Len(s) \in Nat /\ \A k \in DOMAIN s : s[k] \in ToSet(s)
    BY <1>3 DEF ToSet
  <1>5. Len(s) = 0
    BY <1>2, <1>4
  <1> QED BY <1>3, <1>5

\* What Compile answers.
Answered(p, limit, pre) ==
  \/ p = [schema |-> "error"]
  \/ /\ IsPacket(p) /\ p.limit = limit /\ ShowsApart(p.evidence, pre.prepared)
     /\ p.evidence = <<>> => NothingFits(limit, pre)

\* An answer shows prepared candidates, each once; one that shows nothing has
\* no room for any.
LEMMA CompileAnswers ==
  ASSUME NEW request, request.cands \in Seq(Offers)
  PROVE  Answered(Compile(request), ClampBudget(request.budget), Preprocess(request))
  <1> DEFINE limit == ClampBudget(request.budget)
             pre == Preprocess(request)
             s == Select(request, pre, limit)
             omitted == Omitted(pre, s)
             bare == Bare(limit, pre, s, omitted)
             q == Compile(request)
  <1>1. PreTyped(pre) /\ Apart(pre.prepared)
    BY PreIsTyped, PreparedIs
  <1>2. q = Guided(request, pre, s, BuildPacket(limit, pre, s, omitted))
    BY DEF Compile
  <1> HIDE DEF pre, limit, q
  <1>3. s \in Selections(pre) /\ (s = <<>> => DOMAIN pre.prepared = {} \/ Fitting(request, pre,
        limit, <<>>) = {})
    BY <1>1, SelectIs DEF Chosen
  <1> HIDE DEF s, omitted
  <1>4. CASE q = [schema |-> "error"]
    BY <1>4 DEF Answered, q, limit, pre
  <1>5. CASE IsPacket(q) /\ q.limit = limit /\ Repeats(bare, q)
    <2>1. ShowsApart(q.evidence, pre.prepared)
      <3>1. ShowsApart(bare.evidence, pre.prepared)
        BY <1>1, <1>3, BareShowsApart
      <3> QED BY <1>5, <3>1, RepeatsShowApart
    <2>2. ASSUME q.evidence = <<>> PROVE NothingFits(limit, pre)
      <3>1. DOMAIN bare.evidence = {}
        BY <1>5, <2>2 DEF Repeats
      <3>2. s = <<>>
        BY <1>1, <1>3, <3>1, NothingShown
      <3>3. DOMAIN pre.prepared = {} \/ Fitting(request, pre, limit, <<>>) = {}
        BY <1>3, <3>2
      <3> QED BY <1>1, <3>3, RoomIsUsed DEF NothingFits, HasRoom
    <2> QED BY <1>5, <2>1, <2>2 DEF Answered, q, limit, pre
  <1>6. q = [schema |-> "error"] \/ (IsPacket(q) /\ q.limit = limit /\ Repeats(bare, q))
    BY <1>1, <1>2, <1>3, GuidedShows DEF ShowsAll
  <1> QED BY <1>4, <1>5, <1>6

-----------------------------------------------------------------------------
(* Evidence: a session of questions                                        *)

\* A request of a client.
Question(intent, manner, budget, cands, known) ==
  [intent |-> intent, mode |-> manner, budget |-> budget, cands |-> cands, known |-> known,
      anchors |-> <<>>]

\* The handles of what was shown.
Handles(shown) == [k \in DOMAIN shown |-> shown[k].handle]

\* All there is to read: what is prepared of a request that knows nothing.
AllOf(r) == Preprocess(Question(r.intent, r.mode, r.budget, r.cands, <<>>)).prepared

\* Nothing was asked.
SessionBegins == req = NoCall /\ packet = NoPacket /\ read = <<>>

\* The client's known handles are those of what it has read, and it has read
\* different candidates.
SessionGoesOn ==
  /\ \E i, m, b, k : \E c \in Seq(Offers) : req = Question(i, m, b, c, k)
  /\ req.known = Handles(read)
  /\ \E S : read \in Seq(S)
  /\ packet = NoPacket => read = <<>>
  /\ ShowsApart(read, AllOf(req))
  /\ SessionReadsAll

\* The inductive invariant of a session.
SessionInvariant == SessionBegins \/ SessionGoesOn

\* The fields of a request, and what the client changes of them.
LEMMA QuestionIs ==
  ASSUME NEW i, NEW m, NEW b, NEW c, NEW k, NEW q, q = Question(i, m, b, c, k)
  PROVE  /\ q # NoCall /\ q.intent = i /\ q.mode = m /\ q.budget = b /\ q.cands = c /\ q.known = k
         /\ \A x : [q EXCEPT !.cands = x] = Question(i, m, b, x, k)
         /\ \A x : [q EXCEPT !.known = x] = Question(i, m, b, c, x)
  <1>1. DOMAIN q = {"intent", "mode", "budget", "cands", "known", "anchors"}
        /\ DOMAIN NoCall = {"intent"}
    BY DEF Question, NoCall
  <1>2. q # NoCall
    <2>1. "mode" \in DOMAIN q /\ "mode" \notin DOMAIN NoCall
      BY <1>1
    <2> QED BY <2>1
  <1>3. ASSUME NEW x PROVE [q EXCEPT !.cands = x] = Question(i, m, b, x, k)
    BY DEF Question
  <1>4. ASSUME NEW x PROVE [q EXCEPT !.known = x] = Question(i, m, b, c, x)
    BY DEF Question
  <1>5. q.intent = i /\ q.mode = m /\ q.budget = b /\ q.cands = c /\ q.known = k
    BY DEF Question
  <1> QED BY <1>2, <1>3, <1>4, <1>5

\* The handles of what was read before and is read now.
LEMMA HandlesOfBoth ==
  ASSUME NEW S, NEW s \in Seq(S), NEW T, NEW t \in Seq(T)
  PROVE  /\ s \o t \in Seq(S \cup T) /\ Handles(s) \o Handles(t) = Handles(s \o t)
         /\ \A k \in DOMAIN (s \o t) : \/ k \in DOMAIN s /\ (s \o t)[k] = s[k]
                                       \/ k \notin DOMAIN s /\ k - Len(s) \in DOMAIN t
                                          /\ (s \o t)[k] = t[k - Len(s)]
  <1> DEFINE U == S \cup T
  <1>1. s \in Seq(U) /\ t \in Seq(U)
    <2>1. s \in [1 .. Len(s) -> U] /\ Len(s) \in Nat /\ t \in [1 .. Len(t) -> U] /\ Len(t) \in Nat
      OBVIOUS
    <2> HIDE DEF U
    <2> QED BY <2>1
  <1> HIDE DEF U
  <1>2. /\ s \o t \in Seq(U) /\ Len(s \o t) = Len(s) + Len(t) /\ Len(s) \in Nat /\ Len(t) \in Nat
        /\ DOMAIN (s \o t) = 1 .. Len(s) + Len(t) /\ DOMAIN s = 1 .. Len(s) /\ DOMAIN t = 1 .. Len(t)
    BY <1>1
  <1>3. \A k \in 1 .. Len(s) + Len(t) : (s \o t)[k] = IF k <= Len(s) THEN s[k] ELSE t[k - Len(s)]
    BY <1>1
  <1>4. \A k \in 1 .. Len(s) + Len(t) : \/ k \in DOMAIN s /\ (s \o t)[k] = s[k]
                                        \/ k \notin DOMAIN s /\ k - Len(s) \in DOMAIN t
                                           /\ (s \o t)[k] = t[k - Len(s)]
    BY <1>2, <1>3
  <1>5. Handles(s) \o Handles(t) = Handles(s \o t)
    <2> DEFINE a == Handles(s)
               b == Handles(t)
               H == Values(a) \cup Values(b)
    <2>1. a \in [1 .. Len(s) -> H] /\ b \in [1 .. Len(t) -> H]
      <3>1. a \in [1 .. Len(s) -> Values(a)] /\ b \in [1 .. Len(t) -> Values(b)]
        BY <1>2 DEF Handles, Values
      <3> HIDE DEF a, b
      <3> QED BY <3>1
    <2>2. /\ \A k \in 1 .. Len(s) : a[k] = s[k].handle
          /\ \A k \in 1 .. Len(t) : b[k] = t[k].handle
      <3>1. /\ a = [k \in 1 .. Len(s) |-> s[k].handle] /\ b = [k \in 1 .. Len(t) |-> t[k].handle]
        BY <1>2 DEF Handles
      <3> HIDE DEF a, b
      <3> QED BY <3>1
    <2> DEFINE m == Len(s)
               n == Len(t)
    <2>3. m \in Nat /\ n \in Nat
      BY <1>2
    <2> HIDE DEF a, b, H, m, n
    <2>4. a \in Seq(H) /\ b \in Seq(H) /\ Len(a) = Len(s) /\ Len(b) = Len(t)
      <3>1. a \in [1 .. m -> H] /\ b \in [1 .. n -> H]
        BY <2>1 DEF m, n
      <3>2. a \in Seq(H) /\ b \in Seq(H)
        BY ONLY <2>3, <3>1
      <3>3. Len(a) = m /\ Len(b) = n
        BY ONLY <2>3, <3>1, <3>2
      <3> QED BY <3>2, <3>3 DEF m, n
    <2>5. /\ a \o b \in [1 .. Len(s) + Len(t) -> H]
          /\ \A k \in 1 .. Len(s) + Len(t) : (a \o b)[k] = IF k <= Len(s) THEN a[k] ELSE b[k - Len(s)]
      <3>1. /\ a \o b \in Seq(H) /\ Len(a \o b) = Len(a) + Len(b)
            /\ \A k \in 1 .. Len(a) + Len(b) : (a \o b)[k] = IF k <= Len(a) THEN a[k] ELSE b[k - Len(a)]
        BY <2>4
      <3> DEFINE c == a \o b
      <3>2. c \in Seq(H)
        BY <3>1
      <3>3. Len(c) = Len(s) + Len(t)
        BY <2>4, <3>1
      <3> HIDE DEF c
      <3>4. c \in [1 .. Len(c) -> H]
        BY <3>2
      <3>5. c \in [1 .. Len(s) + Len(t) -> H]
        BY <3>3, <3>4
      <3>6. \A k \in 1 .. Len(s) + Len(t) : c[k] = IF k <= Len(s) THEN a[k] ELSE b[k - Len(s)]
        BY <2>4, <3>1 DEF c
      <3> QED BY <3>5, <3>6 DEF c
    <2>6. \A k \in 1 .. Len(s) + Len(t) : (a \o b)[k] = (s \o t)[k].handle
      BY <1>2, <1>3, <2>2, <2>5
    <2>7. a \o b = [k \in 1 .. Len(s) + Len(t) |-> (s \o t)[k].handle]
      BY <2>5, <2>6
    <2>8. Handles(s \o t) = [k \in 1 .. Len(s) + Len(t) |-> (s \o t)[k].handle]
      BY <1>2 DEF Handles
    <2> QED BY <2>7, <2>8 DEF a, b
  <1>6. s \o t \in Seq(S \cup T)
    BY <1>2 DEF U
  <1> DEFINE r == s \o t
  <1>7. DOMAIN r = 1 .. Len(s) + Len(t)
    BY <1>2
  <1> HIDE DEF r
  <1>8. \A k \in DOMAIN r : \/ k \in DOMAIN s /\ r[k] = s[k]
                            \/ k \notin DOMAIN s /\ k - Len(s) \in DOMAIN t /\ r[k] = t[k - Len(s)]
    <2>1. \A k \in 1 .. Len(s) + Len(t) : \/ k \in DOMAIN s /\ r[k] = s[k]
                                          \/ k \notin DOMAIN s /\ k - Len(s) \in DOMAIN t
                                             /\ r[k] = t[k - Len(s)]
      BY <1>4 DEF r
    <2> QED BY <1>7, <2>1
  <1> QED BY <1>5, <1>6, <1>8 DEF r

\* What was read and what is shown now are different, if the client's handles
\* are not shown.
LEMMA ReadingGrows ==
  ASSUME NEW all, NEW S, NEW s \in Seq(S), ShowsApart(s, all), NEW T, NEW t \in Seq(T),
           ShowsApart(t, all),
         \A k \in DOMAIN t : t[k].handle \notin ToSet(Handles(s))
  PROVE  ShowsApart(s \o t, all)
  <1>1. \A k \in DOMAIN (s \o t) : \/ k \in DOMAIN s /\ (s \o t)[k] = s[k]
                                   \/ k \notin DOMAIN s /\ k - Len(s) \in DOMAIN t
                                      /\ (s \o t)[k] = t[k - Len(s)]
    BY HandlesOfBoth
  <1>2. \A k \in DOMAIN s, l \in DOMAIN t : s[k].handle # t[l].handle
    BY DEF Handles, ToSet
  <1>3. \A k \in DOMAIN (s \o t) : k \in Int
    BY HandlesOfBoth
  <1>4. Len(s) \in Nat
    OBVIOUS
  <1> DEFINE r == s \o t
  <1> HIDE DEF r
  <1>5. ASSUME NEW k \in DOMAIN r PROVE ShowsOneOf(r[k], all)
    BY <1>1 DEF ShowsApart, r
  <1>6. ASSUME NEW k \in DOMAIN r, NEW l \in DOMAIN r, k # l PROVE r[k].handle # r[l].handle
    <2>1. CASE k \in DOMAIN s /\ l \in DOMAIN s
      BY <1>1, <1>6, <2>1 DEF ShowsApart, r
    <2>2. CASE k \in DOMAIN s /\ l \notin DOMAIN s
      BY <1>1, <1>2, <2>2 DEF r
    <2>3. CASE k \notin DOMAIN s /\ l \in DOMAIN s
      BY <1>1, <1>2, <2>3 DEF r
    <2>4. CASE k \notin DOMAIN s /\ l \notin DOMAIN s
      <3>1. k - Len(s) # l - Len(s)
        BY <1>3, <1>4, <1>6 DEF r
      <3>2. /\ k - Len(s) \in DOMAIN t /\ r[k] = t[k - Len(s)]
            /\ l - Len(s) \in DOMAIN t /\ r[l] = t[l - Len(s)]
        BY <1>1, <2>4 DEF r
      <3> QED BY <3>1, <3>2 DEF ShowsApart
    <2> QED BY <2>1, <2>2, <2>3, <2>4
  <1> QED BY <1>5, <1>6 DEF ShowsApart, r

\* A question that knows nothing prepares what every question after it prepares.
LEMMA SameQuestion ==
  ASSUME NEW i, NEW m, NEW b, NEW c \in Seq(Offers), NEW k, NEW q, q = Question(i, m, b, c, k)
  PROVE  /\ AmongAll(Preprocess(q).prepared, AllOf(q)) /\ Apart(AllOf(q))
         /\ AllOf(q) = Preprocess(Question(i, m, b, c, <<>>)).prepared
         /\ \A a \in DOMAIN Preprocess(q).prepared : Preprocess(q).prepared[a].c.handle \notin ToSet(k)
  <1> DEFINE f == Question(i, m, b, c, <<>>)
  <1>1. /\ q.intent = i /\ q.mode = m /\ q.budget = b /\ q.cands = c /\ q.known = k
        /\ f.intent = i /\ f.mode = m /\ f.budget = b /\ f.cands = c /\ f.known = <<>>
    BY QuestionIs
  <1>2. AllOf(q) = Preprocess(f).prepared
    BY <1>1 DEF AllOf
  <1> HIDE DEF f
  <1>3. Afresh(q, f)
    BY <1>1 DEF Afresh
  <1>4. AmongAll(Preprocess(q).prepared, Preprocess(f).prepared)
    BY <1>1, <1>3, AllAreFresh
  <1>5. Apart(Preprocess(f).prepared)
    BY <1>1, PreparedIs
  <1>6. \A a \in DOMAIN Preprocess(q).prepared :
          Preprocess(q).prepared[a].c.handle \notin ToSet(q.known)
    <2>1. q.cands \in Seq(Offers)
      BY <1>1
    <2> QED BY ONLY <2>1, PreparedIs
  <1> QED BY <1>1, <1>2, <1>4, <1>5, <1>6 DEF f

\* What is shown of some is shown of all they are among.
LEMMA ShowsAmongAll ==
  ASSUME NEW evidence, NEW prepared, NEW all, ShowsApart(evidence, prepared), AmongAll(prepared, all)
  PROVE  ShowsApart(evidence, all)
  BY DEF ShowsApart, ShowsOneOf, AmongAll

\* A first question keeps the invariant.
LEMMA CallKeeps ==
  ASSUME SessionInvariant, NEW i, NEW m, NEW b, Call(i, m, b)
  PROVE  SessionInvariant'
  <1>1. SessionBegins
    <2>1. ASSUME SessionGoesOn PROVE FALSE
      BY <2>1, QuestionIs DEF SessionGoesOn, Call
    <2> QED BY <2>1 DEF SessionInvariant
  <1>2. packet' = NoPacket /\ read' = <<>> /\ req' = Question(i, m, b, <<>>, <<>>)
    BY <1>1 DEF Call, SessionBegins, Question
  <1>3. Handles(<<>>) = <<>> /\ <<>> \in Seq(Offers)
    BY DEF Handles
  <1>4. req'.known = Handles(read')
    BY <1>2, <1>3, QuestionIs
  <1>5. ShowsApart(read', AllOf(req'))
    BY <1>2 DEF ShowsApart
  <1>6. SessionReadsAll'
    BY <1>2 DEF SessionReadsAll, PacketGiven
  <1>7. \E S : read' \in Seq(S)
    BY <1>2, <1>3
  <1>8. \E x, y, z, w : \E c \in Seq(Offers) : req' = Question(x, y, z, c, w)
    BY <1>2, <1>3
  <1> QED BY <1>2, <1>4, <1>5, <1>6, <1>7, <1>8 DEF SessionInvariant, SessionGoesOn

\* So does a candidate more, before the first answer.
LEMMA FindKeeps ==
  ASSUME SessionInvariant, NEW o \in Offers, Find(o)
  PROVE  SessionInvariant'
  <1>1. SessionGoesOn
    BY DEF SessionInvariant, SessionBegins, Find
  <1>2. PICK i, m, b, k : \E c \in Seq(Offers) : req = Question(i, m, b, c, k)
    BY <1>1 DEF SessionGoesOn
  <1>3. PICK c \in Seq(Offers) : req = Question(i, m, b, c, k)
    BY <1>2
  <1>4. req.cands = c /\ \A x : [req EXCEPT !.cands = x] = Question(i, m, b, x, k)
    BY <1>3, QuestionIs
  <1>5. packet' = NoPacket /\ read' = <<>> /\ read = <<>> /\ req' = [req EXCEPT !.cands = Append(c, o)]
    BY <1>1, <1>4 DEF Find, SessionGoesOn
  <1>6. req' = Question(i, m, b, Append(c, o), k) /\ Append(c, o) \in Seq(Offers)
    <2>1. Append(c, o) \in Seq(Offers)
      OBVIOUS
    <2> DEFINE d == Append(c, o)
    <2>2. req' = [req EXCEPT !.cands = d]
      BY <1>5
    <2> HIDE DEF d
    <2>3. req' = Question(i, m, b, d, k)
      BY <1>4, <2>2
    <2> QED BY <2>1, <2>3 DEF d
  <1>7. req'.known = Handles(read')
    <2>1. req'.known = k /\ req.known = k
      BY <1>3, <1>6, QuestionIs
    <2> QED BY <1>1, <1>5, <2>1 DEF SessionGoesOn
  <1>8. ShowsApart(read', AllOf(req'))
    BY <1>5 DEF ShowsApart
  <1>9. SessionReadsAll'
    BY <1>5 DEF SessionReadsAll, PacketGiven
  <1>10. \E S : read' \in Seq(S)
    BY <1>1, <1>5 DEF SessionGoesOn
  <1>11. \E x, y, z, w : \E d \in Seq(Offers) : req' = Question(x, y, z, d, w)
    BY <1>6
  <1> QED BY <1>5, <1>7, <1>8, <1>9, <1>10, <1>11 DEF SessionInvariant, SessionGoesOn

\* So does an answer: it shows nothing the client knows, and if it shows
\* nothing, nothing fits.
LEMMA AskKeeps ==
  ASSUME SessionInvariant, Ask
  PROVE  SessionInvariant'
  <1>1. SessionGoesOn
    BY DEF SessionInvariant, SessionBegins, Ask
  <1>2. PICK i, m, b, k : \E c \in Seq(Offers) : req = Question(i, m, b, c, k)
    BY <1>1 DEF SessionGoesOn
  <1>3. PICK c \in Seq(Offers) : req = Question(i, m, b, c, k)
    BY <1>2
  <1>4. /\ req.intent = i /\ req.mode = m /\ req.budget = b /\ req.cands = c /\ req.known = k
        /\ \A x : [req EXCEPT !.known = x] = Question(i, m, b, c, x)
    BY <1>3, QuestionIs
  <1>5. k = Handles(read) /\ ShowsApart(read, AllOf(req))
    BY <1>1, <1>4 DEF SessionGoesOn
  <1>6. PICK S : read \in Seq(S)
    BY <1>1 DEF SessionGoesOn
  <1> DEFINE shown == IF packet'.schema = "error" THEN <<>> ELSE packet'.evidence
             all == AllOf(req)
             pre == Preprocess(req)
             limit == ClampBudget(b)
  <1>7. /\ read' = read \o shown /\ packet' = Compile(req)
        /\ req' = [req EXCEPT !.known = k \o Handles(shown)]
    BY <1>4 DEF Ask, Handles
  <1>8. req' = Question(i, m, b, c, k \o Handles(shown))
    BY <1>4, <1>7
  <1>9. Answered(packet', limit, pre)
    BY <1>4, <1>7, CompileAnswers
  <1>10. /\ AmongAll(pre.prepared, all)
         /\ \A a \in DOMAIN pre.prepared : pre.prepared[a].c.handle \notin ToSet(k)
    BY <1>3, SameQuestion
  <1>11. AllOf(req') = all
    <2>1. PICK new : new = req'
      OBVIOUS
    <2>2. PICK old : old = req
      OBVIOUS
    <2>3. new = Question(i, m, b, c, k \o Handles(shown)) /\ old = Question(i, m, b, c, k)
      BY <1>3, <1>8, <2>1, <2>2
    <2> HIDE DEF shown
    <2>4. AllOf(new) = AllOf(old)
      <3> DEFINE known == k \o Handles(shown)
                 nothing == Preprocess(Question(i, m, b, c, <<>>)).prepared
      <3> HIDE DEF known
      <3>1. new = Question(i, m, b, c, known)
        BY <2>3 DEF known
      <3>2. AllOf(new) = nothing
        BY ONLY <3>1, c \in Seq(Offers), SameQuestion
      <3>3. AllOf(old) = nothing
        BY ONLY <2>3, c \in Seq(Offers), SameQuestion
      <3> QED BY <3>2, <3>3
    <2> QED BY <2>1, <2>2, <2>4 DEF all
  <1> HIDE DEF all, pre, limit
  <1>12. CASE packet' = [schema |-> "error"]
    <2>1. packet'.schema = "error" /\ shown = <<>>
      BY <1>12
    <2> HIDE DEF shown
    <2>2. read' = read
      BY <1>6, <1>7, <2>1
    <2>3. Handles(shown) = <<>> /\ k \o <<>> = k
      <3>1. k \in Seq(Values(k))
        <4>1. k = [x \in 1 .. Len(read) |-> read[x].handle] /\ Len(read) \in Nat
          BY <1>5, <1>6 DEF Handles
        <4>2. k \in [1 .. Len(read) -> Values(k)]
          BY <4>1 DEF Values
        <4> DEFINE n == Len(read)
        <4> HIDE DEF n
        <4>3. n \in Nat /\ k \in [1 .. n -> Values(k)]
          BY <4>1, <4>2 DEF n
        <4> QED BY <4>3
      <3>2. k \o <<>> = k
        BY <3>1
      <3> QED BY <2>1, <3>2 DEF Handles
    <2>4. req' = req
      BY <1>3, <1>8, <2>3
    <2>5. packet' # NoPacket
      BY <2>1 DEF NoPacket
    <2>6. SessionReadsAll'
      BY <2>1 DEF SessionReadsAll
    <2> QED BY <1>1, <2>2, <2>4, <2>5, <2>6 DEF SessionInvariant, SessionGoesOn
  <1>13. CASE /\ IsPacket(packet') /\ packet'.limit = limit
                 /\ ShowsApart(packet'.evidence, pre.prepared)
              /\ packet'.evidence = <<>> => NothingFits(limit, pre)
    <2>1. packet'.schema = "v1" /\ shown = packet'.evidence /\ \E T : shown \in Seq(T)
      BY <1>13 DEF IsPacket
    <2>2. PICK T : shown \in Seq(T)
      BY <2>1
    <2> HIDE DEF shown
    <2>3. packet' # NoPacket
      BY <2>1 DEF NoPacket
    <2>4. ShowsApart(shown, all)
      BY <1>10, <1>13, <2>1, ShowsAmongAll
    <2>5. \A x \in DOMAIN shown : shown[x].handle \notin ToSet(k)
      BY <1>10, <1>13, <2>1 DEF ShowsApart, ShowsOneOf
    <2>6. ShowsApart(read', all)
      BY <1>5, <1>6, <1>7, <2>2, <2>4, <2>5, ReadingGrows DEF all
    <2>7. read' \in Seq(S \cup T) /\ k \o Handles(shown) = Handles(read')
      BY <1>5, <1>6, <1>7, <2>2, HandlesOfBoth
    <2>8. req'.known = Handles(read')
      BY <1>8, <2>7, QuestionIs
    <2>9. SessionReadsAll'
      <3> SUFFICES ASSUME packet'.evidence = <<>> PROVE NothingFits(packet.limit, Preprocess(req))'
        BY DEF SessionReadsAll
      <3>1. NothingFits(limit, pre)
        BY <1>13
      <3>2. req' = req
        <4>1. k \o Handles(shown) = k
          <5>1. read' = read
            BY <1>6, <1>7, <2>1
          <5> QED BY <1>5, <2>7, <5>1
        <4> QED BY <1>3, <1>8, <4>1
      <3>3. Preprocess(req)' = pre /\ packet'.limit = limit
        BY <1>13, <3>2 DEF pre
      <3> QED BY <3>1, <3>3 DEF NothingFits, HasRoom
    <2> QED BY <1>3, <1>8, <1>11, <2>3, <2>6, <2>7, <2>8, <2>9 DEF SessionInvariant,
       SessionGoesOn
  <1> QED BY <1>9, <1>12, <1>13 DEF Answered

\* Every step of a session keeps it.
LEMMA SessionInvariantKeeps ==
  ASSUME SessionInvariant, [NextCall]_session
  PROVE  SessionInvariant'
  <1>1. CASE UNCHANGED session
    BY <1>1 DEF session, SessionInvariant, SessionBegins, SessionGoesOn, SessionReadsAll,
       PacketGiven, NothingFits, HasRoom
  <1>2. ASSUME NEW i \in Intents, NEW m \in Modes, NEW b \in Budgets, Call(i, m, b)
        PROVE SessionInvariant'
    BY <1>2, CallKeeps
  <1>3. ASSUME NEW o \in Offers, Find(o) PROVE SessionInvariant'
    BY <1>3, FindKeeps
  <1>4. CASE Ask
    BY <1>4, AskKeeps
  <1> QED BY <1>1, <1>2, <1>3, <1>4 DEF NextCall

\* It says that a session reads everything once.
LEMMA SessionIsRight ==
  ASSUME SessionInvariant
  PROVE  SessionReadsAllOnce
  <1>1. CASE SessionBegins
    BY <1>1 DEF SessionBegins, SessionReadsAllOnce, SessionReadsOnce, SessionReadsAll,
       PacketGiven
  <1>2. CASE SessionGoesOn
    <2>1. PICK i, m, b, k : \E c \in Seq(Offers) : req = Question(i, m, b, c, k)
      BY <1>2 DEF SessionGoesOn
    <2>2. Apart(AllOf(req))
      BY <2>1, SameQuestion
    <2>3. ShowsApart(read, AllOf(req))
      BY <1>2 DEF SessionGoesOn
    <2> DEFINE all == AllOf(req)
    <2> HIDE DEF all
    <2>4. ASSUME NEW x \in DOMAIN read, NEW y \in DOMAIN read, x # y
          PROVE  read[x].handle # read[y].handle
                   /\ <<read[x].path, read[x].span>> # <<read[y].path, read[y].span>>
      <3>1. read[x].handle # read[y].handle
        BY <2>3, <2>4 DEF ShowsApart
      <3>2. PICK a \in DOMAIN all : read[x].handle = all[a].c.handle /\ read[x].path = all[a].c.path
            /\ read[x].span = all[a].c.span
        BY <2>3 DEF ShowsApart, ShowsOneOf, all
      <3>3. PICK d \in DOMAIN all : read[y].handle = all[d].c.handle /\ read[y].path = all[d].c.path
            /\ read[y].span = all[d].c.span
        BY <2>3 DEF ShowsApart, ShowsOneOf, all
      <3>4. a # d
        BY <3>1, <3>2, <3>3
      <3> QED BY <2>2, <3>1, <3>2, <3>3, <3>4 DEF Apart, all
    <2> QED BY <1>2, <2>4 DEF SessionReadsAllOnce, SessionReadsOnce, SessionGoesOn
  <1> QED BY <1>1, <1>2 DEF SessionInvariant

\* A client that repeats its question with the handles it has reads nothing
\* twice, neither a handle nor lines of a file, and an answer without
\* evidence leaves out only what fits no packet (compiler.go 107-139,
\* 219-260).
THEOREM SessionReadsEverythingOnce == CallSpec => []SessionReadsAllOnce
  <1>1. NoRequest => SessionInvariant
    BY DEF NoRequest, SessionInvariant, SessionBegins
  <1>2. SessionInvariant /\ [NextCall]_session => SessionInvariant'
    BY SessionInvariantKeeps
  <1>3. SessionInvariant => SessionReadsAllOnce
    BY SessionIsRight
  <1> QED BY <1>1, <1>2, <1>3, PTL DEF CallSpec

-----------------------------------------------------------------------------
(* Evidence: guidance within the budget                                    *)

\* What a loop keeps of a sequence.
LEMMA ThoseIs ==
  ASSUME NEW S, NEW seq \in Seq(S), NEW kept
  PROVE  /\ Those(seq, kept) \in Seq(S)
         /\ \A x : x \in ToSet(Those(seq, kept)) <=> x \in ToSet(seq) /\ x \in kept
         /\ Len(seq) > 0 /\ seq[1] \in kept => Len(Those(seq, kept)) > 0 /\ Those(seq, kept)[1] = seq[1]
         /\ Len(Those(seq, kept)) <= Len(seq)
  <1> DEFINE P == {k \in DOMAIN seq : seq[k] \in kept}
             B == {p \in P \X P : p[1] < p[2]}
             o == Ordered(P, B)
             t == Those(seq, kept)
  <1>1. DOMAIN seq = 1 .. Len(seq) /\ Len(seq) \in Nat
    OBVIOUS
  <1>2. P \in SUBSET (1 .. Len(seq)) /\ IsFiniteSet(P)
    <2>1. P \in SUBSET (1 .. Len(seq))
      BY <1>1
    <2> HIDE DEF P
    <2> QED BY <1>1, <2>1, FirstNumbers, FS_Subset
  <1>3. t = [k \in DOMAIN o |-> seq[o[k]]]
    BY DEF Those, Sorted
  <1>4. \A k \in P : k \in DOMAIN seq /\ seq[k] \in kept
    OBVIOUS
  <1>5. \A k \in DOMAIN seq : seq[k] \in kept => k \in P
    OBVIOUS
  <1> HIDE DEF P, t
  <1>6. \A x, y \in P : <<x, y>> \in B <=> x < y
    OBVIOUS
  <1>7. /\ o \in Seq(P) /\ \A k \in P : \E j \in DOMAIN o : o[j] = k
        /\ \A i, j \in DOMAIN o : i < j => <<o[i], o[j]>> \in B
        /\ Len(o) = Cardinality(P)
    <2>1. \A x \in P : x \in Int
      BY <1>1, <1>2
    <2>2. /\ \A x, y \in P : x # y => <<x, y>> \in B \/ <<y, x>> \in B
          /\ \A x, y \in P : <<x, y>> \in B => <<y, x>> \notin B
          /\ \A x, y, z \in P : <<x, y>> \in B /\ <<y, z>> \in B => <<x, z>> \in B
      <3> HIDE DEF B
      <3> QED BY <1>6, <2>1
    <2> HIDE DEF B
    <2>3. /\ o \in Seq(P) /\ Len(o) = Cardinality(P)
          /\ \A x \in P : \E k \in DOMAIN o : o[k] = x
          /\ \A i, j \in DOMAIN o : i < j => <<o[i], o[j]>> \in B
      BY <1>2, <2>2, OrderedIs
    <2> HIDE DEF o
    <2> QED BY <2>3
  <1> HIDE DEF B, o
  <1>8. DOMAIN o = 1 .. Len(o) /\ Len(o) \in Nat /\ \A j \in 1 .. Len(o) : o[j] \in P
    BY <1>7
  <1>9. t \in Seq(S) /\ Len(t) = Len(o) /\ DOMAIN t = DOMAIN o
    <2> DEFINE n == Len(o)
    <2>1. DOMAIN t = 1 .. n /\ \A j \in 1 .. n : t[j] \in S
      BY <1>1, <1>3, <1>4, <1>8
    <2>2. t \in [1 .. n -> S] /\ n \in Nat
      BY <1>3, <1>8, <2>1
    <2> HIDE DEF n
    <2>3. t \in Seq(S) /\ Len(t) = n
      BY <2>2
    <2> QED BY <1>8, <2>1, <2>3 DEF n
  <1>10. ASSUME NEW x PROVE x \in ToSet(t) <=> x \in ToSet(seq) /\ x \in kept
    <2>1. ASSUME x \in ToSet(t) PROVE x \in ToSet(seq) /\ x \in kept
      <3>1. PICK j \in DOMAIN t : x = t[j]
        BY <2>1 DEF ToSet
      <3>2. x = seq[o[j]] /\ o[j] \in P
        BY <1>3, <1>8, <1>9, <3>1
      <3> QED BY <1>4, <3>2 DEF ToSet
    <2>2. ASSUME x \in ToSet(seq), x \in kept PROVE x \in ToSet(t)
      <3>1. PICK k \in DOMAIN seq : x = seq[k]
        BY <2>2 DEF ToSet
      <3>2. PICK j \in DOMAIN o : o[j] = k
        BY <1>5, <1>7, <2>2, <3>1
      <3>3. t[j] = x /\ j \in DOMAIN t
        BY <1>3, <1>9, <3>1, <3>2
      <3> QED BY <3>3 DEF ToSet
    <2> QED BY <2>1, <2>2
  <1>11. ASSUME Len(seq) > 0, seq[1] \in kept PROVE Len(t) > 0 /\ t[1] = seq[1]
    <2>1. 1 \in P
      BY <1>1, <1>5, <1>11
    <2>2. PICK j \in DOMAIN o : o[j] = 1
      BY <1>7, <2>1
    <2>3. 1 \in DOMAIN o
      BY <1>8, <2>2
    <2>4. o[1] = 1
      <3>1. CASE j = 1
        BY <2>2, <3>1
      <3>2. CASE j # 1
        <4>1. 1 < j
          BY <1>8, <2>2, <3>2
        <4>2. o[1] < o[j] /\ o[1] \in P
          BY <1>6, <1>7, <1>8, <2>2, <2>3, <4>1
        <4>3. o[1] \in 1 .. Len(seq)
          BY <1>2, <4>2
        <4> QED BY <1>1, <2>2, <4>2, <4>3
      <3> QED BY <3>1, <3>2
    <2> QED BY <1>3, <1>8, <1>9, <2>3, <2>4
  <1>12. Len(t) <= Len(seq)
    <2>1. IsFiniteSet(1 .. Len(seq)) /\ Cardinality(1 .. Len(seq)) = Len(seq)
      BY <1>1, FirstNumbers
    <2>2. Cardinality(P) <= Cardinality(1 .. Len(seq))
      BY <1>2, <2>1, FS_Subset
    <2> QED BY <1>7, <1>9, <2>1, <2>2
  <1> QED BY <1>9, <1>10, <1>11, <1>12 DEF t

\* A packet with a size.
Weighs(p) == IsPacket(p) /\ Sized(p) /\ p.used \in Int

\* q says what p says, but of its size.
Restates(p, q) ==
  /\ q.evidence = p.evidence /\ q.relations = p.relations /\ q.limitations = p.limitations
     /\ q.next = p.next
  /\ q.limit = p.limit /\ q.omitted = p.omitted /\ q.skipped = p.skipped

\* A measured packet is as large as it says.
LEMMA SettleIsHonest ==
  ASSUME NEW p, Weighs(p)
  PROVE  /\ Weighs(Settle(p)) /\ Restates(p, Settle(p))
            /\ Settle(p).used = Body(Settle(p)) + 2 * Digits(Settle(p).used)
         /\ Body(Settle(p)) = Body(p) /\ Body(p) \in Int
         /\ \A w \in Int : p.used <= w /\ Body(p) + 2 * Digits(w) <= w => Settle(p).used <= w
  <1>1. Body(p) \in Int /\ p.used \in Int
    BY BodyIsNumber DEF Weighs
  <1>2. PICK u : Settled(p, u)
    BY <1>1, SettleIs
  <1> DEFINE q == [p EXCEPT !.used = u]
  <1>3. q.used = u /\ Restates(p, q)
    BY DEF Weighs, IsPacket, PacketFields, Restates
  <1>4. Settle(p) = q /\ u \in Int
    BY <1>2 DEF Settled
  <1> HIDE DEF q
  <1>5. Body(q) = Body(p)
    BY <1>3 DEF Restates, Body
  <1>6. IsPacket(q)
    BY <1>4, SettleKeeps DEF Weighs
  <1>7. Sized(q)
    BY <1>3 DEF Restates, Weighs, Sized
  <1> QED BY <1>1, <1>2, <1>3, <1>4, <1>5, <1>6, <1>7 DEF Settled, Weighs

\* The first l limitations and the first n actions.
LEMMA WithWeighs ==
  ASSUME NEW p, Weighs(p), NEW S, NEW l \in Seq(S), NEW T, NEW n \in Seq(T)
  PROVE  /\ Weighs(With(p, l, n)) /\ With(p, l, n).limitations = l /\ With(p, l, n).next = n
         /\ With(p, l, n).evidence = p.evidence /\ With(p, l, n).relations = p.relations
            /\ With(p, l, n).used = p.used
         /\ With(p, l, n).limit = p.limit /\ With(p, l, n).omitted = p.omitted
            /\ With(p, l, n).skipped = p.skipped
  <1> DEFINE q == With(p, l, n)
  <1>1. /\ q.limitations = l /\ q.next = n /\ q.evidence = p.evidence /\ q.relations = p.relations
           /\ q.used = p.used
        /\ q.limit = p.limit /\ q.omitted = p.omitted /\ q.skipped = p.skipped
    BY DEF With, Weighs, IsPacket, PacketFields
  <1>2. IsPacket(q)
    BY WithKeeps DEF Weighs
  <1> HIDE DEF q
  <1>3. Sized(q)
    <2>1. Len(l) \in Nat /\ Len(n) \in Nat
      OBVIOUS
    <2> QED BY <1>1, <2>1 DEF Sized, Weighs
  <1> QED BY <1>1, <1>2, <1>3 DEF Weighs, q

\* What guidance may be given with a packet that leaves out `omitted`.
Guides(l, n, omitted) ==
  /\ \E S : l \in Seq(S)
  /\ \E T : n \in Seq(T)
  /\ omitted > 0 => Len(l) > 0 /\ l[1] = "budget_limited"
  /\ "budget_limited" \in ToSet(l) => omitted > 0
  /\ Len(l) <= 8 /\ Len(n) <= 4

\* What a packet says that is right.
IsRight(p, limit, omitted, relations) ==
  /\ Weighs(p) /\ p.used = Body(p) + 2 * Digits(p.used) /\ p.used <= limit
  /\ p.limit = limit /\ p.omitted = omitted /\ p.relations = relations
  /\ omitted > 0 <=> "budget_limited" \in ToSet(p.limitations)
  /\ Len(p.limitations) <= 8 /\ Len(p.next) <= 4

\* The first part of a sequence.
LEMMA FirstPart ==
  ASSUME NEW S, NEW s \in Seq(S), NEW n \in 0 .. Len(s)
  PROVE  /\ SubSeq(s, 1, n) \in Seq(S) /\ Len(SubSeq(s, 1, n)) = n
         /\ \A k \in 1 .. n : SubSeq(s, 1, n)[k] = s[k]
         /\ DOMAIN SubSeq(s, 1, n) = 1 .. n
  OBVIOUS

\* What is left of the limitations says budget_limited exactly if something
\* is omitted.
LEMMA GuidesInPart ==
  ASSUME NEW l, NEW n, NEW omitted, Guides(l, n, omitted), NEW k \in 0 .. Len(l), omitted > 0 => k > 0
  PROVE  omitted > 0 <=> "budget_limited" \in ToSet(SubSeq(l, 1, k))
  <1>1. PICK S : l \in Seq(S)
    BY DEF Guides
  <1>2. /\ \A i \in 1 .. k : SubSeq(l, 1, k)[i] = l[i]
        /\ DOMAIN SubSeq(l, 1, k) = 1 .. k
    BY <1>1, FirstPart
  <1>3. k \in Nat /\ Len(l) \in Nat /\ DOMAIN l = 1 .. Len(l) /\ k <= Len(l)
    BY <1>1
  <1> DEFINE t == SubSeq(l, 1, k)
  <1> HIDE DEF t
  <1>4. ASSUME omitted > 0 PROVE "budget_limited" \in ToSet(t)
    <2>1. 1 \in 1 .. k /\ l[1] = "budget_limited"
      BY <1>3, <1>4 DEF Guides
    <2>2. 1 \in DOMAIN t /\ t[1] = "budget_limited"
      BY <1>2, <2>1 DEF t
    <2> QED BY <2>2 DEF ToSet
  <1>5. ASSUME "budget_limited" \in ToSet(t) PROVE omitted > 0
    <2>1. PICK i \in DOMAIN t : t[i] = "budget_limited"
      BY <1>5 DEF ToSet
    <2>2. i \in DOMAIN l /\ l[i] = "budget_limited"
      BY <1>2, <1>3, <2>1 DEF t
    <2>3. "budget_limited" \in ToSet(l)
      BY <2>2 DEF ToSet
    <2> QED BY <2>3 DEF Guides
  <1> QED BY <1>4, <1>5 DEF t

\* A packet before its guidance.
Unguided(p, limit, omitted, relations) ==
  /\ Weighs(p) /\ p.used = Body(p) + 2 * Digits(p.used) /\ p.used <= limit
  /\ p.limit = limit /\ p.omitted = omitted /\ p.relations = relations
  /\ p.limitations = IF omitted > 0 THEN <<"budget_limited">> ELSE <<>>
  /\ p.next = <<>>

\* A packet with the first l limitations and the first n actions.
Saying(p, limitations, next, l, n) == Settle(With(p, SubSeq(limitations, 1, l), SubSeq(next, 1, n)))

\* Such a packet is right if it fits; with the least that must be said it
\* fits.
LEMMA SayingIs ==
  ASSUME NEW p, NEW limit, NEW omitted, NEW relations, Unguided(p, limit, omitted, relations),
         NEW L, NEW N, Guides(L, N, omitted), NEW l \in 0 .. Len(L), NEW n \in 0 .. Len(N),
             omitted > 0 => l > 0
  PROVE  /\ Saying(p, L, N, l, n).used <= limit
            => IsRight(Saying(p, L, N, l, n), limit, omitted, relations)
         /\ Saying(p, L, N, l, n).evidence = p.evidence /\ Saying(p, L, N, l, n).used \in Int
         /\ limit \in Int /\ n = 0 /\ l = (IF omitted > 0 THEN 1 ELSE 0)
            => Saying(p, L, N, l, n).used <= limit
  <1>1. PICK S : L \in Seq(S)
    BY DEF Guides
  <1>2. PICK T : N \in Seq(T)
    BY DEF Guides
  <1> DEFINE l0 == SubSeq(L, 1, l)
             n0 == SubSeq(N, 1, n)
             w == With(p, l0, n0)
             q == Settle(w)
  <1>3. l0 \in Seq(S) /\ Len(l0) = l /\ n0 \in Seq(T) /\ Len(n0) = n
    BY <1>1, <1>2, FirstPart
  <1>4. omitted > 0 <=> "budget_limited" \in ToSet(l0)
    BY GuidesInPart
  <1>5. Saying(p, L, N, l, n) = q
    BY DEF Saying
  <1> HIDE DEF l0, n0
  <1>6. Weighs(p)
    BY DEF Unguided
  <1>7. /\ Weighs(w) /\ w.limitations = l0 /\ w.next = n0 /\ w.evidence = p.evidence
           /\ w.relations = p.relations /\ w.used = p.used
        /\ w.limit = p.limit /\ w.omitted = p.omitted /\ w.skipped = p.skipped
    BY <1>3, <1>6, WithWeighs
  <1> HIDE DEF w
  <1>8. /\ Weighs(q) /\ Restates(w, q) /\ q.used = Body(q) + 2 * Digits(q.used)
        /\ \A u \in Int : w.used <= u /\ Body(w) + 2 * Digits(u) <= u => q.used <= u
    BY <1>7, SettleIsHonest
  <1> HIDE DEF q
  <1>9. q.used <= limit => IsRight(q, limit, omitted, relations)
    <2>1. Len(l0) <= 8 /\ Len(n0) <= 4
      BY <1>1, <1>2, <1>3 DEF Guides
    <2> QED BY <1>4, <1>7, <1>8, <2>1 DEF Unguided, IsRight, Restates
  <1>10. q.evidence = p.evidence /\ q.used \in Int
    BY <1>7, <1>8 DEF Restates, Weighs
  <1>11. ASSUME limit \in Int, n = 0, l = (IF omitted > 0 THEN 1 ELSE 0) PROVE q.used <= limit
    <2>1. Len(p.limitations) = l /\ Len(p.next) = n
      BY <1>11 DEF Unguided
    <2>2. Body(w) = Body(p)
      BY <1>3, <1>7, <2>1 DEF Body
    <2>3. p.used \in Int /\ p.used = Body(p) + 2 * Digits(p.used) /\ p.used <= limit
      BY DEF Unguided, Weighs
    <2>4. w.used <= p.used /\ Body(w) + 2 * Digits(p.used) <= p.used
      BY <1>7, <2>2, <2>3
    <2>5. q.used <= p.used
      BY <1>8, <2>3, <2>4
    <2> QED BY <1>10, <1>11, <2>3, <2>5
  <1> QED BY <1>5, <1>9, <1>10, <1>11

\* Whatever has to go, what remains of the guidance says what is right.
LEMMA ApplyGuidanceIsRight ==
  ASSUME NEW p, NEW limit \in Int, NEW omitted, NEW relations, Unguided(p, limit, omitted, relations),
         NEW L, NEW N, Guides(L, N, omitted)
  PROVE  IsRight(ApplyGuidance(p, L, N), limit, omitted, relations)
           /\ ApplyGuidance(p, L, N).evidence = p.evidence
  <1> DEFINE all == Len(L)
             Said(l, n) == Saying(p, L, N, l, n)
             actions == {n \in 0 .. Len(N) : n = 0 \/ Said(all, n).used <= p.limit}
             keep == IF L # <<>> /\ Head(L) = "budget_limited" THEN 1 ELSE 0
             codes == {l \in keep .. all : l = keep \/ Said(l, 0).used <= p.limit}
             g == ApplyGuidance(p, L, N)
  <1>1. g = IF Max(actions) > 0 THEN Said(all, Max(actions)) ELSE Said(Max(codes), 0)
    BY DEF ApplyGuidance, Saying, With
  <1>2. PICK S : L \in Seq(S)
    BY DEF Guides
  <1>3. PICK T : N \in Seq(T)
    BY DEF Guides
  <1>4. all \in Nat /\ Len(N) \in Nat /\ 0 \in 0 .. Len(N)
    BY <1>2, <1>3
  <1>5. keep = (IF omitted > 0 THEN 1 ELSE 0) /\ keep \in 0 .. all
    <2>1. Len(L) > 0 => Head(L) = L[1] /\ L # <<>>
      BY <1>2
    <2>2. Len(L) = 0 => L = <<>>
      BY <1>2
    <2>3. L # <<>> => L[1] \in ToSet(L)
      <3>1. L # <<>> => 1 \in DOMAIN L
        BY <1>2
      <3> QED BY <3>1 DEF ToSet
    <2>4. omitted > 0 => keep = 1 /\ all > 0
      BY <2>1 DEF Guides
    <2>5. ~ (omitted > 0) => keep = 0
      BY <1>4, <2>1, <2>2, <2>3 DEF Guides
    <2> QED BY <1>4, <2>4, <2>5
  <1>6. p.limit = limit
    BY DEF Unguided
  <1> HIDE DEF g, Said, keep
  <1>7. Max(actions) \in actions
    <2>1. actions \in SUBSET (0 .. Len(N)) /\ actions # {}
      BY <1>4
    <2>2. actions \in SUBSET Int /\ IsFiniteSet(actions)
      <3>1. IsFiniteSet(0 .. Len(N))
        <4> DEFINE m == Len(N)
        <4>1. 0 \in Int /\ m \in Int
          BY <1>4
        <4> HIDE DEF m
        <4>2. IsFiniteSet(0 .. m)
          BY <4>1, FS_Interval
        <4> QED BY <4>2 DEF m
      <3> HIDE DEF actions
      <3>2. IsFiniteSet(actions)
        BY <2>1, <3>1, FS_Subset
      <3> QED BY <2>1, <3>2
    <2> HIDE DEF actions
    <2> QED BY <2>1, <2>2, MaxOfSet
  <1>8. Max(codes) \in codes
    <2>1. codes \in SUBSET (keep .. all) /\ codes # {} /\ keep \in Int /\ all \in Int
      BY <1>4, <1>5
    <2>2. codes \in SUBSET Int /\ IsFiniteSet(codes)
      <3> DEFINE k == keep
                 a == all
      <3>1. k \in Int /\ a \in Int /\ codes \in SUBSET (k .. a)
        BY <2>1
      <3> HIDE DEF a, k, codes
      <3>2. IsFiniteSet(k .. a)
        BY <3>1, FS_Interval
      <3>3. IsFiniteSet(codes)
        BY <3>1, <3>2, FS_Subset
      <3> QED BY <3>1, <3>3
    <2> HIDE DEF codes, all
    <2> QED BY <2>1, <2>2, MaxOfSet
  <1>9. CASE Max(actions) > 0
    <2> DEFINE n == Max(actions)
    <2>1. n \in 0 .. Len(N) /\ Said(all, n).used <= limit
      BY <1>6, <1>7, <1>9
    <2>2. g = Said(all, n)
      BY <1>1, <1>9
    <2> HIDE DEF actions, n
    <2>3. all \in 0 .. Len(L) /\ (omitted > 0 => all > 0)
      BY <1>4 DEF Guides
    <2> QED BY <2>1, <2>2, <2>3, SayingIs DEF Said, g
  <1>10. CASE ~ (Max(actions) > 0)
    <2> DEFINE l == Max(codes)
    <2>1. l \in keep .. all /\ (l = keep \/ Said(l, 0).used <= limit)
      BY <1>6, <1>8
    <2>2. g = Said(l, 0)
      BY <1>1, <1>10
    <2> HIDE DEF codes, actions, l
    <2>3. l \in 0 .. Len(L) /\ 0 \in 0 .. Len(N) /\ (omitted > 0 => l > 0)
      BY <1>4, <1>5, <2>1
    <2>4. Said(l, 0).used <= limit
      <3>1. l = keep => Said(l, 0).used <= limit
        BY <1>5, <2>3, SayingIs DEF Said
      <3> QED BY <2>1, <3>1
    <2> QED BY <2>2, <2>3, <2>4, SayingIs DEF Said, g
  <1> QED BY <1>9, <1>10

\* q says the same of items that are no larger.
Lighter(p, q) ==
  /\ q.relations = p.relations /\ q.limitations = p.limitations /\ q.next = p.next
  /\ q.limit = p.limit /\ q.omitted = p.omitted /\ q.skipped = p.skipped
  /\ DOMAIN q.evidence = DOMAIN p.evidence
  /\ \A k \in DOMAIN p.evidence : /\ q.evidence[k].tokens = p.evidence[k].tokens
                                  /\ q.evidence[k].meta \in Nat
                                     /\ q.evidence[k].meta <= p.evidence[k].meta

\* Smaller items make a smaller packet.
LEMMA LighterWeighsLess ==
  ASSUME NEW p, NEW q, Sized(p), Lighter(p, q)
  PROVE  Sized(q) /\ Body(q) <= Body(p) /\ Body(q) \in Int /\ Body(p) \in Int
  <1> DEFINE w == [i \in DOMAIN q.evidence |-> ItemSize(q.evidence[i])]
             v == [i \in DOMAIN p.evidence |-> ItemSize(p.evidence[i])]
  <1>1. PICK n \in Nat : DOMAIN p.evidence = 1 .. n
    BY DEF Sized
  <1>2. Sized(q)
    BY DEF Sized, Lighter
  <1>3. w \in [1 .. n -> Int] /\ v \in [1 .. n -> Int] /\ \A i \in 1 .. n : w[i] <= v[i]
    <2>1. \A i \in 1 .. n : /\ q.evidence[i].tokens = p.evidence[i].tokens
                               /\ p.evidence[i].tokens \in Nat
                            /\ q.evidence[i].meta \in Nat /\ p.evidence[i].meta \in Nat
                            /\ q.evidence[i].meta <= p.evidence[i].meta
      BY <1>1 DEF Sized, Lighter
    <2>2. \A i \in 1 .. n : /\ ItemSize(q.evidence[i]) \in Int /\ ItemSize(p.evidence[i]) \in Int
                            /\ ItemSize(q.evidence[i]) <= ItemSize(p.evidence[i])
      BY <2>1 DEF ItemSize
    <2>3. DOMAIN q.evidence = 1 .. n
      BY <1>1 DEF Lighter
    <2> QED BY <1>1, <2>2, <2>3
  <1>4. SumFunction(w) <= SumFunction(v) /\ SumFunction(w) \in Int /\ SumFunction(v) \in Int
    <2> HIDE DEF w, v
    <2> QED BY <1>3, SumsCompare
  <1>5. Body(q) \in Int /\ Body(p) \in Int
    BY <1>2, BodyIsNumber
  <1> DEFINE rest == Cardinality(p.relations) + Len(p.limitations) + Len(p.next)
                       + 2 * Digits(p.omitted) + (IF p.skipped > 0 THEN 1 ELSE 0)
  <1>6. rest \in Int
    <2>1. Cardinality(p.relations) \in Nat /\ Len(p.limitations) \in Nat /\ Len(p.next) \in Nat
          /\ Digits(p.omitted) \in Int
      BY FS_CardinalityType DEF Sized, Digits
    <2> QED BY <2>1
  <1>7. Cardinality(p.relations) \in Nat /\ Len(p.limitations) \in Nat /\ Len(p.next) \in Nat
        /\ Digits(p.omitted) \in Int
    BY FS_CardinalityType DEF Sized, Digits
  <1> DEFINE a == SumFunction(w)
             b == SumFunction(v)
  <1>8. Body(q) = 2 + a + rest /\ Body(p) = 2 + b + rest
    <2> DEFINE c == Cardinality(p.relations)
               l == Len(p.limitations)
               x == Len(p.next)
               d == Digits(p.omitted)
               z == IF p.skipped > 0 THEN 1 ELSE 0
    <2>1. /\ Body(q) = 2 + a + c + l + x + 2 * d + z
          /\ Body(p) = 2 + b + c + l + x + 2 * d + z
      <3> HIDE DEF c, l, x, d, z, a, b
      <3>1. /\ Body(q) = 2 + a + Cardinality(q.relations) + Len(q.limitations) + Len(q.next)
                           + 2 * Digits(q.omitted) + (IF q.skipped > 0 THEN 1 ELSE 0)
            /\ Body(p) = 2 + b + Cardinality(p.relations) + Len(p.limitations) + Len(p.next)
                           + 2 * Digits(p.omitted) + (IF p.skipped > 0 THEN 1 ELSE 0)
        BY DEF Body, a, b
      <3> QED BY <3>1 DEF Lighter, c, l, x, d, z
    <2>2. c \in Int /\ l \in Int /\ x \in Int /\ d \in Int /\ z \in Int /\ a \in Int /\ b \in Int
      BY <1>4, <1>7
    <2>3. rest = c + l + x + 2 * d + z
      OBVIOUS
    <2> HIDE DEF c, l, x, d, z, a, b, rest
    <2> QED BY <2>1, <2>2, <2>3
  <1>9. a <= b /\ a \in Int /\ b \in Int
    BY <1>4
  <1> HIDE DEF a, b, rest
  <1> QED BY <1>2, <1>5, <1>6, <1>8, <1>9

\* Every item is one of a prepared candidate.
OfCandidates(p) == \A k \in DOMAIN p.evidence : \E pre, c : p.evidence[k] = EvidenceOf(pre, c)

\* prunePacketMetadata makes items smaller.
LEMMA PruneIsLighter ==
  ASSUME NEW p, IsPacket(p), Sized(p), OfCandidates(p)
  PROVE  Lighter(p, PruneMetadata(p)) /\ PruneMetadata(p).used = p.used
  <1> DEFINE e == [k \in DOMAIN p.evidence |->
                     IF p.evidence[k].role \in AnchorRole THEN p.evidence[k]
                         ELSE [p.evidence[k] EXCEPT !.meta = 0]]
             q == PruneMetadata(p)
  <1>1. q = [p EXCEPT !.evidence = e]
    BY DEF PruneMetadata
  <1>2. ASSUME NEW k \in DOMAIN p.evidence
        PROVE  /\ e[k].tokens = p.evidence[k].tokens /\ e[k].meta \in Nat
                  /\ e[k].meta <= p.evidence[k].meta
    <2> DEFINE x == p.evidence[k]
               y == [x EXCEPT !.meta = 0]
    <2>1. PICK pre, c : x = EvidenceOf(pre, c)
      BY DEF OfCandidates
    <2>2. DOMAIN x = {"handle", "path", "span", "role", "fidelity", "tokens", "meta"}
      BY <2>1 DEF EvidenceOf
    <2>3. e[k] = x \/ e[k] = y
      OBVIOUS
    <2>4. x.meta \in Nat
      BY DEF Sized
    <2> HIDE DEF x, e
    <2>5. y.tokens = x.tokens /\ y.meta = 0
      BY <2>2
    <2> HIDE DEF y
    <2>6. x.meta <= x.meta /\ 0 <= x.meta
      BY <2>4
    <2>7. e[k].tokens = x.tokens /\ e[k].meta \in Nat /\ e[k].meta <= x.meta
      BY <2>3, <2>4, <2>5, <2>6
    <2> QED BY <2>7 DEF x
  <1>3. DOMAIN e = DOMAIN p.evidence
    OBVIOUS
  <1> HIDE DEF e, q
  <1>4. /\ q.evidence = e /\ q.limit = p.limit /\ q.used = p.used /\ q.omitted = p.omitted
           /\ q.skipped = p.skipped
        /\ q.relations = p.relations /\ q.limitations = p.limitations /\ q.next = p.next
    BY <1>1 DEF IsPacket, PacketFields
  <1> QED BY <1>2, <1>3, <1>4 DEF Lighter, q

\* What an item says twice goes, and the packet is measured again.
LEMMA PrunedIsRight ==
  ASSUME NEW p, NEW limit \in Int, NEW omitted, NEW relations,
           IsRight(p, limit, omitted, relations), OfCandidates(p)
  PROVE  IsRight(Settle(PruneMetadata(p)), limit, omitted, relations)
  <1> DEFINE m == PruneMetadata(p)
             q == Settle(m)
  <1>1. Weighs(p) /\ IsPacket(p) /\ Sized(p) /\ p.used \in Int
        /\ p.used = Body(p) + 2 * Digits(p.used) /\ p.used <= limit
    BY DEF IsRight, Weighs
  <1>2. Lighter(p, m) /\ m.used = p.used
    BY <1>1, PruneIsLighter
  <1>3. Sized(m) /\ Body(m) <= Body(p) /\ Body(m) \in Int /\ Body(p) \in Int
    BY <1>1, <1>2, LighterWeighsLess
  <1>4. IsPacket(m)
    BY <1>1, PruneKeeps DEF OfCandidates
  <1> HIDE DEF m
  <1>5. Weighs(m)
    BY <1>1, <1>2, <1>3, <1>4 DEF Weighs
  <1>6. /\ Weighs(q) /\ Restates(m, q) /\ q.used = Body(q) + 2 * Digits(q.used)
        /\ \A u \in Int : m.used <= u /\ Body(m) + 2 * Digits(u) <= u => q.used <= u
    BY <1>5, SettleIsHonest
  <1> HIDE DEF q
  <1>7. q.used <= p.used
    <2>1. Digits(p.used) \in Int
      BY DEF Digits
    <2>2. m.used <= p.used /\ Body(m) + 2 * Digits(p.used) <= p.used
      BY <1>1, <1>2, <1>3, <2>1
    <2> QED BY <1>1, <1>6, <2>2
  <1>8. q.used \in Int
    BY <1>6 DEF Weighs
  <1>9. q.used <= limit
    BY <1>1, <1>7, <1>8
  <1> QED BY <1>2, <1>6, <1>9 DEF IsRight, Lighter, Restates, m, q

\* The first n of a sequence.
LEMMA FirstOfIs ==
  ASSUME NEW S, NEW s \in Seq(S), NEW n \in Nat
  PROVE  /\ FirstOf(s, n) \in Seq(S) /\ ToSet(FirstOf(s, n)) \in SUBSET ToSet(s)
         /\ n > 0 /\ Len(s) > 0 => Len(FirstOf(s, n)) > 0 /\ FirstOf(s, n)[1] = s[1]
         /\ Len(FirstOf(s, n)) <= n
  <1> DEFINE m == Min({n, Len(s)})
             t == SubSeq(s, 1, m)
  <1>1. Len(s) \in Nat /\ DOMAIN s = 1 .. Len(s)
    OBVIOUS
  <1>2. m \in 0 .. Len(s) /\ (n > 0 /\ Len(s) > 0 => m > 0) /\ m <= n
    <2> DEFINE l == Len(s)
    <2>1. n \in Int /\ l \in Int
      BY <1>1
    <2> HIDE DEF l
    <2>2. m = n \/ m = l
      BY <2>1, PairsHaveEnds DEF l
    <2>3. m <= n /\ m <= l
      BY <2>1, PairsHaveEnds DEF l
    <2> HIDE DEF m
    <2> QED BY <1>1, <2>2, <2>3 DEF l
  <1>3. FirstOf(s, n) = t
    BY DEF FirstOf
  <1> HIDE DEF m
  <1>4. t \in Seq(S) /\ Len(t) = m /\ DOMAIN t = 1 .. m /\ \A k \in 1 .. m : t[k] = s[k]
    BY <1>2, FirstPart
  <1> HIDE DEF t
  <1>5. ASSUME NEW x \in ToSet(t) PROVE x \in ToSet(s)
    <2>1. PICK k \in DOMAIN t : x = t[k]
      BY DEF ToSet
    <2>2. k \in DOMAIN s /\ x = s[k]
      BY <1>1, <1>2, <1>4, <2>1
    <2> QED BY <2>2 DEF ToSet
  <1>6. ASSUME n > 0, Len(s) > 0 PROVE Len(t) > 0 /\ t[1] = s[1]
    BY <1>1, <1>2, <1>4, <1>6
  <1>7. Len(t) <= n
    BY <1>2, <1>4
  <1> QED BY <1>3, <1>4, <1>5, <1>6, <1>7

\* budget_limited holds exactly of a packet that leaves something out.
LEMMA LimitedIsLimiting ==
  ASSUME NEW request, NEW pre, NEW s
  PROVE  "budget_limited" \in Limiting(request, pre, s) <=> Omitted(pre, s) > 0
  <1>1. "budget_limited" \in ToSet(LimitationOrder)
    <2>1. 1 \in DOMAIN LimitationOrder /\ LimitationOrder[1] = "budget_limited"
      BY DEF LimitationOrder
    <2> QED BY <2>1 DEF ToSet
  <1> QED BY <1>1 DEF Limiting

\* What may be said of a packet.
Codes == {"budget_limited", "source_reduced_to_excerpt", "source_reduced_to_signature",
    "additional_callers_omitted", "additional_callees_omitted", "additional_tests_omitted",
    "additional_imports_omitted", "additional_references_omitted", "dynamic_dispatch_unresolved",
    "lexical_relation_only", "known_anchor_not_repeated", "no_relevant_source_found",
        "syntax_only_impact"}

\* If budget_limited holds it is said first, whatever is cut.
LEMMA LimitationsAre ==
  ASSUME NEW request, NEW pre, NEW s
  PROVE  LET l == Limitations(request, pre, s)
         IN /\ l \in Seq(Codes)
            /\ Omitted(pre, s) > 0 => Len(l) > 0 /\ l[1] = "budget_limited"
            /\ "budget_limited" \in ToSet(l) => Omitted(pre, s) > 0
            /\ Len(l) <= 8
  <1> DEFINE K == Limiting(request, pre, s)
             o == LimitationOrder
             t == Those(o, K)
             l == Limitations(request, pre, s)
  <1>1. o \in Seq(Codes) /\ Len(o) > 0 /\ o[1] = "budget_limited"
    BY DEF LimitationOrder, Codes
  <1>2. "budget_limited" \in K <=> Omitted(pre, s) > 0
    BY LimitedIsLimiting
  <1>3. l = FirstOf(t, 8)
    BY DEF Limitations
  <1> HIDE DEF K, o, l
  <1>4. /\ t \in Seq(Codes) /\ \A x : x \in ToSet(t) <=> x \in ToSet(o) /\ x \in K
        /\ Len(o) > 0 /\ o[1] \in K => Len(t) > 0 /\ t[1] = o[1]
    BY <1>1, ThoseIs
  <1> HIDE DEF t
  <1>5. /\ l \in Seq(Codes) /\ ToSet(l) \in SUBSET ToSet(t) /\ (Len(t) > 0 => Len(l) > 0 /\ l[1] = t[1])
        /\ Len(l) <= 8
    BY <1>3, <1>4, FirstOfIs
  <1> QED BY <1>1, <1>2, <1>4, <1>5 DEF l

\* There are finitely many actions.
LEMMA ActionsAreFinite ==
  ASSUME NEW request, NEW pre, PreTyped(pre), NEW s \in Selections(pre)
  PROVE  IsFiniteSet(Actions(request, pre, s))
  <1> DEFINE target == GuidanceTarget(request, pre, s)
             At(p) == IF p.c.context # NoContext /\ p.c.context.anchor # 0 THEN p.c.context.anchor
                      ELSE target
             rest == Rest(pre, s)
             family == {p \in ToSet(pre.prepared) : p.c.context.kind \in {"parent", "children"}}
             more == {q \in rest : q.role \in DOMAIN MoreOf}
             reduced == {t \in ToSet(s) : pre.prepared[t.at].variants[t.v].fidelity = "signature"}
             self == [t \in reduced |-> [handle |-> pre.prepared[t.at].c.handle, relation |-> "self"]]
             near == [p \in family |-> [handle |-> IF p \in rest THEN At(p) ELSE p.c.context.anchor,
                     relation |-> p.c.context.kind]]
             other == [p \in more |-> [handle |-> At(p), relation |-> MoreOf[p.role]]]
  <1>1. IsFiniteSet(ToSet(s))
    BY ByPlaceIs
  <1>2. IsFiniteSet(ToSet(pre.prepared))
    <2> DEFINE f == pre.prepared
    <2>1. DOMAIN f = 1 .. Len(f) /\ Len(f) \in Nat
      BY DEF PreTyped
    <2>2. IsFiniteSet(DOMAIN f)
      BY <2>1, FirstNumbers
    <2>3. ToSet(f) = Values(f)
      BY DEF ToSet, Values
    <2> HIDE DEF f
    <2>4. IsFiniteSet(ToSet(f))
      BY <2>2, <2>3, ValuesAreFinite
    <2> QED BY <2>4 DEF f
  <1>3. IsFiniteSet(reduced)
    <2>1. reduced \subseteq ToSet(s)
      OBVIOUS
    <2> HIDE DEF reduced
    <2> QED BY <1>1, <2>1, FS_Subset
  <1>4. IsFiniteSet(family)
    <2>1. family \subseteq ToSet(pre.prepared)
      OBVIOUS
    <2> HIDE DEF family
    <2> QED BY <1>2, <2>1, FS_Subset
  <1>5. IsFiniteSet(more)
    <2>1. more \subseteq ToSet(pre.prepared)
      BY DEF Rest
    <2> HIDE DEF more
    <2> QED BY <1>2, <2>1, FS_Subset
  <1>6. Actions(request, pre, s) = Values(self) \cup Values(near) \cup Values(other)
    <2>1. Actions(request, pre, s) =
            {[handle |-> pre.prepared[t.at].c.handle, relation |-> "self"] : t \in reduced}
            \cup {[handle |-> IF p \in rest THEN At(p) ELSE p.c.context.anchor,
                relation |-> p.c.context.kind] : p \in family}
            \cup {[handle |-> At(p), relation |-> MoreOf[p.role]] : p \in more}
      BY DEF Actions
    <2> HIDE DEF At, rest, target, family, more, reduced
    <2>2. Values(self) = {[handle |-> pre.prepared[t.at].c.handle, relation |-> "self"] : t \in reduced}
      BY DEF Values
    <2>3. Values(near) = {[handle |-> IF p \in rest THEN At(p) ELSE p.c.context.anchor,
          relation |-> p.c.context.kind] : p \in family}
      BY DEF Values
    <2>4. Values(other) = {[handle |-> At(p), relation |-> MoreOf[p.role]] : p \in more}
      BY DEF Values
    <2> QED BY <2>1, <2>2, <2>3, <2>4
  <1>7. DOMAIN self = reduced /\ DOMAIN near = family /\ DOMAIN other = more
    OBVIOUS
  <1> HIDE DEF self, near, other, reduced, family, more, rest
  <1>8. IsFiniteSet(Values(self)) /\ IsFiniteSet(Values(near)) /\ IsFiniteSet(Values(other))
    BY <1>3, <1>4, <1>5, <1>7, ValuesAreFinite
  <1> QED BY <1>6, <1>8, FS_Union

\* They are listed.
LEMMA NextActionsAre ==
  ASSUME NEW request, NEW pre, PreTyped(pre), NEW s \in Selections(pre)
  PROVE  (\E T : NextActions(request, pre, s) \in Seq(T)) /\ Len(NextActions(request, pre, s)) <= 4
  <1> DEFINE A == {a \in Actions(request, pre, s) : a.handle # 0}
             Before(a, b) == LET i == Index(NextOrder, a.relation) j == Index(NextOrder, b.relation)
                             IN i < j \/ (i = j /\ a.handle < b.handle)
             B == {p \in A \X A : Before(p[1], p[2])}
             o == Ordered(A, B)
             n == Cardinality(A)
  <1>1. IsFiniteSet(A)
    <2>1. A \subseteq Actions(request, pre, s)
      OBVIOUS
    <2> HIDE DEF A
    <2> QED BY <2>1, ActionsAreFinite, FS_Subset
  <1>2. NextActions(request, pre, s) = FirstOf(o, 4)
    BY DEF NextActions, Sorted
  <1> HIDE DEF A, B
  <1>3. n \in Nat
    BY <1>1, FS_CardinalityType
  <1>4. o = [k \in 1 .. n |-> o[k]]
    <2> DEFINE At(k) == CHOOSE x \in A : Cardinality({y \in A : <<y, x>> \in B}) = k - 1
               g == [k \in 1 .. n |-> At(k)]
    <2>1. o = g
      BY DEF Ordered
    <2> HIDE DEF At
    <2>2. g = [k \in 1 .. n |-> g[k]]
      OBVIOUS
    <2> HIDE DEF g, o, n
    <2> QED BY <2>1, <2>2
  <1>5. o \in [1 .. n -> Values(o)]
    BY <1>4 DEF Values
  <1> HIDE DEF o, n
  <1>6. o \in Seq(Values(o))
    BY <1>3, <1>5
  <1>7. FirstOf(o, 4) \in Seq(Values(o)) /\ Len(FirstOf(o, 4)) <= 4
    BY <1>6, FirstOfIs
  <1> QED BY <1>2, <1>7

\* BuildGuidance says budget_limited exactly if something is omitted.
LEMMA GuidanceGuides ==
  ASSUME NEW request, NEW pre, PreTyped(pre), NEW s \in Selections(pre)
  PROVE  Guides(Limitations(request, pre, s), NextActions(request, pre, s), Omitted(pre, s))
  BY LimitationsAre, NextActionsAre DEF Guides

\* pruneKnownDeltaGuidance never takes that back.
LEMMA PruneKnownGuides ==
  ASSUME NEW request, NEW p, NEW l, NEW n, NEW omitted, Guides(l, n, omitted)
  PROVE  Guides(PruneKnown(request, p, l, n).limitations, PruneKnown(request, p, l, n).next, omitted)
  <1> DEFINE idle == {"known_anchor_not_repeated"}
                     \cup {c \in {"no_relevant_source_found"} : p.evidence = <<>> /\ p.skipped > 0}
             K == ToSet(l) \ idle
             M == {a \in ToSet(n) : a.handle \notin ToSet(request.known)}
             t == Those(l, K)
             u == Those(n, M)
             r == PruneKnown(request, p, l, n)
  <1>1. \/ r.limitations = l /\ r.next = n
        \/ r.limitations = t /\ r.next = u
    BY DEF PruneKnown
  <1>2. PICK S : l \in Seq(S)
    BY DEF Guides
  <1>3. PICK T : n \in Seq(T)
    BY DEF Guides
  <1>4. "budget_limited" \in ToSet(l) => "budget_limited" \in K
    OBVIOUS
  <1> HIDE DEF r, K, M
  <1>5. /\ t \in Seq(S) /\ \A x : x \in ToSet(t) <=> x \in ToSet(l) /\ x \in K
        /\ Len(l) > 0 /\ l[1] \in K => Len(t) > 0 /\ t[1] = l[1]
        /\ Len(t) <= Len(l)
    BY <1>2, ThoseIs
  <1>6. u \in Seq(T) /\ Len(u) <= Len(n)
    BY <1>3, ThoseIs
  <1> HIDE DEF t, u
  <1>7. Len(l) > 0 => l[1] \in ToSet(l)
    <2>1. Len(l) > 0 => 1 \in DOMAIN l
      BY <1>2
    <2> QED BY <2>1 DEF ToSet
  <1>8. Guides(t, u, omitted)
    BY <1>4, <1>5, <1>6, <1>7 DEF Guides
  <1>9. CASE r.limitations = l /\ r.next = n
    BY <1>9 DEF r
  <1>10. CASE r.limitations = t /\ r.next = u
    BY <1>8, <1>10 DEF r
  <1> QED BY <1>1, <1>9, <1>10

\* What buildPacket makes fits, as large as it says.
LEMMA BuiltIsUnguided ==
  ASSUME NEW pre, PreTyped(pre), NEW s \in Selections(pre), NEW limit, NEW omitted,
         BuildPacket(limit, pre, s, omitted).used <= limit
  PROVE  /\ Unguided(BuildPacket(limit, pre, s, omitted), limit, omitted, Edges(ShownBy(pre, s)))
         /\ BuildPacket(limit, pre, s, omitted).evidence = Items(pre, s)
  <1> DEFINE b == Bare(limit, pre, s, omitted)
             p == Settle(b)
  <1>1. /\ b.limit = limit /\ b.omitted = omitted /\ b.relations = Edges(ShownBy(pre, s))
           /\ b.next = <<>>
        /\ b.limitations = (IF omitted > 0 THEN <<"budget_limited">> ELSE <<>>)
           /\ b.evidence = Items(pre, s)
    BY DEF Bare
  <1>2. Weighs(b)
    <2>1. IsPacket(b) /\ Sized(b) /\ b.used = 0
      BY BareIsPacket, BareIsSized
    <2> HIDE DEF b
    <2> QED BY <2>1 DEF Weighs
  <1> HIDE DEF b
  <1>3. Weighs(p) /\ Restates(b, p) /\ p.used = Body(p) + 2 * Digits(p.used)
    BY <1>2, SettleIsHonest
  <1>4. p = BuildPacket(limit, pre, s, omitted)
    BY BuildPacketIs DEF b
  <1> HIDE DEF p
  <1>5. p.used <= limit
    BY <1>4
  <1>6. Unguided(p, limit, omitted, Edges(ShownBy(pre, s)))
    BY <1>1, <1>3, <1>5 DEF Unguided, Restates
  <1> QED BY <1>1, <1>3, <1>4, <1>6 DEF Restates

\* With its guidance it does too.
LEMMA GuidedIsRight ==
  ASSUME NEW request, NEW pre, PreTyped(pre), NEW s \in Selections(pre), NEW limit \in Int,
         BuildPacket(limit, pre, s, Omitted(pre, s)).used <= limit
  PROVE  IsRight(Guided(request, pre, s, BuildPacket(limit, pre, s, Omitted(pre, s))), limit,
           Omitted(pre, s),
                 Edges(ShownBy(pre, s)))
  <1> DEFINE omitted == Omitted(pre, s)
             relations == Edges(ShownBy(pre, s))
             bare == BuildPacket(limit, pre, s, omitted)
             r == PruneKnown(request, bare, Limitations(request, pre, s), NextActions(request, pre, s))
             g == ApplyGuidance(bare, r.limitations, r.next)
             q == Guided(request, pre, s, bare)
  <1>1. Unguided(bare, limit, omitted, relations) /\ bare.evidence = Items(pre, s)
    BY BuiltIsUnguided
  <1>2. ~ (bare.used > bare.limit)
    <2> HIDE DEF bare
    <2>1. bare.used \in Int /\ bare.limit = limit /\ bare.used <= limit
      BY <1>1 DEF Unguided, Weighs
    <2> QED BY <2>1
  <1>3. q = Settle(PruneMetadata(g))
    <2> HIDE DEF bare
    <2> QED BY <1>2 DEF Guided
  <1>4. Guides(r.limitations, r.next, omitted)
    BY GuidanceGuides, PruneKnownGuides
  <1> HIDE DEF bare, r, omitted, relations
  <1>5. IsRight(g, limit, omitted, relations) /\ g.evidence = bare.evidence
    BY <1>1, <1>4, ApplyGuidanceIsRight
  <1> HIDE DEF g, q
  <1>6. OfCandidates(g)
    BY <1>1, <1>5 DEF OfCandidates, Items
  <1>7. IsRight(Settle(PruneMetadata(g)), limit, omitted, relations)
    BY <1>5, <1>6, PrunedIsRight
  <1>8. IsRight(q, limit, omitted, relations)
    BY <1>3, <1>7
  <1> QED BY <1>8 DEF q, bare, omitted, relations

-----------------------------------------------------------------------------
(* Evidence: what is counted                                               *)

\* H has the handles of all usable candidates of a set.
Covers(H, S) == \A c \in S : Usable(c) => c.handle \in H

\* Of n candidates each is kept or counted as a duplicate, and the duplicates
\* are enough for all usable handles that are not kept.
PutCounted(seen, n, S) ==
  /\ Len(seen.kept) + seen.duplicates = n
  /\ \E X : /\ IsFiniteSet(X) /\ Cardinality(X) <= seen.duplicates
            /\ \A H : Covers(H, ToSet(seen.kept)) => Covers(H \cup X, S)

\* A set with one element more.
LEMMA OneMore ==
  ASSUME NEW X, IsFiniteSet(X), NEW e
  PROVE  /\ IsFiniteSet(X \cup {e}) /\ Cardinality(X) \in Nat /\ Cardinality(X \cup {e}) \in Nat
         /\ Cardinality(X \cup {e}) <= Cardinality(X) + 1
  BY FS_AddElement, FS_CardinalityType

\* Who gives way to another is counted.
LEMMA PutCounts ==
  ASSUME NEW C, NEW seen \in Collected(C), NEW c \in C, NEW n \in Nat, NEW S, PutCounted(seen, n, S)
  PROVE  PutCounted(Put(seen, c), n + 1, S \cup {c})
  <1> DEFINE same == {i \in DOMAIN seen.kept : seen.kept[i].handle = c.handle /\ c.handle # 0}
             m == Len(seen.kept)
             i0 == Min(same)
             new == Put(seen, c)
  <1>1. /\ seen.kept \in Seq(C) /\ seen = [kept |-> seen.kept, duplicates |-> seen.duplicates]
        /\ seen.duplicates \in Nat
    BY DEF Collected
  <1>2. DOMAIN seen.kept = 1 .. m /\ m \in Nat
    BY <1>1
  <1>3. PICK X : /\ IsFiniteSet(X) /\ Cardinality(X) <= seen.duplicates
                 /\ \A H : Covers(H, ToSet(seen.kept)) => Covers(H \cup X, S)
    BY DEF PutCounted
  <1>4. CASE same = {}
    <2>1. new.kept = Append(seen.kept, c) /\ new.duplicates = seen.duplicates
      BY <1>1, <1>4 DEF Put
    <2> HIDE DEF new
    <2>2. Len(new.kept) = m + 1 /\ DOMAIN new.kept = 1 .. m + 1 /\ new.kept[m + 1] = c
          /\ \A i \in 1 .. m : new.kept[i] = seen.kept[i]
      <3> DEFINE t == seen.kept
      <3>1. t \in Seq(C) /\ new.kept = Append(t, c) /\ Len(t) = m
        BY <1>1, <2>1
      <3> HIDE DEF t, m
      <3>2. Len(new.kept) = m + 1 /\ DOMAIN new.kept = 1 .. m + 1 /\ new.kept[m + 1] = c
            /\ \A i \in 1 .. m : new.kept[i] = t[i]
        BY <3>1
      <3> QED BY <3>2 DEF t
    <2>3. c \in ToSet(new.kept) /\ ToSet(seen.kept) \subseteq ToSet(new.kept)
      <3> DEFINE q == new.kept
      <3> HIDE DEF q, m
      <3>1. DOMAIN q = 1 .. m + 1 /\ q[m + 1] = c /\ \A i \in 1 .. m : q[i] = seen.kept[i]
        BY <2>2 DEF q
      <3>2. m + 1 \in 1 .. m + 1 /\ \A i \in 1 .. m : i \in 1 .. m + 1
        BY <1>2
      <3> QED BY <1>2, <3>1, <3>2 DEF ToSet, q
    <2>4. ASSUME NEW H, Covers(H, ToSet(new.kept)) PROVE Covers(H \cup X, S \cup {c})
      <3>1. Covers(H, ToSet(seen.kept)) /\ (Usable(c) => c.handle \in H)
        BY <2>3, <2>4 DEF Covers
      <3>2. Covers(H \cup X, S)
        BY <1>3, <3>1
      <3> QED BY <3>1, <3>2 DEF Covers
    <2>5. Len(new.kept) + new.duplicates = n + 1
      BY <1>1, <1>2, <2>1, <2>2 DEF PutCounted
    <2> QED BY <1>3, <2>1, <2>4, <2>5 DEF PutCounted, new
  <1>5. CASE same # {}
    <2>1. i0 \in same
      <3>1. same \in SUBSET (1 .. m)
        BY <1>2
      <3>2. IsFiniteSet(same) /\ same \in SUBSET Int
        <4> HIDE DEF same
        <4> QED BY <1>2, <3>1, FirstNumbers
      <3> HIDE DEF same
      <3> QED BY <1>5, <3>2, MinOfSet
    <2>2. new.kept = [seen.kept EXCEPT ![i0] = c] \/ new.kept = seen.kept
      BY <1>5 DEF Put
    <2>3. new.duplicates = seen.duplicates + 1
      BY <1>5 DEF Put
    <2>4. i0 \in 1 .. m /\ seen.kept[i0].handle = c.handle
      BY <1>2, <2>1
    <2> HIDE DEF i0, new
    <2>5. /\ DOMAIN new.kept = 1 .. m /\ Len(new.kept) = m
          /\ \A i \in 1 .. m : new.kept[i] = seen.kept[i] \/ seen.kept[i].handle = c.handle
      <3> DEFINE t == seen.kept
                 q == new.kept
      <3>1. t \in Seq(C) /\ Len(t) = m /\ DOMAIN t = 1 .. m /\ (q = [t EXCEPT ![i0] = c] \/ q = t)
        BY <1>1, <1>2, <2>2
      <3> HIDE DEF t, q, m
      <3>2. DOMAIN q = 1 .. m /\ q \in Seq(C)
        BY <1>2, <3>1
      <3>3. Len(q) = m
        BY <1>2, <3>2
      <3>4. \A i \in 1 .. m : q[i] = t[i] \/ i = i0
        BY <3>1
      <3>5. \A i \in 1 .. m : q[i] = t[i] \/ t[i].handle = c.handle
        BY <2>4, <3>4 DEF t
      <3> QED BY <3>2, <3>3, <3>5 DEF t, q
    <2> DEFINE Y == X \cup {c.handle}
    <2>6. IsFiniteSet(Y) /\ Cardinality(Y) <= new.duplicates
      <3> DEFINE a == Cardinality(X)
                 b == Cardinality(Y)
                 d == seen.duplicates
      <3>1. IsFiniteSet(Y) /\ a \in Nat /\ b \in Nat /\ b <= a + 1
        BY <1>3, OneMore
      <3>2. a <= d /\ d \in Nat /\ new.duplicates = d + 1
        BY <1>1, <1>3, <2>3
      <3> HIDE DEF a, b, d
      <3>3. b <= d + 1
        BY <3>1, <3>2
      <3> QED BY <3>1, <3>2, <3>3 DEF b
    <2>7. ASSUME NEW H, Covers(H, ToSet(new.kept)) PROVE Covers(H \cup Y, S \cup {c})
      <3>1. Covers(H \cup {c.handle}, ToSet(seen.kept))
        BY <1>2, <2>5, <2>7 DEF Covers, ToSet
      <3>2. Covers((H \cup {c.handle}) \cup X, S)
        BY <1>3, <3>1
      <3> QED BY <3>2 DEF Covers
    <2>8. Len(new.kept) + new.duplicates = n + 1
      BY <1>1, <1>2, <2>3, <2>5 DEF PutCounted
    <2> HIDE DEF Y
    <2> QED BY <2>6, <2>7, <2>8 DEF PutCounted, new
  <1> QED BY <1>4, <1>5

\* So each candidate is kept or counted.
LEMMA ByHandleCounts ==
  ASSUME NEW C, NEW cands \in Seq(C)
  PROVE  PutCounted(ByHandle(cands), Len(cands), ToSet(cands))
  <1> DEFINE n == Len(cands)
             First(k) == {cands[l] : l \in 1 .. k}
  <1>1. PICK f \in [0 .. n -> Collected(C)] :
           /\ f[0] = [kept |-> <<>>, duplicates |-> 0] /\ ByHandle(cands) = f[n]
           /\ \A k \in 1 .. n : f[k - 1] \in Collected(C) /\ f[k] = Put(f[k - 1], cands[k])
    BY PutSteps
  <1>2. n \in Nat /\ \A k \in 1 .. n : cands[k] \in C
    OBVIOUS
  <1> DEFINE T == {k \in 0 .. n : PutCounted(f[k], k, First(k))}
  <1>3. 0 \in T
    <2>1. f[0].kept = <<>> /\ f[0].duplicates = 0 /\ First(0) = {}
      BY <1>1
    <2>2. IsFiniteSet({}) /\ Cardinality({}) = 0
      BY FS_EmptySet
    <2>3. \A H : Covers(H, {})
      BY DEF Covers
    <2> HIDE DEF First
    <2>4. PutCounted(f[0], 0, First(0))
      <3>1. Len(f[0].kept) + f[0].duplicates = 0
        BY <2>1
      <3>2. \A H : Covers(H, ToSet(f[0].kept)) => Covers(H \cup {}, First(0))
        BY <2>1, <2>3
      <3>3. Cardinality({}) <= f[0].duplicates
        BY <2>1, <2>2
      <3> QED BY <2>2, <3>1, <3>2, <3>3 DEF PutCounted
    <2> QED BY <1>2, <2>4
  <1>4. ASSUME NEW k \in 1 .. n, k - 1 \in T PROVE k \in T
    <2>1. f[k - 1] \in Collected(C) /\ f[k] = Put(f[k - 1], cands[k])
          /\ PutCounted(f[k - 1], k - 1, First(k - 1))
      BY <1>1, <1>4
    <2>2. k \in 0 .. n /\ k - 1 \in Nat /\ k - 1 + 1 = k
      OBVIOUS
    <2>3. First(k) = First(k - 1) \cup {cands[k]}
      <3>1. \A l \in 1 .. k : l \in 1 .. k - 1 \/ l = k
        OBVIOUS
      <3>2. k \in 1 .. k /\ \A l \in 1 .. k - 1 : l \in 1 .. k
        OBVIOUS
      <3> QED BY <3>1, <3>2
    <2> HIDE DEF First, n
    <2>4. PutCounted(f[k], k - 1 + 1, First(k - 1) \cup {cands[k]})
      BY <1>2, <2>1, <2>2, PutCounts
    <2> QED BY <2>2, <2>3, <2>4
  <1>5. n \in T
    <2> HIDE DEF T, n
    <2> QED BY <1>2, <1>3, <1>4, UpTo
  <1>6. First(n) = ToSet(cands)
    BY DEF ToSet
  <1> HIDE DEF First
  <1> QED BY <1>1, <1>5, <1>6

\* A candidate more is counted once, or is not usable and not counted.
Counted(request, cands, seen, i, next) ==
  \/ /\ ~ Usable(cands[i]) /\ next.prepared = seen.prepared
     /\ next.duplicates = seen.duplicates /\ next.skipped = seen.skipped
  \/ /\ next.prepared = seen.prepared
     /\ next.duplicates + next.skipped = seen.duplicates + seen.skipped + 1
  \/ /\ next.prepared = Append(seen.prepared, Entry(request, cands, i))
     /\ next.duplicates = seen.duplicates /\ next.skipped = seen.skipped

\* A candidate is prepared, or counted, or of no use.
LEMMA PrepareCounts ==
  ASSUME NEW request, NEW C, \A c \in C : c.lines \in Nat,
         NEW cands \in Seq(C), NEW seen \in Seen(request, cands, C), NEW i \in DOMAIN cands
  PROVE  Counted(request, cands, seen, i, Prepare(request, cands, seen, i))
  <1> DEFINE c == cands[i]
             e == Entry(request, cands, i)
             known == c.handle \in ToSet(request.known)
             next == Prepare(request, cands, seen, i)
  <1>1. /\ seen = Found(seen.prepared, seen.duplicates, seen.skipped, seen.hashes, seen.spans)
        /\ seen.duplicates \in Nat /\ seen.skipped \in Nat
    BY DEF Seen, Found
  <1>2. c \in C /\ c.lines \in Nat
    OBVIOUS
  <1>3. Usable(c) => e.variants # <<>>
    BY <1>2, VariantsAreForms DEF Usable, Entry
  <1>4. ASSUME NEW p, NEW d, NEW k, NEW h, NEW x
        PROVE  Found(p, d, k, h, x).prepared = p /\ Found(p, d, k, h, x).duplicates = d
                 /\ Found(p, d, k, h, x).skipped = k
    BY DEF Found
  <1> DEFINE h == HashesWith(seen.hashes, c)
             x == SpansWith(seen.spans, c)
             M == Found(seen.prepared, seen.duplicates, seen.skipped, h, x)
  <1>5. \A k : Mark(seen, c, k) = M
    <2> SUFFICES ASSUME NEW k PROVE Mark(seen, c, k) = M
      OBVIOUS
    <2> HIDE DEF c
    <2>1. Mark(seen, c, k) = M
      BY ONLY <1>1, MarkIs
    <2> QED BY <2>1
  <1> DEFINE variants == e.variants
  <1>6. \/ next = seen /\ ~ Usable(c)
        \/ next = Doubling(seen)
        \/ next = Skipping(Mark(seen, c, TRUE))
        \/ next = Mark(seen, c, FALSE) /\ variants = <<>>
        \/ next = Taking(Mark(seen, c, FALSE), e)
    BY DEF Prepare, Usable, Entry, Skipping, Doubling, Taking
  <1> HIDE DEF next, e, variants, h, x
  <1>7. CASE next = seen /\ ~ Usable(c)
    BY <1>7 DEF Counted, next
  <1>8. CASE next = Doubling(seen)
    <2>1. next = Found(seen.prepared, seen.duplicates + 1, seen.skipped, seen.hashes, seen.spans)
      BY <1>1, <1>8, CountsAre
    <2>2. next.prepared = seen.prepared /\ next.duplicates = seen.duplicates + 1
          /\ next.skipped = seen.skipped
      BY <1>4, <2>1
    <2>3. next.duplicates + next.skipped = seen.duplicates + seen.skipped + 1
      BY <1>1, <2>2
    <2> QED BY <2>2, <2>3 DEF Counted, next
  <1>9. CASE next = Skipping(Mark(seen, c, TRUE))
    <2>1. next = Skipping(M)
      BY <1>5, <1>9
    <2>2. next = Found(seen.prepared, seen.duplicates, seen.skipped + 1, h, x)
      BY <2>1, CountsAre
    <2>3. next.prepared = seen.prepared /\ next.duplicates = seen.duplicates
          /\ next.skipped = seen.skipped + 1
      BY <1>4, <2>2
    <2>4. next.duplicates + next.skipped = seen.duplicates + seen.skipped + 1
      BY <1>1, <2>3
    <2> QED BY <2>3, <2>4 DEF Counted, next
  <1>10. CASE next = Mark(seen, c, FALSE) /\ variants = <<>>
    <2>1. next = M
      BY <1>5, <1>10
    <2>2. next.prepared = seen.prepared /\ next.duplicates = seen.duplicates
          /\ next.skipped = seen.skipped
      BY <1>4, <2>1
    <2>3. ~ Usable(c)
      BY <1>3, <1>10 DEF variants
    <2> QED BY <2>2, <2>3 DEF Counted, next
  <1>11. CASE next = Taking(Mark(seen, c, FALSE), e)
    <2>1. next = Taking(M, e)
      BY <1>5, <1>11
    <2>2. next = Found(Append(seen.prepared, e), seen.duplicates, seen.skipped, h, x)
      BY <2>1, TakingIs
    <2> DEFINE more == Append(seen.prepared, e)
    <2> HIDE DEF more
    <2>3. next = Found(more, seen.duplicates, seen.skipped, h, x)
      BY <2>2 DEF more
    <2>4. next.prepared = more /\ next.duplicates = seen.duplicates /\ next.skipped = seen.skipped
      BY <1>4, <2>3
    <2> QED BY <2>4 DEF Counted, next, e, more
  <1> QED BY <1>6, <1>7, <1>8, <1>9, <1>10, <1>11

\* What preprocess has counted: all it has taken, and of these the prepared.
Total(seen) == Len(seen.prepared) + seen.duplicates + seen.skipped

\* Of what was kept the first k are prepared or counted, and the count is
\* enough for all usable handles of S.
AllCounted(seen, first, k, S) ==
  /\ Total(seen) <= first + k
  /\ \E Y : /\ IsFiniteSet(Y) /\ first + Cardinality(Y) <= Total(seen) /\ Covers(Y, S)
            /\ \A a \in DOMAIN seen.prepared : seen.prepared[a].c.handle \in Y

\* One candidate more keeps the account.
LEMMA PrepareAccounts ==
  ASSUME NEW request, NEW C, \A c \in C : c.lines \in Nat,
         NEW cands \in Seq(C), NEW seen \in Seen(request, cands, C), NEW i \in DOMAIN cands,
         NEW first \in Nat, NEW k \in Nat, NEW S, AllCounted(seen, first, k, S)
  PROVE  AllCounted(Prepare(request, cands, seen, i), first, k + 1, S \cup {cands[i]})
  <1> DEFINE c == cands[i]
             next == Prepare(request, cands, seen, i)
             e == Entry(request, cands, i)
             E == Entries(request, cands)
             t == seen.prepared
             m == Len(t)
  <1>1. Counted(request, cands, seen, i, next) /\ Follows(request, cands, C, seen, i, next)
    BY PrepareCounts, PrepareOne
  <1>2. /\ t \in Seq(E) /\ e \in E /\ e.c = c
        /\ seen.duplicates \in Nat /\ seen.skipped \in Nat
    BY DEF Seen, Entries, Entry
  <1>3. next.duplicates \in Nat /\ next.skipped \in Nat
    BY <1>1 DEF Follows, Seen
  <1>4. PICK Y : /\ IsFiniteSet(Y) /\ first + Cardinality(Y) <= Total(seen) /\ Covers(Y, S)
                 /\ \A a \in DOMAIN t : t[a].c.handle \in Y
    BY DEF AllCounted
  <1>5. Total(seen) <= first + k
    BY DEF AllCounted
  <1> HIDE DEF next, E, e
  <1>6. DOMAIN t = 1 .. m /\ m \in Nat /\ Total(seen) = m + seen.duplicates + seen.skipped
    BY <1>2 DEF Total
  <1>7. CASE /\ ~ Usable(c) /\ next.prepared = t
             /\ next.duplicates = seen.duplicates /\ next.skipped = seen.skipped
    <2>1. Total(next) = Total(seen) /\ Covers(Y, S \cup {c})
      BY <1>4, <1>7 DEF Total, Covers
    <2>2. Total(next) <= first + (k + 1)
      BY <1>2, <1>5, <1>6, <2>1
    <2> QED BY <1>4, <1>7, <2>1, <2>2 DEF AllCounted, next
  <1> DEFINE Z == Y \cup {c.handle}
  <1>8. IsFiniteSet(Z) /\ Cardinality(Z) \in Nat /\ Cardinality(Y) \in Nat
        /\ Cardinality(Z) <= Cardinality(Y) + 1 /\ Covers(Z, S \cup {c})
    <2>1. Covers(Z, S \cup {c})
      BY <1>4 DEF Covers
    <2> QED BY <1>4, <2>1, OneMore
  <1>9. ASSUME Total(next) = Total(seen) + 1,
        \A a \in DOMAIN next.prepared : next.prepared[a].c.handle \in Z
        PROVE  AllCounted(next, first, k + 1, S \cup {c})
    <2> DEFINE old == Total(seen)
               new == Total(next)
               a == Cardinality(Y)
               b == Cardinality(Z)
    <2>1. old \in Nat /\ old <= first + k /\ first + a <= old /\ new = old + 1 /\ a \in Nat
          /\ b \in Nat /\ b <= a + 1
      <3>1. old \in Nat
        BY <1>2, <1>6
      <3>2. old <= first + k /\ first + a <= old /\ new = old + 1
        BY <1>4, <1>5, <1>9
      <3>3. a \in Nat /\ b \in Nat /\ b <= a + 1
        BY <1>8
      <3> HIDE DEF old, new, a, b
      <3> QED BY <3>1, <3>2, <3>3
    <2> HIDE DEF old, new, a, b
    <2>2. new <= first + (k + 1) /\ first + b <= new
      BY <2>1
    <2> HIDE DEF Z
    <2> QED BY <1>8, <1>9, <2>2 DEF AllCounted, new, b
  <1>10. CASE next.prepared = t /\ next.duplicates + next.skipped = seen.duplicates + seen.skipped + 1
    <2> DEFINE d == seen.duplicates
               k0 == seen.skipped
               d1 == next.duplicates
               k1 == next.skipped
    <2>1. /\ d \in Nat /\ k0 \in Nat /\ d1 \in Nat /\ k1 \in Nat /\ m \in Nat /\ d1 + k1 = d + k0 + 1
          /\ Total(seen) = m + d + k0 /\ Total(next) = m + d1 + k1
      BY <1>2, <1>3, <1>6, <1>10 DEF Total
    <2>2. Total(next) = Total(seen) + 1
      <3> HIDE DEF d, k0, d1, k1, m
      <3> QED BY <2>1
    <2> QED BY <1>4, <1>9, <1>10, <2>2 DEF next
  <1>11. CASE /\ next.prepared = Append(t, e)
              /\ next.duplicates = seen.duplicates /\ next.skipped = seen.skipped
    <2> DEFINE q == next.prepared
    <2> HIDE DEF q, t, m
    <2>1. DOMAIN q = 1 .. m + 1 /\ q[m + 1] = e /\ (\A a \in 1 .. m : q[a] = t[a]) /\ Len(q) = m + 1
      BY <1>2, <1>11 DEF q, m
    <2>2. Total(next) = Total(seen) + 1
      <3> DEFINE d == seen.duplicates
                 k0 == seen.skipped
      <3>1. /\ d \in Nat /\ k0 \in Nat /\ m \in Nat
            /\ Total(seen) = m + d + k0 /\ Total(next) = m + 1 + d + k0
        BY <1>2, <1>6, <1>11, <2>1 DEF Total, q
      <3> HIDE DEF d, k0
      <3> QED BY <3>1
    <2>3. \A a \in 1 .. m + 1 : a \in 1 .. m \/ a = m + 1
      BY <1>6
    <2>4. \A a \in DOMAIN q : q[a].c.handle \in Z
      BY <1>2, <1>4, <1>6, <2>1, <2>3
    <2> QED BY <1>9, <2>2, <2>4 DEF q, next
  <1> QED BY <1>1, <1>7, <1>10, <1>11 DEF Counted, e, next

\* All that is usable, and all that is prepared, is counted.
LEMMA PreprocessCounts ==
  ASSUME NEW request, request.cands \in Seq(Offers)
  PROVE  LET pre == Preprocess(request) IN
         /\ Total(pre) \in Nat /\ Total(pre) <= Len(request.cands)
         /\ \E Z : /\ IsFiniteSet(Z) /\ Cardinality(Z) <= Total(pre) /\ Covers(Z, ToSet(request.cands))
                   /\ \A a \in DOMAIN pre.prepared : pre.prepared[a].c.handle \in Z
  <1> DEFINE pre == Preprocess(request)
             found == ByHandle(request.cands)
             cands == found.kept
             first == found.duplicates
             order == Presentation(request.intent, cands)
             n == Len(order)
             N == Len(request.cands)
             A == Seen(request, cands, Offers)
             Firsts(k) == {cands[order[l]] : l \in 1 .. k}
  <1>1. found \in Collected(Offers) /\ PutCounted(found, N, ToSet(request.cands))
    BY ByHandleIs, ByHandleCounts
  <1>2. cands \in Seq(Offers) /\ first \in Nat /\ Len(cands) \in Nat /\ DOMAIN cands = 1 .. Len(cands)
    BY <1>1 DEF Collected
  <1> HIDE DEF found
  <1>3. /\ order \in Seq(DOMAIN cands) /\ n = Len(cands)
        /\ \A i \in DOMAIN cands : \E k \in DOMAIN order : order[k] = i
    BY <1>2, PresentationIs
  <1>4. PICK f : /\ f \in [0 .. n -> A] /\ f[0] = Found(<<>>, first, 0, {}, {}) /\ pre = f[n]
                 /\ \A k \in 1 .. n : f[k - 1] \in A
                    /\ f[k] = Prepare(request, cands, f[k - 1], order[k])
    <2> HIDE DEF pre, cands, first, order, A
    <2>1. cands = ByHandle(request.cands).kept /\ order = Presentation(request.intent, cands)
          /\ first = ByHandle(request.cands).duplicates /\ pre = Preprocess(request)
          /\ A = Seen(request, cands, Offers)
      BY DEF cands, order, first, pre, A, found
    <2> QED BY <2>1, PrepareSteps
  <1>5. /\ n \in Nat /\ DOMAIN order = 1 .. n
        /\ \A k \in 1 .. n : order[k] \in DOMAIN cands
    <2>1. order \in Seq(DOMAIN cands)
      BY <1>3
    <2> HIDE DEF cands, order
    <2> QED BY ONLY <2>1
  <1> HIDE DEF pre, cands, first, order, A, n
  <1> DEFINE T == {k \in 0 .. n : AllCounted(f[k], first, k, Firsts(k))}
  <1>6. 0 \in T
    <2>1. f[0].prepared = <<>> /\ f[0].duplicates = first /\ f[0].skipped = 0 /\ Firsts(0) = {}
      BY <1>4 DEF Found
    <2>2. Total(f[0]) = first
      BY <1>2, <2>1 DEF Total
    <2>3. IsFiniteSet({}) /\ Cardinality({}) = 0 /\ Covers({}, {})
      BY FS_EmptySet DEF Covers
    <2> HIDE DEF Firsts
    <2>4. AllCounted(f[0], first, 0, Firsts(0))
      <3>1. Total(f[0]) <= first + 0 /\ first + Cardinality({}) <= Total(f[0])
        BY <1>2, <2>2, <2>3
      <3>2. \A a \in DOMAIN f[0].prepared : f[0].prepared[a].c.handle \in {}
        BY <2>1
      <3> QED BY <2>1, <2>3, <3>1, <3>2 DEF AllCounted
    <2> QED BY <1>5, <2>4
  <1>7. ASSUME NEW k \in 1 .. n, k - 1 \in T PROVE k \in T
    <2>1. /\ f[k - 1] \in Seen(request, cands, Offers)
             /\ f[k] = Prepare(request, cands, f[k - 1], order[k])
          /\ AllCounted(f[k - 1], first, k - 1, Firsts(k - 1))
      BY <1>4, <1>7 DEF A
    <2>2. k \in 0 .. n /\ k - 1 \in Nat /\ k - 1 + 1 = k
      BY <1>5
    <2>3. Firsts(k) = Firsts(k - 1) \cup {cands[order[k]]}
      <3>1. \A l \in 1 .. k : l \in 1 .. k - 1 \/ l = k
        OBVIOUS
      <3>2. k \in 1 .. k /\ \A l \in 1 .. k - 1 : l \in 1 .. k
        OBVIOUS
      <3> QED BY <3>1, <3>2
    <2>4. \A c \in Offers : c.lines \in Nat
      BY OffersAssumption
    <2> HIDE DEF Firsts
    <2> DEFINE seen == f[k - 1]
               i == order[k]
               S == Firsts(k - 1)
               l == k - 1
    <2>5. seen \in Seen(request, cands, Offers) /\ i \in DOMAIN cands
          /\ AllCounted(seen, first, l, S) /\ l \in Nat
      BY <1>5, <2>1, <2>2
    <2> HIDE DEF seen, i, S, l
    <2>6. AllCounted(Prepare(request, cands, seen, i), first, l + 1, S \cup {cands[i]})
      BY <1>2, <2>4, <2>5, PrepareAccounts
    <2> QED BY <2>1, <2>2, <2>3, <2>6 DEF seen, i, S, l
  <1>8. n \in T
    <2> HIDE DEF T
    <2> QED BY <1>5, <1>6, <1>7, UpTo
  <1>9. Firsts(n) = ToSet(cands)
    <2>1. \A i \in DOMAIN cands : \E k \in 1 .. n : order[k] = i
      BY <1>3, <1>5
    <2> QED BY <1>5, <2>1 DEF ToSet
  <1> HIDE DEF Firsts
  <1>10. AllCounted(pre, first, n, ToSet(cands))
    BY <1>4, <1>8, <1>9
  <1>11. pre \in A
    <2>1. n \in 0 .. n
      BY <1>5
    <2> QED BY <1>4, <2>1
  <1>12. Total(pre) \in Nat
    <2>1. pre.prepared \in Seq(Entries(request, cands)) /\ pre.duplicates \in Nat /\ pre.skipped \in Nat
      BY <1>11 DEF A, Seen
    <2>2. Len(pre.prepared) \in Nat
      BY <2>1
    <2> QED BY <2>1, <2>2 DEF Total
  <1>13. Len(cands) + first = N
    BY <1>1 DEF PutCounted, cands, first
  <1>14. Total(pre) <= N
    <2>1. Total(pre) <= first + n
      BY <1>10 DEF AllCounted
    <2>2. N \in Nat
      OBVIOUS
    <2> HIDE DEF N
    <2> QED BY <1>2, <1>3, <1>12, <1>13, <2>1, <2>2
  <1>15. PICK Y : /\ IsFiniteSet(Y) /\ first + Cardinality(Y) <= Total(pre) /\ Covers(Y, ToSet(cands))
                  /\ \A a \in DOMAIN pre.prepared : pre.prepared[a].c.handle \in Y
    BY <1>10 DEF AllCounted
  <1>16. PICK X : /\ IsFiniteSet(X) /\ Cardinality(X) <= first
                  /\ \A H : Covers(H, ToSet(cands)) => Covers(H \cup X, ToSet(request.cands))
    BY <1>1 DEF PutCounted, cands, first
  <1> DEFINE Z == Y \cup X
  <1>17. IsFiniteSet(Z) /\ Cardinality(Z) <= Total(pre)
    <2>1. /\ IsFiniteSet(Z) /\ Cardinality(Z) = Cardinality(Y) + Cardinality(X) - Cardinality(Y \cap X)
          /\ Cardinality(Y) \in Nat /\ Cardinality(X) \in Nat /\ Cardinality(Y \cap X) \in Nat
             /\ Cardinality(Z) \in Nat
      <3>1. IsFiniteSet(Y \cap X) /\ IsFiniteSet(Z)
        BY <1>15, <1>16, FS_Intersection, FS_Union
      <3> QED BY <1>15, <1>16, <3>1, FS_Union, FS_CardinalityType
    <2> DEFINE y == Cardinality(Y)
               x == Cardinality(X)
               b == Cardinality(Y \cap X)
               z == Cardinality(Z)
               t == Total(pre)
    <2>2. /\ z = y + x - b /\ y \in Nat /\ x \in Nat /\ b \in Nat /\ t \in Nat /\ first \in Nat
          /\ first + y <= t /\ x <= first
      BY <1>2, <1>12, <1>15, <1>16, <2>1
    <2> HIDE DEF y, x, b, z, t
    <2>3. z <= t
      BY <2>2
    <2> QED BY <2>1, <2>3 DEF z, t
  <1>18. /\ Covers(Z, ToSet(request.cands))
         /\ \A a \in DOMAIN pre.prepared : pre.prepared[a].c.handle \in Z
    BY <1>15, <1>16
  <1> HIDE DEF Z
  <1>19. \E W : /\ IsFiniteSet(W) /\ Cardinality(W) <= Total(pre) /\ Covers(W, ToSet(request.cands))
                /\ \A a \in DOMAIN pre.prepared : pre.prepared[a].c.handle \in W
    BY <1>17, <1>18
  <1> QED BY <1>12, <1>14, <1>19 DEF pre

\* What repeats a selection shows each of its candidates, and no other.
LEMMA SelectionIsShown ==
  ASSUME NEW pre, PreTyped(pre), Apart(pre.prepared), NEW s \in Selections(pre), NEW limit, NEW omitted,
         NEW q, Repeats(Bare(limit, pre, s, omitted), q)
  PROVE  /\ HandlesShown(q) = {pre.prepared[s[a].at].c.handle : a \in DOMAIN s}
         /\ IsFiniteSet(HandlesShown(q)) /\ Cardinality(HandlesShown(q)) = Len(s)
  <1> DEFINE bare == Bare(limit, pre, s, omitted)
             P == pre.prepared
             order == ByPlace(s)
             H == {P[s[a].at].c.handle : a \in DOMAIN s}
  <1>1. /\ order \in Seq(ToSet(s)) /\ \A c \in ToSet(s) : \E k \in DOMAIN order : order[k] = c
    BY ByPlaceIs
  <1>2. /\ s \in Seq(ChoicesOf(pre)) /\ DOMAIN s = 1 .. Len(s) /\ Len(s) \in Nat
        /\ \A a \in DOMAIN s : s[a].at \in DOMAIN P
        /\ \A a, b \in DOMAIN s : a # b => s[a].at # s[b].at
    BY DEF Selections, ChoicesOf
  <1>3. /\ DOMAIN bare.evidence = DOMAIN order
        /\ \A k \in DOMAIN order : bare.evidence[k].handle = P[order[k].at].c.handle
    BY DEF Bare, Items, EvidenceOf
  <1> HIDE DEF order, bare
  <1>4. /\ DOMAIN q.evidence = DOMAIN order
        /\ \A k \in DOMAIN order : q.evidence[k].handle = P[order[k].at].c.handle
    BY <1>3 DEF Repeats, bare
  <1>5. \A k \in DOMAIN order : \E a \in DOMAIN s : order[k] = s[a]
    BY <1>1 DEF ToSet
  <1>6. \A a \in DOMAIN s : \E k \in DOMAIN order : order[k] = s[a]
    BY <1>1 DEF ToSet
  <1>7. HandlesShown(q) = H
    BY <1>4, <1>5, <1>6 DEF HandlesShown
  <1> DEFINE n == Len(s)
             f == [a \in 1 .. n |-> P[s[a].at].c.handle]
  <1>8. f \in Bijection(1 .. n, H)
    <2>1. \A a, b \in 1 .. n : a # b => f[a] # f[b]
      BY <1>2 DEF Apart
    <2>2. f \in [1 .. n -> H] /\ \A h \in H : \E a \in 1 .. n : f[a] = h
      BY <1>2
    <2> HIDE DEF f, H, n
    <2> QED BY <2>1, <2>2, Fun_IsBij
  <1>9. IsFiniteSet(H) /\ Cardinality(H) = n
    <2> HIDE DEF f, H, n
    <2>1. n \in Nat
      BY <1>2 DEF n
    <2>2. IsFiniteSet(1 .. n) /\ Cardinality(1 .. n) = n
      BY <2>1, FirstNumbers
    <2>3. ExistsBijection(1 .. n, H)
      BY <1>8 DEF ExistsBijection
    <2> QED BY <2>2, <2>3, FS_Bijection
  <1> QED BY <1>7, <1>9

\* What a packet says it leaves out is no less than what could be shown and is not.
LEMMA OmissionsAreCounted ==
  ASSUME NEW request, request.cands \in Seq(Offers), NEW s \in Selections(Preprocess(request)),
         NEW limit, NEW omitted, NEW q, Repeats(Bare(limit, Preprocess(request), s, omitted), q)
  PROVE  LET pre == Preprocess(request)
             usable == {c.handle : c \in {d \in ToSet(request.cands) : Usable(d)}}
         IN /\ Omitted(pre, s) \in Nat /\ Omitted(pre, s) = Total(pre) - Len(s)
               /\ Omitted(pre, s) <= Len(request.cands)
            /\ Omitted(pre, s) >= Cardinality(usable \ HandlesShown(q))
  <1> DEFINE pre == Preprocess(request)
             usable == {c.handle : c \in {d \in ToSet(request.cands) : Usable(d)}}
             H == HandlesShown(q)
  <1>1. PreTyped(pre) /\ Apart(pre.prepared)
    BY PreIsTyped, PreparedIs
  <1>2. Total(pre) \in Nat /\ Total(pre) <= Len(request.cands)
    BY PreprocessCounts
  <1>3. PICK Z : /\ IsFiniteSet(Z) /\ Cardinality(Z) <= Total(pre) /\ Covers(Z, ToSet(request.cands))
                 /\ \A a \in DOMAIN pre.prepared : pre.prepared[a].c.handle \in Z
    BY PreprocessCounts
  <1> HIDE DEF pre
  <1>4. s \in Selections(pre) /\ Repeats(Bare(limit, pre, s, omitted), q)
    BY DEF pre
  <1>5. H = {pre.prepared[s[a].at].c.handle : a \in DOMAIN s} /\ IsFiniteSet(H)
        /\ Cardinality(H) = Len(s)
    BY <1>1, <1>4, SelectionIsShown
  <1>6. H \subseteq Z
    <2>1. \A a \in DOMAIN s : s[a].at \in DOMAIN pre.prepared
      <3>1. s \in Seq(ChoicesOf(pre))
        BY <1>4 DEF Selections
      <3>2. \A a \in DOMAIN s : s[a] \in ChoicesOf(pre)
        BY ONLY <3>1
      <3> QED BY <3>2 DEF ChoicesOf
    <2> QED BY <1>3, <1>5, <2>1
  <1>7. usable \subseteq Z
    BY <1>3 DEF Covers
  <1> HIDE DEF usable, H
  <1>8. IsFiniteSet(Z \ H) /\ Cardinality(Z \ H) = Cardinality(Z) - Cardinality(H)
    <2>1. Z \cap H = H
      BY <1>6
    <2> QED BY <1>3, <2>1, FS_Difference
  <1>9. Cardinality(usable \ H) <= Cardinality(Z \ H) /\ Cardinality(usable \ H) \in Nat
    <2>1. usable \ H \in SUBSET (Z \ H)
      BY <1>7
    <2>2. IsFiniteSet(usable \ H) /\ Cardinality(usable \ H) <= Cardinality(Z \ H)
      BY <1>8, <2>1, FS_Subset
    <2> QED BY <2>2, FS_CardinalityType
  <1>10. Cardinality(Z) \in Nat /\ Cardinality(H) \in Nat /\ Cardinality(Z \ H) \in Nat
    BY <1>3, <1>5, <1>8, FS_CardinalityType
  <1>11. Omitted(pre, s) = Total(pre) - Len(s)
    <2>1. Len(pre.prepared) \in Nat /\ pre.duplicates \in Nat /\ pre.skipped \in Nat
      BY <1>1 DEF PreTyped
    <2>2. Len(s) \in Nat
      BY <1>5, <1>10
    <2> QED BY <2>1, <2>2 DEF Omitted, Total
  <1>12. /\ Omitted(pre, s) \in Nat /\ Omitted(pre, s) <= Len(request.cands)
            /\ Omitted(pre, s) >= Cardinality(usable \ H)
    <2> DEFINE z == Cardinality(Z)
               h == Cardinality(H)
               u == Cardinality(usable \ H)
               t == Total(pre)
               o == Omitted(pre, s)
               n == Len(request.cands)
    <2>1. z \in Nat /\ h \in Nat /\ u \in Nat /\ t \in Nat /\ n \in Nat
      BY <1>2, <1>9, <1>10
    <2>2. Cardinality(Z \ H) = z - h /\ u <= Cardinality(Z \ H) /\ z <= t /\ t <= n
      BY <1>2, <1>3, <1>8, <1>9
    <2>3. o = t - h
      BY <1>5, <1>11
    <2> HIDE DEF z, h, u, t, o, n
    <2>4. u <= z - h
      BY <2>2
    <2>5. o \in Nat /\ o <= n /\ o >= u
      BY <2>1, <2>2, <2>3, <2>4
    <2> QED BY <2>5 DEF o, n, u
  <1> QED BY <1>11, <1>12 DEF pre, usable, H

\* Every edge joins two candidates that are shown.
LEMMA EdgesJoinShown ==
  ASSUME NEW pre, NEW s \in Selections(pre)
  PROVE  \A e \in Edges(ShownBy(pre, s)) :
           {e.from, e.to} \subseteq {pre.prepared[s[a].at].c.handle : a \in DOMAIN s} /\ e.from # e.to
  <1> DEFINE shown == ShownBy(pre, s)
             H == {p.c.handle : p \in shown}
  <1>1. H = {pre.prepared[s[a].at].c.handle : a \in DOMAIN s}
    BY DEF ShownBy, ToSet
  <1> HIDE DEF shown
  <1>2. ASSUME NEW e \in Edges(shown) PROVE {e.from, e.to} \subseteq H /\ e.from # e.to
    <2>1. PICK c \in {p.c : p \in shown} :
            /\ c.context.anchor \in H \ {c.handle}
            /\ e = [from |-> IF c.context.direction = "incoming" THEN c.handle ELSE c.context.anchor,
                    to |-> IF c.context.direction = "incoming" THEN c.context.anchor ELSE c.handle,
                    kind |-> EdgeKind(c.context.kind), certainty |-> Certainty(c.context)]
      BY <1>2 DEF Edges
    <2>2. \/ e.from = c.handle /\ e.to = c.context.anchor
          \/ e.from = c.context.anchor /\ e.to = c.handle
      BY <2>1
    <2>3. c.handle \in H
      BY <2>1
    <2> QED BY <2>1, <2>2, <2>3
  <1> QED BY <1>1, <1>2 DEF shown

-----------------------------------------------------------------------------
(* Evidence: honest answers                                                *)

\* A budget is clamped to no less than the smallest.
LEMMA ClampedBudget ==
  ASSUME NEW b \in Int
  PROVE  ClampBudget(b) \in Int /\ MinBudget <= ClampBudget(b)
  <1> DEFINE m == Min({MaxBudget, b})
  <1>1. MinBudget \in Int /\ MaxBudget \in Int
    BY BudgetAssumption
  <1>2. m \in Int
    BY <1>1, PairsHaveEnds
  <1>3. ClampBudget(b) = Max({MinBudget, m})
    BY DEF ClampBudget
  <1> HIDE DEF m
  <1>4. /\ Max({MinBudget, m}) = MinBudget \/ Max({MinBudget, m}) = m
        /\ MinBudget <= Max({MinBudget, m})
    BY <1>1, <1>2, PairsHaveEnds
  <1> QED BY <1>1, <1>2, <1>3, <1>4

\* The size of a packet that shows nothing.
LEMMA EmptyBody ==
  ASSUME NEW pre, PreTyped(pre), NEW limit, NEW omitted \in Nat, omitted <= MaxOffers
  PROVE  /\ Body(Bare(limit, pre, <<>>, omitted)) \in Int
         /\ Body(Bare(limit, pre, <<>>, omitted)) <= 4 + 2 * Digits(MaxOffers)
  <1> DEFINE p == Bare(limit, pre, <<>>, omitted)
             w == [i \in DOMAIN p.evidence |-> ItemSize(p.evidence[i])]
  <1>1. <<>> \in Selections(pre)
    BY DEF Selections
  <1>2. DOMAIN p.evidence = {}
    <2>1. ByPlace(<<>>) \in Seq(ToSet(<<>>))
      BY <1>1, ByPlaceIs
    <2>2. ToSet(<<>>) = {}
      BY DEF ToSet
    <2>3. DOMAIN ByPlace(<<>>) = {}
      <3> DEFINE o == ByPlace(<<>>)
      <3> HIDE DEF o
      <3>1. o \in Seq({})
        BY <2>1, <2>2 DEF o
      <3>2. ASSUME NEW k \in DOMAIN o PROVE FALSE
        <4>1. o[k] \in {}
          BY <3>1
        <4> QED BY <4>1
      <3> QED BY <3>2 DEF o
    <2> QED BY <2>3 DEF Bare, Items
  <1>3. SumFunction(w) = 0
    <2>1. 1 .. 0 = {}
      OBVIOUS
    <2>2. w \in [1 .. 0 -> Int]
      BY <1>2, <2>1
    <2> HIDE DEF w
    <2>3. 0 \in Nat
      OBVIOUS
    <2>4. PICK g : g[{}] = 0 /\ SumFunction(w) = g[1 .. 0]
      BY <2>2, <2>3, SumRecursion
    <2> QED BY <2>1, <2>4
  <1>4. p.relations = {} /\ Cardinality({}) = 0
    <2>1. ShownBy(pre, <<>>) = {}
      BY DEF ShownBy, ToSet
    <2>2. Edges({}) = {}
      BY DEF Edges
    <2> QED BY <2>1, <2>2, FS_EmptySet DEF Bare
  <1>5. /\ p.limitations = (IF omitted > 0 THEN <<"budget_limited">> ELSE <<>>) /\ p.next = <<>>
        /\ p.omitted = omitted /\ p.skipped = pre.skipped
    BY DEF Bare
  <1>6. Len(p.limitations) \in {0, 1} /\ Len(p.next) = 0
    <2>1. Len(<<"budget_limited">>) = 1 /\ Len(<<>>) = 0
      OBVIOUS
    <2> QED BY <1>5, <2>1
  <1>7. Body(p) = 2 + SumFunction(w) + Cardinality(p.relations) + Len(p.limitations) + Len(p.next)
                    + 2 * Digits(p.omitted) + (IF p.skipped > 0 THEN 1 ELSE 0)
    BY DEF Body
  <1>8. Digits(omitted) <= Digits(MaxOffers) /\ Digits(omitted) \in Int /\ Digits(MaxOffers) \in Int
    BY BudgetAssumption DEF Digits
  <1> DEFINE l == Len(p.limitations)
             k == IF p.skipped > 0 THEN 1 ELSE 0
             d == Digits(omitted)
             e == Digits(MaxOffers)
  <1>9. Body(p) = 2 + l + 2 * d + k /\ l \in {0, 1} /\ k \in {0, 1} /\ d <= e /\ d \in Int /\ e \in Int
    <2>1. l \in {0, 1} /\ k \in {0, 1} /\ d <= e /\ d \in Int /\ e \in Int
      BY <1>6, <1>8
    <2>2. Body(p) = 2 + 0 + 0 + l + 0 + 2 * d + k
      BY <1>3, <1>4, <1>5, <1>6, <1>7
    <2> HIDE DEF p, l, k, d, e
    <2> QED BY <2>1, <2>2
  <1> HIDE DEF p, l, k, d, e
  <1>10. Body(p) \in Int /\ Body(p) <= 4 + 2 * e
    BY <1>9
  <1> QED BY <1>10 DEF p, e

\* A packet that shows nothing has room.
LEMMA EmptyHasRoom ==
  ASSUME NEW pre, PreTyped(pre), NEW limit \in Int, MinBudget <= limit, NEW omitted \in Nat,
           omitted <= MaxOffers
  PROVE  BuildPacket(limit, pre, <<>>, omitted).used <= limit
  <1> DEFINE p == Bare(limit, pre, <<>>, omitted)
             m == MinBudget
  <1>1. <<>> \in Selections(pre)
    BY DEF Selections
  <1>2. Body(p) \in Int /\ Body(p) <= 4 + 2 * Digits(MaxOffers)
    BY EmptyBody
  <1>3. m \in Int /\ 4 + 2 * Digits(MaxOffers) + 2 * Digits(m) <= m
    BY BudgetAssumption
  <1>4. Digits(m) \in {1, 2} /\ Digits(MaxOffers) \in {1, 2}
    BY DEF Digits
  <1> HIDE DEF m
  <1>5. IsPacket(p) /\ Sized(p) /\ p.used = 0
    BY <1>1, BareIsPacket, BareIsSized
  <1>6. BuildPacket(limit, pre, <<>>, omitted) = Settle(p)
    BY BuildPacketIs
  <1> HIDE DEF p
  <1>7. Weighs(p)
    BY <1>5 DEF Weighs
  <1>8. p.used <= m /\ Body(p) + 2 * Digits(m) <= m
    <2> DEFINE a == Digits(m)
               b == Digits(MaxOffers)
               c == Body(p)
    <2>1. a \in {1, 2} /\ b \in {1, 2} /\ c \in Int /\ c <= 4 + 2 * b /\ m \in Int
          /\ 4 + 2 * b + 2 * a <= m
      BY <1>2, <1>3, <1>4
    <2> HIDE DEF a, b, c
    <2>2. 0 <= m /\ c + 2 * a <= m
      BY <2>1
    <2> QED BY <1>5, <2>2 DEF a, c
  <1>9. Settle(p).used <= m /\ Settle(p).used \in Int
    BY <1>3, <1>7, <1>8, SettleIsHonest DEF Weighs
  <1> DEFINE u == Settle(p).used
  <1>10. u <= m /\ u \in Int /\ m \in Int /\ m <= limit
    BY <1>3, <1>9 DEF m
  <1> HIDE DEF u
  <1>11. u <= limit
    BY <1>10
  <1> QED BY <1>6, <1>11 DEF u

\* A packet is of its selection, measured, and within its budget.
LEMMA CompileIsRight ==
  ASSUME NEW request, request.cands \in Seq(Offers), Len(request.cands) <= MaxOffers,
           request.budget \in Int,
         NEW p, p = Compile(request)
  PROVE  LET pre == Preprocess(request)
             limit == ClampBudget(request.budget)
             s == Select(request, pre, limit)
         IN /\ s \in Selections(pre)
            /\ IsRight(p, limit, Omitted(pre, s), Edges(ShownBy(pre, s)))
            /\ Repeats(Bare(limit, pre, s, Omitted(pre, s)), p)
  <1> DEFINE pre == Preprocess(request)
             limit == ClampBudget(request.budget)
             s == Select(request, pre, limit)
             bare == BuildPacket(limit, pre, s, Omitted(pre, s))
  <1>1. PreTyped(pre)
    BY PreIsTyped
  <1>2. limit \in Int /\ MinBudget <= limit
    BY ClampedBudget
  <1>3. p = Guided(request, pre, s, bare)
    BY DEF Compile
  <1> HIDE DEF limit
  <1>4. s \in Selections(pre) /\ (s = <<>> \/ bare.used <= limit)
    <2> HIDE DEF pre
    <2>1. Chosen(request, pre, limit, s)
      BY <1>1, SelectIs
    <2> HIDE DEF s
    <2> QED BY <2>1 DEF Chosen
  <1>5. bare.used <= limit
    <2>1. CASE s = <<>>
      <3> DEFINE o == Omitted(pre, s)
      <3>1. Total(pre) \in Nat /\ Total(pre) <= Len(request.cands)
        BY PreprocessCounts
      <3>2. o \in Nat /\ o <= MaxOffers
        <4>1. o = Total(pre)
          <5>1. Len(pre.prepared) \in Nat /\ pre.duplicates \in Nat /\ pre.skipped \in Nat
            BY <1>1 DEF PreTyped
          <5> HIDE DEF pre, s
          <5>2. Len(s) = 0
            BY <2>1
          <5> QED BY <5>1, <5>2 DEF Omitted, Total
        <4>2. MaxOffers \in Nat /\ Len(request.cands) \in Nat
          BY BudgetAssumption
        <4> DEFINE t == Total(pre)
                   n == Len(request.cands)
        <4>3. t \in Nat /\ t <= n /\ n \in Nat /\ n <= MaxOffers /\ MaxOffers \in Nat /\ o = t
          BY <3>1, <4>1, <4>2
        <4> HIDE DEF t, n, o
        <4> QED BY <4>3
      <3>3. bare = BuildPacket(limit, pre, <<>>, o)
        BY <2>1
      <3> HIDE DEF o, bare, pre, s
      <3> QED BY <1>1, <1>2, <3>2, <3>3, EmptyHasRoom
    <2>2. CASE s # <<>>
      BY <1>4, <2>2
    <2> QED BY <2>1, <2>2
  <1> HIDE DEF pre, s
  <1> DEFINE o == Omitted(pre, s)
  <1>6. IsRight(p, limit, o, Edges(ShownBy(pre, s)))
    BY <1>1, <1>2, <1>3, <1>4, <1>5, GuidedIsRight
  <1>7. Repeats(Bare(limit, pre, s, o), p)
    <2>1. ShowsAll(p, limit, Bare(limit, pre, s, o))
      BY <1>1, <1>3, <1>4, GuidedShows
    <2>2. p # [schema |-> "error"]
      <3>1. "used" \in DOMAIN p
        BY <1>6 DEF IsRight, Weighs, IsPacket, PacketFields
      <3> QED BY <3>1
    <2> QED BY <2>1, <2>2 DEF ShowsAll
  <1> QED BY <1>4, <1>6, <1>7 DEF pre, limit, s

\* So it tells the truth of itself (compiler.go 141-163, wire.go 25).
LEMMA CompileIsHonest ==
  ASSUME NEW request, request.cands \in Seq(Offers), Len(request.cands) <= MaxOffers,
           request.budget \in Int,
         NEW p, p = Compile(request)
  PROVE  Honest(p, request)
  <1> DEFINE pre == Preprocess(request)
             limit == ClampBudget(request.budget)
             s == Select(request, pre, limit)
             o == Omitted(pre, s)
             relations == Edges(ShownBy(pre, s))
             bare == Bare(limit, pre, s, o)
             usable == {c.handle : c \in {d \in ToSet(request.cands) : Usable(d)}}
  <1>1. s \in Selections(pre) /\ IsRight(p, limit, o, relations) /\ Repeats(bare, p)
    BY CompileIsRight
  <1>2. o >= Cardinality(usable \ HandlesShown(p))
    <2> HIDE DEF limit, s
    <2> QED BY <1>1, OmissionsAreCounted
  <1> HIDE DEF pre, limit, s, o, relations, bare
  <1>3. p.schema = "v1" /\ p.used = Measure(p) /\ p.limit = limit /\ p.used <= limit /\ p.omitted = o
    BY <1>1 DEF IsRight, Weighs, IsPacket, Measure
  <1>4. p.omitted > 0 <=> "budget_limited" \in ToSet(p.limitations)
    BY <1>1 DEF IsRight
  <1> QED BY <1>2, <1>3, <1>4 DEF Honest, usable

\* And shows its target, with edges that join what it shows (compiler.go
\* 88-107, 345).
LEMMA CompileIsAnchored ==
  ASSUME NEW request, request.cands \in Seq(Offers), Len(request.cands) <= MaxOffers,
           request.budget \in Int,
         NEW p, p = Compile(request)
  PROVE  Anchored(p, Preprocess(request))
  <1> DEFINE pre == Preprocess(request)
             limit == ClampBudget(request.budget)
             s == Select(request, pre, limit)
             o == Omitted(pre, s)
             relations == Edges(ShownBy(pre, s))
             bare == Bare(limit, pre, s, o)
             at == Min(Anchors(pre))
             H == {pre.prepared[s[a].at].c.handle : a \in DOMAIN s}
             anchor == Anchor(request, pre, limit)
  <1>1. s \in Selections(pre) /\ IsRight(p, limit, o, relations) /\ Repeats(bare, p)
    BY CompileIsRight
  <1>2. PreTyped(pre) /\ Apart(pre.prepared)
    BY PreIsTyped, PreparedIs
  <1> HIDE DEF pre, limit
  <1>3. Chosen(request, pre, limit, s)
    BY <1>2, SelectIs
  <1> HIDE DEF s
  <1>4. HandlesShown(p) = H
    BY <1>1, <1>2, SelectionIsShown
  <1>5. p.limit = limit /\ p.relations = relations
    BY <1>1 DEF IsRight
  <1>6. \A e \in p.relations : {e.from, e.to} \subseteq HandlesShown(p) /\ e.from # e.to
    BY <1>1, <1>4, <1>5, EdgesJoinShown
  <1>7. ASSUME Anchors(pre) # {}, NEW v \in DOMAIN pre.prepared[at].variants,
               BuildPacket(limit, pre, <<Choice(at, v, 0)>>, Omitted(pre, <<Choice(at, v,
                   0)>>)).used <= limit
        PROVE  pre.prepared[at].c.handle \in H
    <2>1. at \in DOMAIN pre.prepared
      <3>1. Anchors(pre) \in SUBSET DOMAIN pre.prepared
        BY DEF Anchors
      <3>2. at \in Anchors(pre)
        BY <1>2, <1>7, <3>1, LeastPlace DEF PreTyped
      <3> QED BY <3>1, <3>2
    <2> HIDE DEF at
    <2>2. ASSUME NEW u \in Int
          PROVE  BuildPacket(limit, pre, <<Choice(at, v, u)>>, Omitted(pre, <<Choice(at, v,
                   u)>>)).used <= limit
      <3> DEFINE one == <<Choice(at, v, u)>>
                 zero == <<Choice(at, v, 0)>>
      <3>1. Omitted(pre, one) = Omitted(pre, zero)
        <4>1. Len(one) = 1 /\ Len(zero) = 1
          OBVIOUS
        <4> HIDE DEF one, zero
        <4> QED BY <4>1 DEF Omitted
      <3>2. \A w : BuildPacket(limit, pre, one, w) = BuildPacket(limit, pre, zero, w)
        BY <1>2, <2>1, UtilityIsNotShown
      <3> HIDE DEF one, zero
      <3>3. BuildPacket(limit, pre, zero, Omitted(pre, zero)).used <= limit
        BY <1>7 DEF zero, at
      <3>4. BuildPacket(limit, pre, one, Omitted(pre, one)).used <= limit
        BY <3>1, <3>2, <3>3
      <3> QED BY <3>4 DEF one
    <2>3. Alone(pre, limit, at, anchor)
      <3>1. \/ /\ anchor = <<>>
               /\ Anchors(pre) = {}
                  \/ \A w \in DOMAIN pre.prepared[at].variants : \E u \in Int :
                       LET one == <<Choice(at, w, u)>>
                       IN ~ (BuildPacket(limit, pre, one, Omitted(pre, one)).used <= limit)
            \/ Alone(pre, limit, at, anchor)
        BY <1>2, AnchorIs DEF at
      <3> QED BY <1>7, <2>2, <3>1 DEF at
    <2> HIDE DEF anchor
    <2>4. PICK w \in DOMAIN pre.prepared[at].variants, u \in Int : anchor = <<Choice(at, w, u)>>
      BY <2>3 DEF Alone
    <2>5. anchor # <<>> /\ anchor[1].at = at
      BY <2>4 DEF Choice
    <2>6. s # <<>> /\ s[1] = anchor[1]
      BY <1>3, <2>5 DEF Chosen, anchor
    <2>7. 1 \in DOMAIN s
      <3>1. DOMAIN s = 1 .. Len(s) /\ Len(s) \in Nat /\ \E S : s \in Seq(S)
        BY <1>1 DEF Selections
      <3> QED BY <2>6, <3>1
    <2> QED BY <2>5, <2>6, <2>7 DEF at
  <1> HIDE DEF at, H
  <1> QED BY <1>4, <1>5, <1>6, <1>7 DEF Anchored, HasRoom, Anchors, at, pre

\* The request is one the client may make, and its answer is right.
AnswerInvariant ==
  /\ SessionInvariant
  /\ req # NoCall => Len(req.cands) <= MaxOffers /\ req.budget \in Int
  /\ PacketIsHonest /\ AnchorIsShown

\* An answer is right, and what is shown now is all that was read when it is
\* the first.
LEMMA AskAnswersRight ==
  ASSUME AnswerInvariant, Ask
  PROVE  AnswerInvariant'
  <1>1. SessionInvariant'
    BY AskKeeps DEF AnswerInvariant
  <1>2. SessionGoesOn
    BY DEF AnswerInvariant, SessionInvariant, SessionBegins, Ask
  <1>3. PICK i, m, b, k : \E c \in Seq(Offers) : req = Question(i, m, b, c, k)
    BY <1>2 DEF SessionGoesOn
  <1>4. PICK c \in Seq(Offers) : req = Question(i, m, b, c, k)
    BY <1>3
  <1>5. /\ req # NoCall /\ req.budget = b /\ req.cands = c /\ req.known = k
        /\ \A x : [req EXCEPT !.known = x] = Question(i, m, b, c, x)
    BY <1>4, QuestionIs
  <1>6. Len(c) <= MaxOffers /\ b \in Int /\ k = Handles(read)
    BY <1>2, <1>5 DEF AnswerInvariant, SessionGoesOn
  <1>7. PICK S : read \in Seq(S)
    BY <1>2 DEF SessionGoesOn
  <1> DEFINE shown == IF packet'.schema = "error" THEN <<>> ELSE packet'.evidence
  <1>8. PICK p : p = Compile(req)
    OBVIOUS
  <1>9. Honest(p, req) /\ Anchored(p, Preprocess(req))
    BY <1>5, <1>6, <1>8, CompileIsHonest, CompileIsAnchored
  <1>10. packet' = p /\ shown = p.evidence /\ read' = read \o p.evidence
    <2>1. packet' = p /\ read' = read \o shown
      BY <1>8 DEF Ask
    <2>2. p.schema # "error"
      BY <1>9 DEF Honest
    <2> QED BY <2>1, <2>2
  <1>11. PICK new : new = k \o Handles(p.evidence)
    OBVIOUS
  <1>12. req' = Question(i, m, b, c, new)
    <2>1. req' = [req EXCEPT !.known = new]
      BY <1>5, <1>10, <1>11 DEF Ask, Handles
    <2> QED BY <1>5, <2>1
  <1>13. /\ req' # NoCall /\ req'.budget = b /\ req'.cands = c
         /\ [req' EXCEPT !.known = <<>>] = Question(i, m, b, c, <<>>)
    <2>1. PICK r : r = req'
      OBVIOUS
    <2>2. /\ r # NoCall /\ r.budget = b /\ r.cands = c
          /\ [r EXCEPT !.known = <<>>] = Question(i, m, b, c, <<>>)
      BY <1>12, <2>1, QuestionIs
    <2> QED BY <2>1, <2>2
  <1>14. PacketIsHonest'
    <2>1. req'.cands = req.cands
      BY <1>5, <1>13
    <2>2. Honest(packet', req')
      BY <1>9, <1>10, <2>1 DEF Honest
    <2> QED BY <2>2 DEF PacketIsHonest
  <1>15. AnchorIsShown'
    <2>1. ASSUME read' = packet'.evidence PROVE [req' EXCEPT !.known = <<>>] = req
      <3>1. read = <<>>
        <4>1. \E T : p.evidence \in Seq(T)
          <5>1. IsPacket(p)
            BY <1>5, <1>6, <1>8, CompileIsRight DEF IsRight, Weighs
          <5> QED BY <5>1 DEF IsPacket
        <4>2. PICK T : p.evidence \in Seq(T)
          BY <4>1
        <4> DEFINE e == p.evidence
                   a == Len(read)
                   d == Len(e)
        <4>3. e \in Seq(T) /\ read \o e = e
          BY <1>10, <2>1, <4>2
        <4> HIDE DEF e
        <4>4. a \in Nat /\ d \in Nat /\ Len(read \o e) = a + d
          BY <1>7, <4>3
        <4>5. Len(read \o e) = d
          BY <4>3
        <4> HIDE DEF a, d
        <4>6. a = 0
          BY <4>4, <4>5
        <4> QED BY <1>7, <4>6 DEF a
      <3>2. k = <<>>
        BY <1>6, <3>1 DEF Handles
      <3>3. [req' EXCEPT !.known = <<>>] = req
        BY <1>4, <1>13, <3>2
      <3> QED BY <3>3
    <2>2. PICK pre : pre = Preprocess(req)
      OBVIOUS
    <2>3. Anchored(p, pre)
      BY <1>9, <2>2
    <2>4. ASSUME read' = packet'.evidence PROVE Anchored(packet',
          Preprocess([req' EXCEPT !.known = <<>>]))
      BY <1>10, <2>1, <2>2, <2>3, <2>4
    <2> QED BY <2>4 DEF AnchorIsShown
  <1> QED BY <1>1, <1>6, <1>13, <1>14, <1>15 DEF AnswerInvariant

\* Every step keeps it.
LEMMA AnswerInvariantKeeps ==
  ASSUME AnswerInvariant, [NextCall]_session
  PROVE  AnswerInvariant'
  <1>1. SessionInvariant'
    BY SessionInvariantKeeps DEF AnswerInvariant
  <1>2. CASE UNCHANGED session
    BY <1>1, <1>2 DEF session, AnswerInvariant, PacketIsHonest, AnchorIsShown, PacketGiven
  <1>3. ASSUME NEW i \in Intents, NEW m \in Modes, NEW b \in Budgets, Call(i, m, b)
        PROVE AnswerInvariant'
    <2>1. req = NoCall /\ packet' = NoPacket
      <3>1. SessionBegins
        <4>1. ASSUME SessionGoesOn PROVE FALSE
          BY <1>3, <4>1, QuestionIs DEF SessionGoesOn, Call
        <4> QED BY <4>1 DEF AnswerInvariant, SessionInvariant
      <3> QED BY <1>3, <3>1 DEF SessionBegins, Call
    <2>2. req' = Question(i, m, b, <<>>, <<>>)
      BY <1>3 DEF Call, Question
    <2>3. req'.cands = <<>> /\ req'.budget = b
      BY <2>2, QuestionIs
    <2>4. Len(req'.cands) <= MaxOffers /\ req'.budget \in Int
      BY <2>3, BudgetAssumption
    <2> QED BY <1>1, <2>1, <2>4 DEF AnswerInvariant, PacketIsHonest, AnchorIsShown,
       PacketGiven
  <1>4. ASSUME NEW o \in Offers, Find(o) PROVE AnswerInvariant'
    <2>1. SessionGoesOn /\ req # NoCall /\ packet' = NoPacket /\ Len(req.cands) < MaxOffers
      BY <1>4 DEF AnswerInvariant, SessionInvariant, SessionBegins, Find
    <2>2. PICK i, m, b, k : \E c \in Seq(Offers) : req = Question(i, m, b, c, k)
      BY <2>1 DEF SessionGoesOn
    <2>3. PICK c \in Seq(Offers) : req = Question(i, m, b, c, k)
      BY <2>2
    <2>4. /\ req.cands = c /\ req.budget = b
             /\ \A x : [req EXCEPT !.cands = x] = Question(i, m, b, x, k)
      BY <2>3, QuestionIs
    <2>5. PICK d : d = Append(c, o)
      OBVIOUS
    <2>6. req' = Question(i, m, b, d, k)
      BY <1>4, <2>4, <2>5 DEF Find
    <2>7. req'.cands = d /\ req'.budget = b
      BY <2>6, QuestionIs
    <2>8. Len(d) <= MaxOffers
      <3>1. Len(c) \in Nat /\ Len(d) = Len(c) + 1 /\ MaxOffers \in Nat /\ Len(c) < MaxOffers
        BY <2>1, <2>4, <2>5, BudgetAssumption
      <3> QED BY <3>1
    <2>9. b \in Int
      BY <2>1, <2>4 DEF AnswerInvariant
    <2> QED BY <1>1, <2>1, <2>7, <2>8, <2>9 DEF AnswerInvariant, PacketIsHonest,
       AnchorIsShown, PacketGiven
  <1>5. CASE Ask
    BY <1>5, AskAnswersRight
  <1> QED BY <1>2, <1>3, <1>4, <1>5 DEF NextCall

\* Whatever was found and asked, the packet tells the truth of itself and shows its target.
THEOREM PacketsAreHonestAndAnchored == CallSpec => []PacketIsHonestAndAnchored
  <1>1. NoRequest => AnswerInvariant
    BY DEF NoRequest, AnswerInvariant, SessionInvariant, SessionBegins, PacketIsHonest,
       AnchorIsShown, PacketGiven
  <1>2. AnswerInvariant /\ [NextCall]_session => AnswerInvariant'
    BY AnswerInvariantKeeps
  <1>3. AnswerInvariant => PacketIsHonestAndAnchored
    BY DEF AnswerInvariant, PacketIsHonestAndAnchored
  <1> QED BY <1>1, <1>2, <1>3, PTL DEF CallSpec

-----------------------------------------------------------------------------
(* Evidence: the table of paths                                            *)

\* The table with the path of one more item.
WithPath(paths, item) == IF item.path \in ToSet(paths) THEN paths ELSE Append(paths, item.path)

\* The paths of the items of a packet.
PathsOf(evidence) == {evidence[k].path : k \in DOMAIN evidence}

\* The table goes through the items.
LEMMA PathSteps ==
  ASSUME NEW S, NEW items \in Seq(S)
  PROVE  \E f \in [0 .. Len(items) -> Seq(PathsOf(items))] :
           /\ f[0] = <<>> /\ PathTable(items) = f[Len(items)]
           /\ \A k \in 1 .. Len(items) : f[k - 1] \in Seq(PathsOf(items))
              /\ f[k] = WithPath(f[k - 1], items[k])
  <1> DEFINE n == Len(items)
             A == Seq(PathsOf(items))
             base == <<>>
             h == [p \in A \X (1 .. n) |-> WithPath(p[1], items[p[2]])]
             Step(g, s) == IF s = {} THEN base ELSE WithPath(g[s \ {Max(s)}], items[Max(s)])
             Of(g) == g = [s \in SUBSET (DOMAIN items) |-> Step(g, s)]
             iter == CHOOSE g : Of(g)
  <1>1. n \in Nat /\ DOMAIN items = 1 .. n /\ base \in A
    OBVIOUS
  <1>2. h \in [A \X (1 .. n) -> A] /\ \A a \in A, k \in 1 .. n : h[<<a, k>>] = WithPath(a, items[k])
    <2>1. ASSUME NEW a \in A, NEW k \in 1 .. n PROVE WithPath(a, items[k]) \in A
      <3> DEFINE x == items[k].path
                 P == PathsOf(items)
      <3>1. x \in P /\ a \in Seq(P)
        BY <1>1 DEF PathsOf
      <3> HIDE DEF x, P
      <3>2. Append(a, x) \in Seq(P)
        BY <3>1
      <3> QED BY <3>1, <3>2 DEF WithPath, x, P
    <2> HIDE DEF A, n
    <2> QED BY <2>1
  <1>3. PathTable(items) = iter[DOMAIN items]
    BY DEF PathTable, FoldLeft, MapThenFoldSet, WithPath
  <1> HIDE DEF n, A, base, h
  <1>4. PICK g : Sequential(g, n, A, base, h)
    BY <1>1, <1>2, SequenceRecursion
  <1>5. Of(iter)
    <2>1. \A s \in SUBSET (1 .. n) : g[s] = Step(g, s)
      BY <1>2, <1>4 DEF Sequential
    <2>2. Of(g)
      <3> HIDE DEF Step
      <3> QED BY <1>1, <1>4, <2>1 DEF Sequential
    <2> HIDE DEF Of
    <2> QED BY <2>2
  <1> HIDE DEF iter
  <1>6. iter[{}] = base /\ \A s \in SUBSET (1 .. n) : s # {}
        => iter[s] = WithPath(iter[s \ {Max(s)}], items[Max(s)])
    <2>1. \A s \in SUBSET (1 .. n) : iter[s] = Step(iter, s)
      <3> HIDE DEF Step
      <3> QED BY <1>1, <1>5
    <2> QED BY <2>1
  <1>7. Iterates(iter, n, A, h)
    BY <1>1, <1>2, <1>4, <1>6 DEF Sequential, Iterates
  <1>8. PICK f : Steps(f, n, A, iter[{}], h, iter[1 .. n])
    BY <1>1, <1>2, <1>7, StepByStep
  <1>9. f \in [0 .. n -> A] /\ f[0] = base /\ PathTable(items) = f[n]
    BY <1>1, <1>3, <1>6, <1>8 DEF Steps
  <1>10. \A k \in 1 .. n : f[k - 1] \in A /\ f[k] = WithPath(f[k - 1], items[k])
    BY <1>2, <1>8 DEF Steps
  <1> HIDE DEF Of, Step
  <1> QED BY <1>9, <1>10 DEF n, A, base

\* A table of the paths of the first k items.
Tabulates(paths, items, k) ==
  /\ \A i, j \in DOMAIN paths : i # j => paths[i] # paths[j]
  /\ \A i \in 1 .. k : \E j \in DOMAIN paths : paths[j] = items[i].path
  /\ Len(paths) <= k

\* Each path is in it once.
LEMMA WithPathTabulates ==
  ASSUME NEW S, NEW paths \in Seq(S), NEW items, NEW k \in Nat \ {0}, items[k].path \in S,
         Tabulates(paths, items, k - 1)
  PROVE  Tabulates(WithPath(paths, items[k]), items, k)
  <1> DEFINE x == items[k].path
             q == WithPath(paths, items[k])
             m == Len(paths)
  <1>1. DOMAIN paths = 1 .. m /\ m \in Nat /\ m <= k - 1
    BY DEF Tabulates
  <1>2. \A i \in 1 .. k : i = k \/ i \in 1 .. k - 1
    OBVIOUS
  <1>3. CASE x \in ToSet(paths)
    <2>1. q = paths /\ \E j \in DOMAIN paths : paths[j] = x
      BY <1>3 DEF WithPath, ToSet
    <2> QED BY <1>1, <1>2, <2>1 DEF Tabulates
  <1>4. CASE x \notin ToSet(paths)
    <2>1. q = Append(paths, x)
      BY <1>4 DEF WithPath
    <2>2. \A j \in DOMAIN paths : paths[j] # x
      BY <1>4 DEF ToSet
    <2> HIDE DEF q, x
    <2>3. DOMAIN q = 1 .. m + 1 /\ q[m + 1] = x /\ Len(q) = m + 1 /\ \A a \in 1 .. m : q[a] = paths[a]
      <3>1. x \in S
        BY DEF x
      <3> QED BY <2>1, <3>1
    <2>4. \A i, j \in DOMAIN q : i # j => q[i] # q[j]
      <3> SUFFICES ASSUME NEW i \in 1 .. m + 1, NEW j \in 1 .. m + 1, i # j PROVE q[i] # q[j]
        BY <2>3
      <3>1. \A a \in 1 .. m + 1 : a = m + 1 \/ a \in 1 .. m
        BY <1>1
      <3> QED BY <1>1, <2>2, <2>3, <3>1 DEF Tabulates
    <2>5. ASSUME NEW i \in 1 .. k PROVE \E j \in DOMAIN q : q[j] = items[i].path
      <3>1. CASE i = k
        <4>1. m + 1 \in DOMAIN q
          BY <1>1, <2>3
        <4> QED BY <2>3, <3>1, <4>1 DEF x
      <3>2. CASE i \in 1 .. k - 1
        <4>1. PICK j \in DOMAIN paths : paths[j] = items[i].path
          BY <3>2 DEF Tabulates
        <4>2. j \in DOMAIN q /\ q[j] = paths[j]
          BY <1>1, <2>3
        <4> QED BY <4>1, <4>2
      <3> QED BY <1>2, <3>1, <3>2
    <2>6. Len(q) <= k
      BY <1>1, <2>3
    <2> QED BY <2>4, <2>5, <2>6 DEF Tabulates, q
  <1> QED BY <1>3, <1>4

\* The table has every path of the packet, once.
LEMMA PathTableIs ==
  ASSUME NEW S, NEW items \in Seq(S)
  PROVE  PathTable(items) \in Seq(PathsOf(items)) /\ Tabulates(PathTable(items), items, Len(items))
  <1> DEFINE n == Len(items)
             P == PathsOf(items)
             t == PathTable(items)
  <1>1. n \in Nat /\ \A k \in 1 .. n : items[k].path \in P
    BY DEF PathsOf
  <1>2. PICK f \in [0 .. n -> Seq(P)] :
          /\ f[0] = <<>> /\ t = f[n]
          /\ \A k \in 1 .. n : f[k - 1] \in Seq(P) /\ f[k] = WithPath(f[k - 1], items[k])
    BY PathSteps
  <1> HIDE DEF P, t, n
  <1> DEFINE T == {k \in 0 .. n : Tabulates(f[k], items, k)}
  <1>3. 0 \in T
    <2>1. Tabulates(<<>>, items, 0)
      BY DEF Tabulates
    <2> QED BY <1>1, <1>2, <2>1
  <1>4. ASSUME NEW k \in 1 .. n, k - 1 \in T PROVE k \in T
    <2>1. k \in Nat \ {0} /\ k \in 0 .. n /\ items[k].path \in P
      BY <1>1
    <2>2. f[k - 1] \in Seq(P) /\ f[k] = WithPath(f[k - 1], items[k])
          /\ Tabulates(f[k - 1], items, k - 1)
      BY <1>2, <1>4
    <2>3. Tabulates(f[k], items, k)
      BY <2>1, <2>2, WithPathTabulates
    <2> QED BY <2>1, <2>3
  <1>5. n \in T /\ n \in 0 .. n
    <2> HIDE DEF T
    <2> QED BY <1>1, <1>3, <1>4, UpTo
  <1>6. t \in Seq(P) /\ Tabulates(t, items, n)
    BY <1>2, <1>5
  <1> QED BY <1>6 DEF n, P, t

-----------------------------------------------------------------------------
(* Evidence: the compact form                                              *)

\* One more for each is as many more in all.
LEMMA SumsOfOneMore ==
  ASSUME NEW n \in Nat, NEW w \in [1 .. n -> Int], NEW v \in [1 .. n -> Int],
           \A i \in 1 .. n : v[i] = w[i] + 1
  PROVE  SumFunction(w) \in Int /\ SumFunction(v) = SumFunction(w) + n
  <1> DEFINE D == 1 .. n
  <1>1. PICK g : /\ g[{}] = 0 /\ SumFunction(w) = g[D]
                 /\ \A s \in SUBSET D : s # {} => g[s] = w[Pick(s)] + g[s \ {Pick(s)}]
    BY SumRecursion
  <1>2. PICK f : /\ f[{}] = 0 /\ SumFunction(v) = f[D]
                 /\ \A s \in SUBSET D : s # {} => f[s] = v[Pick(s)] + f[s \ {Pick(s)}]
    BY SumRecursion
  <1>3. \A s \in SUBSET D : s # {} => Pick(s) \in s
    BY DEF Pick
  <1>4. /\ \A s \in SUBSET D : IsFiniteSet(s) /\ Cardinality(s) \in Nat
        /\ \A s \in SUBSET D : Cardinality(s) = 0 => s = {}
        /\ Cardinality(D) = n
    BY FirstNumbers
  <1> HIDE DEF D
  <1> DEFINE Fine(s) == g[s] \in Int /\ f[s] = g[s] + Cardinality(s)
             S == {k \in 0 .. n : \A s \in SUBSET D : Cardinality(s) = k => Fine(s)}
  <1>5. 0 \in S
    <2>1. Fine({})
      BY <1>1, <1>2, FS_EmptySet
    <2>2. 0 \in 0 .. n
      OBVIOUS
    <2>3. ASSUME NEW s \in SUBSET D, Cardinality(s) = 0 PROVE Fine(s)
      <3>1. s = {}
        BY <1>4, <2>3
      <3> QED BY <2>1, <3>1
    <2> HIDE DEF Fine
    <2> QED BY <2>2, <2>3
  <1>6. ASSUME NEW k \in 1 .. n, k - 1 \in S PROVE k \in S
    <2> SUFFICES ASSUME NEW s \in SUBSET D, Cardinality(s) = k PROVE Fine(s)
      OBVIOUS
    <2>1. s # {}
      <3>1. k # 0
        OBVIOUS
      <3>2. Cardinality({}) = 0
        BY FS_EmptySet
      <3> QED BY <3>1, <3>2
    <2>2. Pick(s) \in s /\ Pick(s) \in D /\ s \ {Pick(s)} \in SUBSET D
      BY <1>3, <2>1
    <2>3. Cardinality(s \ {Pick(s)}) = k - 1
      BY <1>4, <2>2, FS_RemoveElement
    <2>4. Fine(s \ {Pick(s)})
      BY <1>6, <2>2, <2>3
    <2>5. w[Pick(s)] \in Int /\ v[Pick(s)] = w[Pick(s)] + 1
      BY <2>2 DEF D
    <2>6. g[s] = w[Pick(s)] + g[s \ {Pick(s)}] /\ f[s] = v[Pick(s)] + f[s \ {Pick(s)}]
      BY <1>1, <1>2, <2>1
    <2> DEFINE a == w[Pick(s)]
               x == g[s \ {Pick(s)}]
               y == f[s \ {Pick(s)}]
               gs == g[s]
               fs == f[s]
    <2>7. a \in Int /\ k \in Int /\ x \in Int /\ y = x + (k - 1) /\ gs = a + x /\ fs = (a + 1) + y
      BY <2>3, <2>4, <2>5, <2>6
    <2> HIDE DEF a, x, y, gs, fs
    <2>8. gs \in Int /\ fs = gs + k
      BY <2>7
    <2> QED BY <2>8 DEF gs, fs
  <1>7. Fine(D)
    <2>1. n \in S
      <3> HIDE DEF S
      <3> QED BY <1>5, <1>6, UpTo
    <2> QED BY <1>4, <2>1
  <1> QED BY <1>1, <1>2, <1>4, <1>7

\* What an edge has.
IsEdge(e) == e = [from |-> e.from, to |-> e.to, kind |-> e.kind, certainty |-> e.certainty]

\* Items that can be told apart, each of which shows something.
WellItemized(p) ==
  /\ \A k \in DOMAIN p.evidence :
       /\ IsItem(p.evidence[k]) /\ p.evidence[k].tokens > 0
       /\ p.evidence[k].handle # 0 /\ p.evidence[k].span # 0
  /\ \A k, l \in DOMAIN p.evidence : k # l => p.evidence[k].handle # p.evidence[l].handle

\* Edges between two of them.
WellJoined(p) ==
  \A e \in p.relations : /\ IsEdge(e) /\ e.from # e.to
                         /\ e.from \in HandlesShown(p) /\ e.to \in HandlesShown(p)

\* What a compiled packet is.
WellFormed(p) ==
  /\ p = [f \in PacketFields |-> p[f]]
  /\ Weighs(p) /\ p.used = Body(p) + 2 * Digits(p.used) /\ p.limit \in Int /\ p.used <= p.limit
  /\ Len(p.limitations) <= 8 /\ Len(p.next) <= 4
  /\ WellItemized(p) /\ WellJoined(p)

\* The position of a handle among the items.
PlaceIn(p, handle) == (CHOOSE k \in DOMAIN p.evidence : p.evidence[k].handle = handle) - 1

\* The row of an item, and of an edge.
RowOf(p, k) ==
  [handle |-> p.evidence[k].handle, role |-> p.evidence[k].role,
   path |-> Index(PathTable(p.evidence), p.evidence[k].path) - 1, span |-> p.evidence[k].span,
   fidelity |-> p.evidence[k].fidelity, tokens |-> p.evidence[k].tokens, meta |-> p.evidence[k].meta]
EdgeRow(p, e) == [e EXCEPT !.from = PlaceIn(p, e.from), !.to = PlaceIn(p, e.to)]

\* The compact form of a packet that says it has the size u.
Wire(p, u) ==
  [schema |-> "v2", limit |-> p.limit, used |-> u, omitted |-> p.omitted,
      paths |-> PathTable(p.evidence),
   evidence |-> [k \in DOMAIN p.evidence |-> RowOf(p, k)],
   relations |-> {EdgeRow(p, e) : e \in p.relations},
   limitations |-> p.limitations, next |-> p.next, skipped |-> p.skipped]

\* makeContextV2Wire makes it.
LEMMA MakeWireIs ==
  ASSUME NEW p
  PROVE  MakeWire(p) = Wire(p, 0) /\ \A u : [Wire(p, 0) EXCEPT !.used = u] = Wire(p, u)
  <1> DEFINE Of(e, r) == [schema |-> "v2", limit |-> p.limit, used |-> 0, omitted |-> p.omitted,
                          paths |-> PathTable(p.evidence), evidence |-> e, relations |-> r,
                          limitations |-> p.limitations, next |-> p.next, skipped |-> p.skipped]
  <1>1. MakeWire(p) = Wire(p, 0)
    <2>1. MakeWire(p) = Of(MakeWire(p).evidence, MakeWire(p).relations)
      BY DEF MakeWire
    <2>2. Wire(p, 0) = Of(Wire(p, 0).evidence, Wire(p, 0).relations)
      BY DEF Wire
    <2>3. MakeWire(p).evidence = Wire(p, 0).evidence
      BY DEF MakeWire, Wire, RowOf
    <2>4. MakeWire(p).relations = Wire(p, 0).relations
      BY DEF MakeWire, Wire, EdgeRow, PlaceIn
    <2> HIDE DEF Of
    <2> QED BY <2>1, <2>2, <2>3, <2>4
  <1>2. \A u : [Wire(p, 0) EXCEPT !.used = u] = Wire(p, u)
    <2> DEFINE e == [k \in DOMAIN p.evidence |-> RowOf(p, k)]
               r == {EdgeRow(p, x) : x \in p.relations}
               t == PathTable(p.evidence)
               W(u) == [schema |-> "v2", limit |-> p.limit, used |-> u, omitted |-> p.omitted,
                       paths |-> t,
                        evidence |-> e, relations |-> r, limitations |-> p.limitations, next |-> p.next,
                        skipped |-> p.skipped]
    <2>1. \A u : Wire(p, u) = W(u)
      BY DEF Wire
    <2> HIDE DEF e, r, t
    <2>2. \A u : [W(0) EXCEPT !.used = u] = W(u)
      OBVIOUS
    <2> HIDE DEF W
    <2> QED BY <2>1, <2>2
  <1> QED BY <1>1, <1>2

\* Whatever size it says: the compact form is no larger than the packet.
LEMMA WireIsNoLarger ==
  ASSUME NEW p, Weighs(p)
  PROVE  \E b \in Int : b <= Body(p) /\ \A u : WireBody(Wire(p, u)) = b
  <1> DEFINE w == [k \in DOMAIN p.evidence |-> p.evidence[k].tokens + p.evidence[k].meta]
             v == [k \in DOMAIN p.evidence |-> ItemSize(p.evidence[k])]
             R == {EdgeRow(p, e) : e \in p.relations}
             t == PathTable(p.evidence)
  <1>1. PICK n \in Nat : DOMAIN p.evidence = 1 .. n
    BY DEF Weighs, Sized
  <1>2. PICK S : p.evidence \in Seq(S)
    BY DEF Weighs, IsPacket
  <1>3. Len(p.evidence) = n
    BY <1>1, <1>2
  <1>4. Len(t) <= n /\ Len(t) \in Nat
    BY <1>2, <1>3, PathTableIs DEF Tabulates
  <1>5. w \in [1 .. n -> Int] /\ v \in [1 .. n -> Int] /\ \A i \in 1 .. n : v[i] = w[i] + 1
    <2>1. \A i \in 1 .. n : p.evidence[i].tokens \in Nat /\ p.evidence[i].meta \in Nat
      BY <1>1 DEF Weighs, Sized
    <2>2. \A i \in 1 .. n : /\ p.evidence[i].tokens + p.evidence[i].meta \in Int
                            /\ ItemSize(p.evidence[i]) \in Int
                            /\ ItemSize(p.evidence[i]) = p.evidence[i].tokens + p.evidence[i].meta + 1
      BY <2>1 DEF ItemSize
    <2> QED BY <1>1, <2>2
  <1>6. SumFunction(w) \in Int /\ SumFunction(v) = SumFunction(w) + n
    <2> HIDE DEF w, v
    <2> QED BY <1>5, SumsOfOneMore
  <1>7. IsFiniteSet(p.relations) /\ Cardinality(p.relations) \in Nat
    BY FS_CardinalityType DEF Weighs, Sized
  <1>8. Cardinality(R) \in Nat /\ Cardinality(R) <= Cardinality(p.relations)
    <2> DEFINE f == [e \in p.relations |-> EdgeRow(p, e)]
    <2>1. f \in Surjection(p.relations, R)
      BY DEF Surjection
    <2> HIDE DEF f, R
    <2>2. IsFiniteSet(R) /\ Cardinality(R) <= Cardinality(p.relations)
      BY <1>7, <2>1, FS_Surjection
    <2> QED BY <2>2, FS_CardinalityType
  <1> DEFINE a == SumFunction(w)
             c == Cardinality(R)
             d == Cardinality(p.relations)
             l == Len(p.limitations)
             x == Len(p.next)
             o == Digits(p.omitted)
             z == IF p.skipped > 0 THEN 1 ELSE 0
             m == Len(t)
             b == 2 + a + m + c + l + x + 2 * o + z
  <1>9. ASSUME NEW u PROVE WireBody(Wire(p, u)) = b
    <2> DEFINE q == Wire(p, u)
    <2>1. /\ q.evidence = [k \in DOMAIN p.evidence |-> RowOf(p, k)] /\ q.paths = t /\ q.relations = R
          /\ q.limitations = p.limitations /\ q.next = p.next /\ q.omitted = p.omitted
          /\ q.skipped = p.skipped
      BY DEF Wire
    <2> HIDE DEF q
    <2>2. [k \in DOMAIN q.evidence |-> q.evidence[k].tokens + q.evidence[k].meta] = w
      <3>1. DOMAIN q.evidence = DOMAIN p.evidence
        BY <2>1
      <3>2. \A k \in DOMAIN p.evidence : /\ q.evidence[k].tokens = p.evidence[k].tokens
                                         /\ q.evidence[k].meta = p.evidence[k].meta
        BY <2>1 DEF RowOf
      <3> QED BY <3>1, <3>2
    <2> HIDE DEF w, R, t
    <2> QED BY <2>1, <2>2 DEF WireBody, q
  <1>10. Body(p) = 2 + SumFunction(v) + d + l + x + 2 * o + z
    BY DEF Body
  <1>11. l \in Int /\ x \in Int /\ o \in Int /\ z \in Int
    BY DEF Weighs, Sized, Digits
  <1> DEFINE y == SumFunction(v)
  <1>12. /\ a \in Int /\ c \in Nat /\ d \in Nat /\ m \in Nat /\ m <= n /\ c <= d /\ y = a + n
         /\ Body(p) = 2 + y + d + l + x + 2 * o + z
    BY <1>4, <1>6, <1>7, <1>8, <1>10
  <1> HIDE DEF a, c, d, l, x, o, z, m, y
  <1>13. b \in Int /\ b <= Body(p)
    BY <1>11, <1>12
  <1> HIDE DEF b
  <1> QED BY <1>9, <1>13

-----------------------------------------------------------------------------
(* Evidence: its size                                                      *)

\* The rounds of the settlement of the compact form.
LEMMA SettleWireSteps ==
  ASSUME NEW p, NEW b \in Int, \A u : WireBody(Wire(p, u)) = b
  PROVE  \E f : /\ f \in [0 .. 7 -> Int] /\ f[0] = 0 /\ SettleWire(MakeWire(p), p) = Wire(p, f[7])
                /\ \A k \in 1 .. 7 : f[k - 1] \in Int /\ f[k] = b + 2 * Digits(f[k - 1])
  <1> DEFINE seq == <<1, 2, 3, 4, 5, 6, 7>>
             n == 7
             A == Int
             base == 0
             w == Wire(p, 0)
             Op(a, x) == WireSize([w EXCEPT !.used = a])
             h == [z \in A \X (1 .. n) |-> Op(z[1], seq[z[2]])]
             Step(g, s) == IF s = {} THEN base ELSE Op(g[s \ {Max(s)}], seq[Max(s)])
             Of(g) == g = [s \in SUBSET (DOMAIN seq) |-> Step(g, s)]
             iter == CHOOSE g : Of(g)
  <1>1. n \in Nat /\ DOMAIN seq = 1 .. n /\ base \in A /\ w.used = base
    BY DEF Wire
  <1>2. \A a : [w EXCEPT !.used = a] = Wire(p, a)
    BY MakeWireIs
  <1>3. \A a, x : Op(a, x) = b + 2 * Digits(a)
    <2>1. \A a : WireSize(Wire(p, a)) = b + 2 * Digits(a)
      <3>1. \A a : Wire(p, a).used = a
        BY DEF Wire
      <3> QED BY <3>1 DEF WireSize
    <2> HIDE DEF w
    <2> QED BY <1>2, <2>1
  <1>4. SettleWire(w, p) = [w EXCEPT !.used = iter[DOMAIN seq]]
    <2> HIDE DEF w
    <2>1. SettleWire(w, p) = [w EXCEPT !.used = FoldLeft(LAMBDA used,
          x : WireSize([w EXCEPT !.used = used]), w.used, seq)]
      BY DEF SettleWire
    <2>2. FoldLeft(LAMBDA used, x : WireSize([w EXCEPT !.used = used]), 0, seq) = iter[DOMAIN seq]
      BY DEF FoldLeft, MapThenFoldSet
    <2> HIDE DEF iter
    <2> QED BY <1>1, <2>1, <2>2
  <1> HIDE DEF Op, w
  <1>5. h \in [A \X (1 .. n) -> A] /\ \A a \in A, k \in 1 .. n : h[<<a, k>>] = Op(a, seq[k])
    <2>1. \A a \in A, k \in 1 .. n : Op(a, seq[k]) \in A
      BY <1>3 DEF Digits
    <2> HIDE DEF A, n, seq
    <2> QED BY <2>1
  <1> HIDE DEF seq, n, A, base, h
  <1>6. PICK g : Sequential(g, n, A, base, h)
    BY <1>1, <1>5, SequenceRecursion
  <1>7. Of(iter)
    <2>1. \A s \in SUBSET (1 .. n) : g[s] = Step(g, s)
      BY <1>5, <1>6 DEF Sequential
    <2>2. Of(g)
      <3> HIDE DEF Step
      <3> QED BY <1>1, <1>6, <2>1 DEF Sequential
    <2> HIDE DEF Of
    <2> QED BY <2>2
  <1> HIDE DEF iter
  <1>8. iter[{}] = base /\ \A s \in SUBSET (1 .. n) : s # {}
        => iter[s] = Op(iter[s \ {Max(s)}], seq[Max(s)])
    <2>1. \A s \in SUBSET (1 .. n) : iter[s] = Step(iter, s)
      <3> HIDE DEF Step
      <3> QED BY <1>1, <1>7
    <2> QED BY <2>1
  <1>9. Iterates(iter, n, A, h)
    BY <1>1, <1>5, <1>6, <1>8 DEF Sequential, Iterates
  <1>10. PICK f : Steps(f, n, A, iter[{}], h, iter[1 .. n])
    BY <1>1, <1>5, <1>9, StepByStep
  <1>11. f \in [0 .. n -> A] /\ f[0] = base /\ f[n] = iter[DOMAIN seq]
    BY <1>1, <1>8, <1>10 DEF Steps
  <1>12. SettleWire(MakeWire(p), p) = Wire(p, f[n])
    BY <1>2, <1>4, <1>11, MakeWireIs DEF w
  <1>13. \A k \in 1 .. n : f[k - 1] \in A /\ f[k] = b + 2 * Digits(f[k - 1])
    BY <1>3, <1>5, <1>10 DEF Steps
  <1> HIDE DEF Of, Step
  <1> QED BY <1>11, <1>12, <1>13 DEF n, A, base

\* The compact form settles on its size, which is no larger than what the
\* packet says (context_v2.go 91).
LEMMA SettleWireIs ==
  ASSUME NEW p, WellFormed(p)
  PROVE  \E u \in Int : /\ SettleWire(MakeWire(p), p) = Wire(p, u) /\ WireSize(Wire(p, u)) = u
                        /\ u <= p.used
  <1>1. Weighs(p) /\ p.used \in Int /\ p.used = Body(p) + 2 * Digits(p.used)
    BY DEF WellFormed, Weighs
  <1>2. Body(p) \in Int
    BY <1>1, BodyIsNumber DEF Weighs
  <1>3. PICK b \in Int : b <= Body(p) /\ \A u : WireBody(Wire(p, u)) = b
    BY <1>1, WireIsNoLarger
  <1>4. PICK f : /\ f \in [0 .. 7 -> Int] /\ f[0] = 0 /\ SettleWire(MakeWire(p), p) = Wire(p, f[7])
                 /\ \A k \in 1 .. 7 : f[k - 1] \in Int /\ f[k] = b + 2 * Digits(f[k - 1])
    BY <1>3, SettleWireSteps
  <1> DEFINE y == Body(p)
             u == f[7]
             v == p.used
  <1>5. /\ f[1] = b + 2 * Digits(f[0]) /\ f[2] = b + 2 * Digits(f[1]) /\ f[3] = b + 2 * Digits(f[2])
        /\ f[4] = b + 2 * Digits(f[3]) /\ f[5] = b + 2 * Digits(f[4]) /\ f[6] = b + 2 * Digits(f[5])
        /\ f[7] = b + 2 * Digits(f[6])
        /\ f[0] \in Int /\ f[1] \in Int /\ f[2] \in Int /\ f[3] \in Int /\ f[4] \in Int
           /\ f[5] \in Int /\ f[6] \in Int /\ f[7] \in Int
    <2>1. 1 \in 1 .. 7 /\ 2 \in 1 .. 7 /\ 3 \in 1 .. 7 /\ 4 \in 1 .. 7 /\ 5 \in 1 .. 7 /\ 6 \in 1 .. 7
          /\ 7 \in 1 .. 7
      OBVIOUS
    <2>2. 1 - 1 = 0 /\ 2 - 1 = 1 /\ 3 - 1 = 2 /\ 4 - 1 = 3 /\ 5 - 1 = 4 /\ 6 - 1 = 5 /\ 7 - 1 = 6
      OBVIOUS
    <2>3. 7 \in 0 .. 7
      OBVIOUS
    <2> QED BY <1>4, <2>1, <2>2, <2>3
  <1>6. u \in Int /\ u = b + 2 * Digits(u)
    BY <1>5 DEF Digits
  <1>7. v \in Int /\ y \in Int /\ b <= y /\ v = y + 2 * Digits(v)
    BY <1>1, <1>2, <1>3
  <1>8. WireSize(Wire(p, u)) = u
    <2>1. Wire(p, u).used = u
      BY DEF Wire
    <2> HIDE DEF u
    <2> QED BY <1>3, <1>6, <2>1 DEF WireSize
  <1>9. SettleWire(MakeWire(p), p) = Wire(p, u)
    BY <1>4
  <1>10. f[0] = 0
    BY <1>4
  <1> HIDE DEF y, v
  <1>11. u <= v
    <2>1. ASSUME NEW x \in Int, x <= v PROVE b + 2 * Digits(x) <= v
      BY <1>7, <2>1 DEF Digits
    <2>2. 0 <= v \/ v < 0
      BY <1>7
    <2>3. CASE 0 <= v
      BY <1>5, <1>7, <1>10, <2>1, <2>3
    <2>4. CASE v < 0
      BY <1>5, <1>6, <1>7, <1>10, <2>4 DEF Digits
    <2> QED BY <2>2, <2>3, <2>4
  <1> HIDE DEF u
  <1> QED BY <1>6, <1>8, <1>9, <1>11 DEF v

-----------------------------------------------------------------------------
(* Evidence: reading it back                                               *)

\* An item of a wire, and an edge.
ItemAt(w, k) ==
  [handle |-> w.evidence[k].handle, path |-> w.paths[w.evidence[k].path + 1],
      span |-> w.evidence[k].span,
   role |-> w.evidence[k].role, fidelity |-> w.evidence[k].fidelity, tokens |-> w.evidence[k].tokens,
   meta |-> w.evidence[k].meta]
EdgeAt(w, e) == [e EXCEPT !.from = w.evidence[e.from + 1].handle, !.to = w.evidence[e.to + 1].handle]

\* The packet of a wire.
Unwired(w) ==
  [schema |-> "v1", limit |-> w.limit, used |-> w.used, omitted |-> w.omitted,
   evidence |-> [k \in DOMAIN w.evidence |-> ItemAt(w, k)],
       relations |-> {EdgeAt(w, e) : e \in w.relations},
   limitations |-> w.limitations, next |-> w.next, skipped |-> w.skipped]

\* What a wire refers to is there.
Refers(w) ==
  /\ IsInjective(w.paths)
  /\ \A row \in ToSet(w.evidence) : row.path \in 0 .. Len(w.paths) - 1
  /\ \A e \in w.relations : e.from \in 0 .. Len(w.evidence) - 1 /\ e.to \in 0 .. Len(w.evidence) - 1

\* DecodeContextV2 returns it, if the wire refers to what is there and the
\* packet is valid.
LEMMA DecodeIs ==
  ASSUME NEW w, Refers(w), Validate(Unwired(w))
  PROVE  DecodeContextV2(w) = Unwired(w)
  <1> DEFINE HandleAt(k) == w.evidence[k + 1].handle
             Restored(row) == [handle |-> row.handle, path |-> w.paths[row.path + 1], span |-> row.span,
                               role |-> row.role, fidelity |-> row.fidelity, tokens |-> row.tokens,
                               meta |-> row.meta]
             Of(e, r) == [schema |-> "v1", limit |-> w.limit, used |-> w.used, omitted |-> w.omitted,
                          evidence |-> e, relations |-> r, limitations |-> w.limitations,
                          next |-> w.next, skipped |-> w.skipped]
             e1 == [k \in DOMAIN w.evidence |-> Restored(w.evidence[k])]
             r1 == {[e EXCEPT !.from = HandleAt(e.from), !.to = HandleAt(e.to)] : e \in w.relations}
             e2 == [k \in DOMAIN w.evidence |-> ItemAt(w, k)]
             r2 == {EdgeAt(w, e) : e \in w.relations}
             bad == \/ ~IsInjective(w.paths)
                    \/ \E row \in ToSet(w.evidence) : row.path \notin 0 .. Len(w.paths) - 1
                    \/ \E e \in w.relations : {e.from, e.to} \ (0 .. Len(w.evidence) - 1) # {}
  <1>1. e1 = e2
    BY DEF ItemAt
  <1>2. r1 = r2
    BY DEF EdgeAt
  <1>3. ~ bad
    BY DEF Refers
  <1>4. DecodeContextV2(w) = IF bad THEN Failed ELSE IF Validate(Of(e1, r1)) THEN Of(e1, r1) ELSE Failed
    BY DEF DecodeContextV2
  <1>5. Unwired(w) = Of(e2, r2)
    BY DEF Unwired
  <1> HIDE DEF bad, e1, r1, e2, r2, Of
  <1>6. Of(e1, r1) = Unwired(w)
    BY <1>1, <1>2, <1>5
  <1> QED BY <1>3, <1>4, <1>6

\* A packet with such items and edges is valid.
LEMMA WellFormedIsValid ==
  ASSUME NEW p, p.schema = "v1", p.used <= p.limit, Len(p.limitations) <= 8, Len(p.next) <= 4,
         WellItemized(p), WellJoined(p)
  PROVE  Validate(p)
  <1> DEFINE handles == [k \in DOMAIN p.evidence |-> p.evidence[k].handle]
  <1>1. ToSet(handles) = HandlesShown(p)
    BY DEF ToSet, HandlesShown
  <1>2. IsInjective(handles)
    BY DEF IsInjective, WellItemized
  <1>3. 0 \notin ToSet(handles)
    BY <1>1 DEF WellItemized, HandlesShown
  <1>4. \A e \in p.relations : {e.from, e.to} \subseteq ToSet(handles)
        /\ (e.from # e.to \/ e.kind = "self")
    BY <1>1 DEF WellJoined
  <1>5. \A k \in DOMAIN p.evidence : p.evidence[k].tokens > 0 /\ p.evidence[k].span # 0
    BY DEF WellItemized
  <1> HIDE DEF handles
  <1> QED BY <1>2, <1>3, <1>4, <1>5 DEF Validate, handles

\* The place of a path in the table.
LEMMA PathIsFound ==
  ASSUME NEW S, NEW items \in Seq(S), NEW k \in DOMAIN items
  PROVE  LET t == PathTable(items)
             i == Index(t, items[k].path)
         IN i \in DOMAIN t /\ t[i] = items[k].path /\ DOMAIN t = 1 .. Len(t) /\ Len(t) \in Nat
  <1> DEFINE t == PathTable(items)
             x == items[k].path
             T == {i \in DOMAIN t : t[i] = x}
  <1>1. t \in Seq(PathsOf(items)) /\ Tabulates(t, items, Len(items)) /\ k \in 1 .. Len(items)
    BY PathTableIs
  <1>2. \E j \in DOMAIN t : t[j] = x
    BY <1>1 DEF Tabulates
  <1> HIDE DEF t, x
  <1>3. DOMAIN t = 1 .. Len(t) /\ Len(t) \in Nat
    BY <1>1
  <1>4. T \in SUBSET DOMAIN t /\ T # {} /\ \A i \in T : t[i] = x
    BY <1>2
  <1>5. Index(t, x) = Min(T)
    BY DEF Index
  <1> HIDE DEF T
  <1>6. Min(T) \in T
    BY <1>3, <1>4, LeastPlace
  <1>7. Index(t, x) \in DOMAIN t /\ t[Index(t, x)] = x
    BY <1>4, <1>5, <1>6
  <1> QED BY <1>3, <1>7 DEF t, x

\* The position of a handle that is shown.
LEMMA HandleIsFound ==
  ASSUME NEW p, NEW n \in Nat, DOMAIN p.evidence = 1 .. n, NEW h \in HandlesShown(p)
  PROVE  /\ PlaceIn(p, h) \in 0 .. n - 1 /\ PlaceIn(p, h) + 1 \in DOMAIN p.evidence
         /\ p.evidence[PlaceIn(p, h) + 1].handle = h
  <1> DEFINE k == CHOOSE j \in DOMAIN p.evidence : p.evidence[j].handle = h
  <1>1. \E j \in DOMAIN p.evidence : p.evidence[j].handle = h
    BY DEF HandlesShown
  <1>2. k \in 1 .. n /\ p.evidence[k].handle = h
    BY <1>1
  <1>3. PlaceIn(p, h) = k - 1
    BY DEF PlaceIn
  <1> HIDE DEF k
  <1>4. (k - 1) + 1 = k /\ k - 1 \in 0 .. n - 1
    BY <1>2
  <1> QED BY <1>2, <1>3, <1>4

\* An item is read back from its row.
LEMMA ItemIsReadBack ==
  ASSUME NEW p, WellFormed(p), NEW u, NEW k \in DOMAIN p.evidence
  PROVE  /\ ItemAt(Wire(p, u), k) = p.evidence[k]
         /\ Wire(p, u).evidence[k].path \in 0 .. Len(Wire(p, u).paths) - 1
  <1> DEFINE x == p.evidence[k]
             w == Wire(p, u)
             t == PathTable(p.evidence)
             i == Index(t, x.path)
  <1>1. PICK S : p.evidence \in Seq(S)
    BY DEF WellFormed, Weighs, IsPacket
  <1>2. i \in DOMAIN t /\ t[i] = x.path /\ DOMAIN t = 1 .. Len(t) /\ Len(t) \in Nat
    BY <1>1, PathIsFound
  <1>3. w.paths = t /\ w.evidence[k] = RowOf(p, k)
    BY DEF Wire
  <1>4. RowOf(p, k) = [handle |-> x.handle, role |-> x.role, path |-> i - 1, span |-> x.span,
                       fidelity |-> x.fidelity, tokens |-> x.tokens, meta |-> x.meta]
    BY DEF RowOf
  <1>5. IsItem(x)
    BY DEF WellFormed, WellItemized
  <1> HIDE DEF x, w, t, i
  <1>6. (i - 1) + 1 = i /\ i - 1 \in 0 .. Len(t) - 1
    BY <1>2
  <1>7. /\ w.evidence[k].handle = x.handle /\ w.evidence[k].role = x.role /\ w.evidence[k].path = i - 1
        /\ w.evidence[k].span = x.span /\ w.evidence[k].fidelity = x.fidelity
        /\ w.evidence[k].tokens = x.tokens /\ w.evidence[k].meta = x.meta
    BY <1>3, <1>4
  <1>8. w.paths[w.evidence[k].path + 1] = x.path
    BY <1>2, <1>3, <1>6, <1>7
  <1>9. ItemAt(w, k) = x
    BY <1>5, <1>7, <1>8 DEF ItemAt, IsItem
  <1>10. w.evidence[k].path \in 0 .. Len(w.paths) - 1
    BY <1>3, <1>6, <1>7
  <1> QED BY <1>9, <1>10 DEF x, w

\* So is an edge.
LEMMA EdgeIsReadBack ==
  ASSUME NEW p, WellFormed(p), NEW u, NEW e \in p.relations
  PROVE  /\ EdgeAt(Wire(p, u), EdgeRow(p, e)) = e
         /\ EdgeRow(p, e).from \in 0 .. Len(Wire(p, u).evidence) - 1
         /\ EdgeRow(p, e).to \in 0 .. Len(Wire(p, u).evidence) - 1
  <1> DEFINE w == Wire(p, u)
             a == PlaceIn(p, e.from)
             b == PlaceIn(p, e.to)
             r == EdgeRow(p, e)
  <1>1. PICK n \in Nat : DOMAIN p.evidence = 1 .. n
    BY DEF WellFormed, Weighs, Sized
  <1>2. IsEdge(e) /\ e.from \in HandlesShown(p) /\ e.to \in HandlesShown(p)
    BY DEF WellFormed, WellJoined
  <1>3. /\ a \in 0 .. n - 1 /\ a + 1 \in DOMAIN p.evidence /\ p.evidence[a + 1].handle = e.from
        /\ b \in 0 .. n - 1 /\ b + 1 \in DOMAIN p.evidence /\ p.evidence[b + 1].handle = e.to
    BY <1>1, <1>2, HandleIsFound
  <1>4. /\ DOMAIN w.evidence = 1 .. n
        /\ \A k \in DOMAIN p.evidence : w.evidence[k].handle = p.evidence[k].handle
    BY <1>1 DEF Wire, RowOf
  <1>5. Len(w.evidence) = n
    BY <1>4
  <1> HIDE DEF w, a, b
  <1>6. r = [from |-> a, to |-> b, kind |-> e.kind, certainty |-> e.certainty]
    <2>1. e = [from |-> e.from, to |-> e.to, kind |-> e.kind, certainty |-> e.certainty]
      BY <1>2 DEF IsEdge
    <2>2. r = [e EXCEPT !.from = a, !.to = b]
      BY DEF EdgeRow, a, b
    <2> HIDE DEF r
    <2> QED BY <2>1, <2>2
  <1> HIDE DEF r
  <1>7. r.from = a /\ r.to = b
    BY <1>6
  <1>8. EdgeAt(w, r) = e
    <2> DEFINE f == w.evidence[r.from + 1].handle
               g == w.evidence[r.to + 1].handle
    <2>1. f = e.from /\ g = e.to
      BY <1>3, <1>4, <1>7
    <2>2. EdgeAt(w, r) = [r EXCEPT !.from = f, !.to = g]
      BY DEF EdgeAt
    <2> HIDE DEF f, g
    <2>3. [r EXCEPT !.from = f, !.to = g] = [from |-> f, to |-> g, kind |-> e.kind,
          certainty |-> e.certainty]
      <3> DEFINE z == [r EXCEPT !.from = f, !.to = g]
                 kind == e.kind
                 sure == e.certainty
      <3>1. r = [from |-> a, to |-> b, kind |-> kind, certainty |-> sure]
        BY <1>6
      <3>2. z = [r EXCEPT !.from = f, !.to = g]
        OBVIOUS
      <3> HIDE DEF kind, sure, z
      <3>3. z = [from |-> f, to |-> g, kind |-> kind, certainty |-> sure]
        BY <3>1, <3>2
      <3> QED BY <3>3 DEF kind, sure, z
    <2>4. e = [from |-> e.from, to |-> e.to, kind |-> e.kind, certainty |-> e.certainty]
      BY <1>2 DEF IsEdge
    <2> QED BY <2>1, <2>2, <2>3, <2>4
  <1> QED BY <1>3, <1>5, <1>7, <1>8 DEF w, r

\* A wire refers to what it has.
LEMMA WireRefers ==
  ASSUME NEW p, WellFormed(p), NEW u
  PROVE  Refers(Wire(p, u))
  <1> DEFINE w == Wire(p, u)
             t == PathTable(p.evidence)
  <1>1. PICK S : p.evidence \in Seq(S)
    BY DEF WellFormed, Weighs, IsPacket
  <1>2. w.paths = t /\ DOMAIN w.evidence = DOMAIN p.evidence
        /\ w.relations = {EdgeRow(p, e) : e \in p.relations}
    BY DEF Wire
  <1>3. \A k \in DOMAIN p.evidence : w.evidence[k].path \in 0 .. Len(w.paths) - 1
    <2> SUFFICES ASSUME NEW k \in DOMAIN p.evidence PROVE w.evidence[k].path \in 0 .. Len(w.paths) - 1
      OBVIOUS
    <2> QED BY ItemIsReadBack
  <1>4. \A e \in p.relations : /\ EdgeRow(p, e).from \in 0 .. Len(w.evidence) - 1
                               /\ EdgeRow(p, e).to \in 0 .. Len(w.evidence) - 1
    <2> SUFFICES ASSUME NEW e \in p.relations
                 PROVE  /\ EdgeRow(p, e).from \in 0 .. Len(w.evidence) - 1
                        /\ EdgeRow(p, e).to \in 0 .. Len(w.evidence) - 1
      OBVIOUS
    <2>1. /\ EdgeAt(Wire(p, u), EdgeRow(p, e)) = e
          /\ EdgeRow(p, e).from \in 0 .. Len(Wire(p, u).evidence) - 1
          /\ EdgeRow(p, e).to \in 0 .. Len(Wire(p, u).evidence) - 1
      BY EdgeIsReadBack
    <2> QED BY <2>1 DEF w
  <1>5. IsInjective(w.paths)
    <2>1. Tabulates(t, p.evidence, Len(p.evidence))
      BY <1>1, PathTableIs
    <2> HIDE DEF t, w
    <2> QED BY <1>2, <2>1 DEF Tabulates, IsInjective
  <1> HIDE DEF w
  <1>6. \A row \in ToSet(w.evidence) : row.path \in 0 .. Len(w.paths) - 1
    BY <1>2, <1>3 DEF ToSet
  <1>7. \A r \in w.relations : r.from \in 0 .. Len(w.evidence) - 1 /\ r.to \in 0 .. Len(w.evidence) - 1
    BY <1>2, <1>4
  <1> QED BY <1>5, <1>6, <1>7 DEF Refers, w

\* What is read back is the packet, with the size of the wire.
LEMMA WireIsReadBack ==
  ASSUME NEW p, WellFormed(p), NEW u
  PROVE  Unwired(Wire(p, u)) = [p EXCEPT !.used = u]
  <1> DEFINE w == Wire(p, u)
             e == [k \in DOMAIN w.evidence |-> ItemAt(w, k)]
             r == {EdgeAt(w, x) : x \in w.relations}
  <1>1. e = p.evidence
    <2>1. DOMAIN w.evidence = DOMAIN p.evidence
      BY DEF Wire
    <2>2. \A k \in DOMAIN p.evidence : ItemAt(w, k) = p.evidence[k]
      BY ItemIsReadBack
    <2>3. p.evidence = [k \in DOMAIN p.evidence |-> p.evidence[k]]
      <3>1. PICK S : p.evidence \in Seq(S)
        BY DEF WellFormed, Weighs, IsPacket
      <3> DEFINE x == p.evidence
                 n == Len(x)
      <3>2. x \in [1 .. n -> S]
        BY <3>1
      <3> HIDE DEF x, n
      <3>3. x = [k \in DOMAIN x |-> x[k]]
        BY <3>2
      <3> QED BY <3>3 DEF x
    <2> HIDE DEF w
    <2> QED BY <2>1, <2>2, <2>3
  <1>2. r = p.relations
    <2>1. w.relations = {EdgeRow(p, x) : x \in p.relations}
      BY DEF Wire
    <2>2. \A x \in p.relations : EdgeAt(w, EdgeRow(p, x)) = x
      BY EdgeIsReadBack
    <2> HIDE DEF w
    <2>3. \A y : y \in r <=> \E x \in p.relations : y = EdgeAt(w, EdgeRow(p, x))
      BY <2>1
    <2> HIDE DEF r
    <2> QED BY <2>2, <2>3
  <1>3. /\ w.limit = p.limit /\ w.used = u /\ w.omitted = p.omitted /\ w.limitations = p.limitations
        /\ w.next = p.next /\ w.skipped = p.skipped
    BY DEF Wire
  <1>4. Unwired(w) = [schema |-> "v1", limit |-> w.limit, used |-> w.used, omitted |-> w.omitted,
                      evidence |-> e, relations |-> r, limitations |-> w.limitations, next |-> w.next,
                      skipped |-> w.skipped]
    BY DEF Unwired
  <1> HIDE DEF w, e, r
  <1>5. Unwired(w) = [schema |-> "v1", limit |-> p.limit, used |-> u, omitted |-> p.omitted,
                      evidence |-> p.evidence, relations |-> p.relations, limitations |-> p.limitations,
                      next |-> p.next, skipped |-> p.skipped]
    BY <1>1, <1>2, <1>3, <1>4
  <1>6. p = [schema |-> "v1", limit |-> p.limit, used |-> p.used, omitted |-> p.omitted,
             evidence |-> p.evidence, relations |-> p.relations, limitations |-> p.limitations,
             next |-> p.next, skipped |-> p.skipped]
    <2> DEFINE q == [schema |-> "v1", limit |-> p.limit, used |-> p.used, omitted |-> p.omitted,
                     evidence |-> p.evidence, relations |-> p.relations, limitations |-> p.limitations,
                     next |-> p.next, skipped |-> p.skipped]
    <2>1. p = [f \in PacketFields |-> p[f]] /\ p.schema = "v1"
      BY DEF WellFormed, Weighs, IsPacket
    <2>2. q = [f \in PacketFields |-> q[f]]
      <3>1. DOMAIN q = PacketFields
        BY DEF PacketFields
      <3>2. q = [f \in DOMAIN q |-> q[f]]
        OBVIOUS
      <3> HIDE DEF q
      <3> QED BY <3>1, <3>2
    <2>3. \A f \in PacketFields : q[f] = p[f]
      BY <2>1 DEF PacketFields
    <2> HIDE DEF q
    <2>4. q = p
      BY <2>1, <2>2, <2>3
    <2> QED BY <2>4 DEF q
  <1>7. [p EXCEPT !.used = u] =
          [schema |-> "v1", limit |-> p.limit, used |-> u, omitted |-> p.omitted,
           evidence |-> p.evidence, relations |-> p.relations, limitations |-> p.limitations,
           next |-> p.next, skipped |-> p.skipped]
    BY <1>6
  <1> QED BY <1>5, <1>7 DEF w

-----------------------------------------------------------------------------
(* Evidence: packets that can be encoded                                   *)

\* An item that shows a choice has its fields and some text.
LEMMA ChoiceIsItem ==
  ASSUME NEW pre, PreTyped(pre), NEW c \in ChoicesOf(pre)
  PROVE  IsItem(EvidenceOf(pre, c)) /\ EvidenceOf(pre, c).tokens > 0
  <1>1. pre.prepared[c.at].variants \in Seq(Forms) /\ c.v \in DOMAIN pre.prepared[c.at].variants
    BY DEF ChoicesOf, PreTyped
  <1>2. pre.prepared[c.at].variants[c.v] \in Forms
    BY <1>1
  <1>3. EvidenceOf(pre, c).tokens \in Nat \ {0}
    BY <1>2 DEF EvidenceOf, Forms
  <1>4. IsItem(EvidenceOf(pre, c))
    <2> DEFINE x == EvidenceOf(pre, c)
               P == pre.prepared[c.at]
               h == P.c.handle
               a == P.c.path
               n == P.c.span
               r == P.role
               f == P.variants[c.v].fidelity
               t == P.variants[c.v].tokens
    <2>1. x = [handle |-> h, path |-> a, span |-> n, role |-> r, fidelity |-> f, tokens |-> t,
          meta |-> 1]
      BY DEF EvidenceOf
    <2> HIDE DEF x, h, a, n, r, f, t
    <2>2. x.handle = h /\ x.path = a /\ x.span = n /\ x.role = r /\ x.fidelity = f /\ x.tokens = t
          /\ x.meta = 1
      BY <2>1
    <2>3. IsItem(x)
      BY <2>1, <2>2 DEF IsItem
    <2> QED BY <2>3 DEF x
  <1>5. EvidenceOf(pre, c).tokens > 0
    <2> DEFINE t == EvidenceOf(pre, c).tokens
    <2> HIDE DEF t
    <2>1. t > 0
      BY <1>3 DEF t
    <2> QED BY <2>1 DEF t
  <1> QED BY <1>4, <1>5

\* The items of a compiled packet can be told apart, and each shows something.
LEMMA CompiledItems ==
  ASSUME NEW pre, PreTyped(pre), Apart(pre.prepared),
         \A a \in DOMAIN pre.prepared : pre.prepared[a].c.handle # 0 /\ pre.prepared[a].c.span # 0,
         NEW s \in Selections(pre), NEW limit, NEW omitted, NEW p,
             Repeats(Bare(limit, pre, s, omitted), p)
  PROVE  WellItemized(p)
  <1> DEFINE bare == Bare(limit, pre, s, omitted)
             o == ByPlace(s)
  <1>1. o \in Seq(ChoicesOf(pre))
    BY ByPlaceIs
  <1>2. DOMAIN bare.evidence = DOMAIN o /\ \A k \in DOMAIN o : bare.evidence[k] = EvidenceOf(pre, o[k])
    BY DEF Bare, Items
  <1>3. \A k \in DOMAIN o : o[k] \in ChoicesOf(pre)
    BY <1>1
  <1>4. ShowsApart(bare.evidence, pre.prepared)
    BY BareShowsApart
  <1> HIDE DEF bare, o
  <1>5. \A k \in DOMAIN bare.evidence : IsItem(bare.evidence[k]) /\ bare.evidence[k].tokens > 0
    BY <1>2, <1>3, ChoiceIsItem
  <1>6. /\ DOMAIN p.evidence = DOMAIN bare.evidence
        /\ \A k \in DOMAIN bare.evidence : /\ p.evidence[k].handle = bare.evidence[k].handle
                                           /\ p.evidence[k].span = bare.evidence[k].span
                                           /\ p.evidence[k].tokens = bare.evidence[k].tokens
                                           /\ IsItem(bare.evidence[k]) => IsItem(p.evidence[k])
    BY DEF Repeats, bare
  <1>7. \A k \in DOMAIN bare.evidence : bare.evidence[k].handle # 0 /\ bare.evidence[k].span # 0
    BY <1>4 DEF ShowsApart, ShowsOneOf
  <1>8. \A k, l \in DOMAIN bare.evidence : k # l => bare.evidence[k].handle # bare.evidence[l].handle
    BY <1>4 DEF ShowsApart
  <1>9. \A k \in DOMAIN p.evidence : /\ IsItem(p.evidence[k]) /\ p.evidence[k].tokens > 0
                                     /\ p.evidence[k].handle # 0 /\ p.evidence[k].span # 0
    BY <1>5, <1>6, <1>7
  <1>10. \A k, l \in DOMAIN p.evidence : k # l => p.evidence[k].handle # p.evidence[l].handle
    BY <1>6, <1>8
  <1> QED BY <1>9, <1>10 DEF WellItemized

\* Its edges join two of them.
LEMMA CompiledEdges ==
  ASSUME NEW pre, PreTyped(pre), Apart(pre.prepared), NEW s \in Selections(pre), NEW limit, NEW omitted,
         NEW p, Repeats(Bare(limit, pre, s, omitted), p), p.relations = Edges(ShownBy(pre, s))
  PROVE  WellJoined(p)
  <1> DEFINE H == {pre.prepared[s[a].at].c.handle : a \in DOMAIN s}
             shown == ShownBy(pre, s)
  <1>1. HandlesShown(p) = H
    BY SelectionIsShown
  <1>2. \A e \in Edges(shown) : {e.from, e.to} \subseteq H /\ e.from # e.to
    BY EdgesJoinShown
  <1> HIDE DEF H, shown
  <1>3. ASSUME NEW e \in Edges(shown) PROVE IsEdge(e)
    <2>1. PICK f, t, k, z : e = [from |-> f, to |-> t, kind |-> k, certainty |-> z]
      BY <1>3 DEF Edges
    <2>2. e.from = f /\ e.to = t /\ e.kind = k /\ e.certainty = z
      BY <2>1
    <2> QED BY <2>1, <2>2 DEF IsEdge
  <1>4. p.relations = Edges(shown)
    BY DEF shown
  <1>5. \A e \in p.relations : IsEdge(e) /\ e.from # e.to /\ e.from \in HandlesShown(p)
        /\ e.to \in HandlesShown(p)
    BY <1>1, <1>2, <1>3, <1>4
  <1> QED BY <1>5 DEF WellJoined

\* A measured packet has its fields and no others.
LEMMA SettleIsRecord ==
  ASSUME NEW m
  PROVE  Settle(m) = [f \in DOMAIN Settle(m) |-> Settle(m)[f]]
  <1>1. \A u : [m EXCEPT !.used = u] = [f \in DOMAIN [m EXCEPT !.used = u] |-> [m EXCEPT !.used = u][f]]
    OBVIOUS
  <1> QED BY <1>1 DEF Settle

\* What Compile answers is well-formed.
LEMMA CompileIsWellFormed ==
  ASSUME NEW request, request.cands \in Seq(Offers), Len(request.cands) <= MaxOffers,
           request.budget \in Int,
         NEW p, p = Compile(request)
  PROVE  WellFormed(p)
  <1> DEFINE pre == Preprocess(request)
             limit == ClampBudget(request.budget)
             s == Select(request, pre, limit)
             o == Omitted(pre, s)
             relations == Edges(ShownBy(pre, s))
             bare == Bare(limit, pre, s, o)
  <1>1. s \in Selections(pre) /\ IsRight(p, limit, o, relations) /\ Repeats(bare, p)
    BY CompileIsRight
  <1>2. PreTyped(pre) /\ Apart(pre.prepared)
        /\ \A a \in DOMAIN pre.prepared : pre.prepared[a].c.handle # 0 /\ pre.prepared[a].c.span # 0
    BY PreIsTyped, PreparedIs
  <1>3. limit \in Int
    BY ClampedBudget
  <1>4. \E m : p = [schema |-> "error"] \/ p = Settle(m)
    <2>1. p = Guided(request, pre, s, BuildPacket(limit, pre, s, o))
      BY DEF Compile
    <2> QED BY <2>1 DEF Guided
  <1> HIDE DEF pre, limit, s
  <1>5. WellItemized(p)
    BY <1>1, <1>2, CompiledItems
  <1>6. WellJoined(p)
    <2>1. p.relations = relations
      BY <1>1 DEF IsRight
    <2> QED BY <1>1, <1>2, <2>1, CompiledEdges
  <1> HIDE DEF o, relations, bare
  <1>7. /\ Weighs(p) /\ p.used = Body(p) + 2 * Digits(p.used) /\ p.used <= limit /\ p.limit = limit
        /\ Len(p.limitations) <= 8 /\ Len(p.next) <= 4
    BY <1>1 DEF IsRight
  <1>8. DOMAIN p = PacketFields /\ "used" \in DOMAIN p
    BY <1>7 DEF Weighs, IsPacket, PacketFields
  <1>9. p # [schema |-> "error"]
    BY <1>8
  <1>10. PICK m : p = Settle(m)
    BY <1>4, <1>9
  <1>11. p = [f \in PacketFields |-> p[f]]
    BY <1>8, <1>10, SettleIsRecord
  <1>12. p.limit \in Int /\ p.used <= p.limit
    BY <1>3, <1>7
  <1> QED BY <1>5, <1>6, <1>7, <1>11, <1>12 DEF WellFormed

\* The compact form of a well-formed packet fits its budget and is read back
\* as the packet (context_v2.go 53, 91).
LEMMA WellFormedIsEncoded ==
  ASSUME NEW p, WellFormed(p)
  PROVE  \E u \in Int : /\ EncodeContextV2(p) = Wire(p, u) /\ WireSize(Wire(p, u)) = u /\ u <= p.limit
                        /\ DecodeContextV2(Wire(p, u)) = [p EXCEPT !.used = u]
  <1>1. PICK u \in Int : /\ SettleWire(MakeWire(p), p) = Wire(p, u) /\ WireSize(Wire(p, u)) = u
                         /\ u <= p.used
    BY SettleWireIs
  <1>2. /\ p.schema = "v1" /\ p.used \in Int /\ p.limit \in Int /\ p.used <= p.limit
        /\ Len(p.limitations) <= 8 /\ Len(p.next) <= 4 /\ WellItemized(p) /\ WellJoined(p)
        /\ DOMAIN p = PacketFields
    BY DEF WellFormed, Weighs, IsPacket
  <1>3. u <= p.limit
    BY <1>1, <1>2
  <1>4. Validate(p)
    BY <1>2, WellFormedIsValid
  <1>5. EncodeContextV2(p) = Wire(p, u)
    <2> DEFINE w == Wire(p, u)
    <2>1. w.used = u
      BY DEF Wire
    <2>2. ~ (~ Validate(p) \/ w.used > p.limit)
      <3> HIDE DEF w
      <3> QED BY <1>2, <1>3, <1>4, <2>1
    <2>3. EncodeContextV2(p) = IF ~ Validate(p) \/ w.used > p.limit THEN Failed ELSE w
      BY <1>1 DEF EncodeContextV2
    <2> HIDE DEF w
    <2> QED BY <2>2, <2>3 DEF w
  <1>6. Validate([p EXCEPT !.used = u])
    <2> DEFINE q == [p EXCEPT !.used = u]
    <2>1. /\ q.schema = p.schema /\ q.used = u /\ q.limit = p.limit /\ q.limitations = p.limitations
          /\ q.next = p.next /\ q.evidence = p.evidence /\ q.relations = p.relations
      BY <1>2 DEF PacketFields
    <2> HIDE DEF q
    <2>2. WellItemized(q)
      BY <1>2, <2>1 DEF WellItemized
    <2>3. HandlesShown(q) = HandlesShown(p)
      BY <2>1 DEF HandlesShown
    <2>4. WellJoined(q)
      BY <1>2, <2>1, <2>3 DEF WellJoined
    <2>5. q.schema = "v1" /\ q.used <= q.limit /\ Len(q.limitations) <= 8 /\ Len(q.next) <= 4
      BY <1>2, <1>3, <2>1
    <2>6. Validate(q)
      BY <2>2, <2>4, <2>5, WellFormedIsValid
    <2> QED BY <2>6 DEF q
  <1>7. DecodeContextV2(Wire(p, u)) = [p EXCEPT !.used = u]
    <2>1. Unwired(Wire(p, u)) = [p EXCEPT !.used = u]
      BY WireIsReadBack
    <2>2. Refers(Wire(p, u))
      BY WireRefers
    <2>3. Validate(Unwired(Wire(p, u)))
      BY <1>6, <2>1
    <2> QED BY <2>1, <2>2, <2>3, DecodeIs
  <1> QED BY <1>1, <1>3, <1>5, <1>7

\* What a client that accepts the compact form is sent.
LEMMA NegotiatedIs ==
  ASSUME NEW p, NEW w, EncodeContextV2(p) = w, w # Failed, NEW d, DecodeContextV2(w) = d, d # Failed
  PROVE  Negotiated(p, TRUE) = IF d.used >= Measure(p) THEN [raw |-> p, summary |-> p]
                               ELSE [raw |-> w, summary |-> d]
  BY DEF Negotiated

\* A well-formed packet is faithfully encoded, and the smaller form is sent.
LEMMA WellFormedIsFaithful ==
  ASSUME WellFormed(packet)
  PROVE  Faithful(Negotiated(packet, TRUE), EncodeContextV2(packet))
  <1>1. PICK p : p = packet
    OBVIOUS
  <1>2. WellFormed(p)
    BY <1>1
  <1>3. PICK u \in Int : /\ EncodeContextV2(p) = Wire(p, u) /\ WireSize(Wire(p, u)) = u /\ u <= p.limit
                         /\ DecodeContextV2(Wire(p, u)) = [p EXCEPT !.used = u]
    BY <1>2, WellFormedIsEncoded
  <1> DEFINE w == Wire(p, u)
             d == [p EXCEPT !.used = u]
             n == Measure(p)
             sent == Negotiated(p, TRUE)
  <1>4. w.used = u /\ w.schema = "v2" /\ w # Failed
    <2>1. w.used = u /\ w.schema = "v2"
      BY DEF Wire
    <2> HIDE DEF w
    <2>2. Failed.schema = "error"
      BY DEF Failed
    <2> QED BY <2>1, <2>2
  <1>5. DOMAIN p = PacketFields /\ p.schema = "v1" /\ p.used = n /\ p.used <= p.limit /\ n \in Int
    BY <1>2 DEF WellFormed, Weighs, IsPacket, Measure
  <1>6. d.used = u /\ d.schema = "v1"
    BY <1>5 DEF PacketFields
  <1> HIDE DEF w, d, n, sent
  <1>7. d # Failed
    <2>1. Failed.schema = "error"
      BY DEF Failed
    <2> QED BY <1>6, <2>1
  <1>8. sent = IF d.used >= n THEN [raw |-> p, summary |-> p] ELSE [raw |-> w, summary |-> d]
    <2>1. EncodeContextV2(p) = w /\ DecodeContextV2(w) = d
      BY <1>3 DEF w, d
    <2> QED BY <1>4, <1>7, <2>1, NegotiatedIs DEF sent, n
  <1>9. DecodeContextV2(w) = [p EXCEPT !.used = w.used]
    BY <1>3, <1>4 DEF w
  <1>10. WireSize(w) = u
    BY <1>3 DEF w
  <1>11. CASE d.used >= n
    <2>1. sent.raw = p /\ sent.summary = p
      BY <1>8, <1>11
    <2>2. ~ (WireSize(w) < n)
      BY <1>5, <1>6, <1>10, <1>11
    <2>3. sent.raw.schema # "v2"
      BY <1>5, <2>1
    <2>4. sent.summary.used = sent.raw.used /\ sent.summary.used <= p.limit
      BY <1>5, <2>1
    <2>5. Faithful(sent, w)
      BY <1>1, <1>4, <1>9, <2>2, <2>3, <2>4 DEF Faithful, n
    <2> QED BY <1>1, <1>3, <2>5 DEF sent, w
  <1>12. CASE ~ (d.used >= n)
    <2>1. sent.raw = w /\ sent.summary = d
      BY <1>8, <1>12
    <2>2. WireSize(w) < n
      BY <1>5, <1>6, <1>10, <1>12
    <2>3. sent.raw.schema = "v2" /\ WireSize(sent.raw) = sent.raw.used
      BY <1>4, <1>10, <2>1
    <2>4. sent.summary.used = sent.raw.used /\ sent.summary.used <= p.limit
      BY <1>3, <1>4, <1>6, <2>1
    <2>5. Faithful(sent, w)
      BY <1>1, <1>4, <1>9, <2>2, <2>3, <2>4 DEF Faithful, n
    <2> QED BY <1>1, <1>3, <2>5 DEF sent, w
  <1> QED BY <1>11, <1>12

\* The packet is well-formed.
FormInvariant == AnswerInvariant /\ (PacketGiven => WellFormed(packet))

\* Every step keeps it.
LEMMA FormInvariantKeeps ==
  ASSUME FormInvariant, [NextCall]_session
  PROVE  FormInvariant'
  <1>1. AnswerInvariant'
    BY AnswerInvariantKeeps DEF FormInvariant
  <1>2. CASE UNCHANGED session
    BY <1>1, <1>2 DEF session, FormInvariant, PacketGiven
  <1>3. ASSUME NEW i \in Intents, NEW m \in Modes, NEW b \in Budgets, Call(i, m, b)
        PROVE FormInvariant'
    <2>1. packet' = NoPacket
      <3>1. SessionBegins
        <4>1. ASSUME SessionGoesOn PROVE FALSE
          BY <1>3, <4>1, QuestionIs DEF SessionGoesOn, Call
        <4> QED BY <4>1 DEF FormInvariant, AnswerInvariant, SessionInvariant
      <3> QED BY <1>3, <3>1 DEF SessionBegins, Call
    <2> QED BY <1>1, <2>1 DEF FormInvariant, PacketGiven
  <1>4. ASSUME NEW o \in Offers, Find(o) PROVE FormInvariant'
    <2>1. packet' = NoPacket
      BY <1>4 DEF Find
    <2> QED BY <1>1, <2>1 DEF FormInvariant, PacketGiven
  <1>5. CASE Ask
    <2>1. SessionGoesOn
      BY <1>5 DEF FormInvariant, AnswerInvariant, SessionInvariant, SessionBegins, Ask
    <2>2. PICK i, m, b, k : \E c \in Seq(Offers) : req = Question(i, m, b, c, k)
      BY <2>1 DEF SessionGoesOn
    <2>3. PICK c \in Seq(Offers) : req = Question(i, m, b, c, k)
      BY <2>2
    <2>4. PICK r : r = req
      OBVIOUS
    <2>5. r.cands = c /\ r.budget = b /\ r # NoCall
      BY <2>3, <2>4, QuestionIs
    <2>6. Len(c) <= MaxOffers /\ b \in Int
      BY <2>4, <2>5 DEF FormInvariant, AnswerInvariant
    <2>7. PICK p : p = Compile(r)
      OBVIOUS
    <2>8. WellFormed(p)
      BY <2>5, <2>6, <2>7, CompileIsWellFormed
    <2>9. packet' = p
      BY <1>5, <2>4, <2>7 DEF Ask
    <2>10. WellFormed(packet')
      BY <2>8, <2>9
    <2> QED BY <1>1, <2>10 DEF FormInvariant
  <1> QED BY <1>2, <1>3, <1>4, <1>5 DEF NextCall

\* Every answer can be encoded, and a client that decodes the form it was sent
\* has the packet that was compiled.
THEOREM EveryAnswerCanBeEncoded == CallSpec => []EncodingIsFaithful
  <1>1. NoRequest => FormInvariant
    BY DEF NoRequest, FormInvariant, AnswerInvariant, SessionInvariant, SessionBegins, PacketIsHonest,
       AnchorIsShown, PacketGiven
  <1>2. FormInvariant /\ [NextCall]_session => FormInvariant'
    BY FormInvariantKeeps
  <1>3. FormInvariant => EncodingIsFaithful
    BY WellFormedIsFaithful DEF FormInvariant, EncodingIsFaithful
  <1> QED BY <1>1, <1>2, <1>3, PTL DEF CallSpec

=============================================================================

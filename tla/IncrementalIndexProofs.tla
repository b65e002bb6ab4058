----------------------- MODULE IncrementalIndexProofs -----------------------
(***************************************************************************)
(* Proofs about IncrementalIndex, for any files, contents, keys and        *)
(* metadata: an update that reuses what did not change ends where a        *)
(* rebuild would, but for relations whose target's keys do not cover what  *)
(* may answer it; those are there, and lead to what may answer them.       *)
(* And about ParsePool, which parses the files for it: for any number of   *)
(* files and workers, an update uses the results of all files, each once.  *)
(***************************************************************************)
EXTENDS IncrementalIndex, ParsePool, FiniteSetTheorems, TLAPS

-----------------------------------------------------------------------------
(* Extraction and resolution                                               *)

\* What every relation of an extraction looks like.
Shaped(r, file, content) ==
  /\ r = [from |-> r.from, to |-> r.to, kind |-> r.kind, target |-> r.target, keys |-> r.keys]
  /\ r.from \in Handles(file, content) /\ r.from[1] = file
  /\ Unresolved(r) => r.target \in Targets /\ r.keys = RelationKeys[r.target]
  /\ ~Unresolved(r) => r.to[1] = file

\* A handle is never mistaken for no handle.
LEMMA HandleIsSome ==
  ASSUME NEW f \in Files, NEW c \in Contents, NEW h \in Handles(f, c)
  PROVE  h # None /\ h[1] = f /\ h[2] \in Decls[c]
BY ConstantsAssumption DEF ConstantsAssumption, Handles

LEMMA InsertedShaped ==
  ASSUME NEW f \in Files, NEW c \in Contents, NEW r \in RelationsOf(f, c)
  PROVE  Shaped(r, f, c)
<1>1. PICK ref \in Refs[c] : r = Inserted(f, ref)
  BY DEF RelationsOf
<1>2. /\ ref.from \in Decls[c]
      /\ ref.target \in Targets \cup {None}
      /\ ref.target = None => ref.to \in Decls[c]
  BY ConstantsAssumption DEF ConstantsAssumption
<1>3. CASE ref.target = None
  <2>1. /\ r = [from |-> <<f, ref.from>>, to |-> <<f, ref.to>>, kind |-> ref.kind,
                target |-> ref.target, keys |-> {}]
    BY <1>1, <1>3 DEF Inserted
  <2>2. <<f, ref.to>> \in Handles(f, c) /\ <<f, ref.from>> \in Handles(f, c)
    BY <1>2, <1>3 DEF Handles
  <2>3. <<f, ref.to>> # None
    BY <2>2, HandleIsSome
  <2> QED BY <2>1, <2>2, <2>3 DEF Shaped, Unresolved
<1>4. CASE ref.target # None
  <2>1. /\ r = [from |-> <<f, ref.from>>, to |-> None, kind |-> ref.kind,
                target |-> ref.target, keys |-> RelationKeys[ref.target]]
    BY <1>1, <1>4 DEF Inserted
  <2>2. <<f, ref.from>> \in Handles(f, c)
    BY <1>2 DEF Handles
  <2> QED BY <1>2, <1>4, <2>1, <2>2 DEF Shaped, Unresolved
<1> QED BY <1>3, <1>4

LEMMA FoundMatches ==
  ASSUME NEW r, NEW others, NEW facts, NEW h \in Found(r, others, facts)
  PROVE  h \in others /\ MayAnswer(h, r, facts)
BY DEF Found, FirstOf, ByName, ByPath, ByFact, MayAnswer

\* Taking away what was not preferred changes nothing.
LEMMA FirstOfStable ==
  ASSUME NEW S, NEW U, NEW gone, FirstOf(S, U) \cap gone = {}
  PROVE  FirstOf(S \ gone, U \ gone) = FirstOf(S, U)
<1>1. CASE S # {}
  BY <1>1 DEF FirstOf
<1>2. CASE S = {}
  BY <1>2 DEF FirstOf
<1> QED BY <1>1, <1>2

FirstOfFive(S1, S2, S3, S4, S5) ==
  FirstOf(FirstOf(FirstOf(S1, S2), S3), FirstOf(S4, S5))

\* What was found stays found when no symbol that may answer is new and
\* none of those found is gone.
Qual(r, others) == {h \in others : h[2].qual = r.target}
Name(r, others) == {h \in others : h[2].name = r.target}
At(r, others) == {h \in others : <<r.from[1], r.target, h[1]>> \in PathMatch}
AtLeaf(r, others) == {h \in At(r, others) : h[2].name = Leaf[r.target]}
Called(others) == {h \in others : ~h[2].owner}

\* The symbols that may answer r are those before without those gone.
Kept(r, before, after, gone, facts) ==
  \A h \in before \cup after :
    MayAnswer(h, r, facts) => (h \in after <=> h \in before \ gone)

LEMMA FoundStable ==
  ASSUME NEW r, NEW before, NEW after, NEW gone, NEW facts,
         Kept(r, before, after, gone, facts),
         Found(r, before, facts) \cap gone = {}
  PROVE  Found(r, after, facts) = Found(r, before, facts)
<1>1. /\ Qual(r, after) = Qual(r, before) \ gone
      /\ Name(r, after) = Name(r, before) \ gone
      /\ Qual(r, Called(after)) = Qual(r, Called(before)) \ gone
      /\ Name(r, Called(after)) = Name(r, Called(before)) \ gone
  BY DEF Kept, MayAnswer, Qual, Name, Called
<1>2. CASE r.kind \notin Calls
  <2>1. /\ At(r, after) = At(r, before) \ gone
        /\ AtLeaf(r, after) = AtLeaf(r, before) \ gone
        /\ ByFact(r, after, facts) = ByFact(r, before, facts) \ gone
    <3>1. At(r, after) = At(r, before) \ gone
      BY <1>2 DEF Kept, MayAnswer, At
    <3>2. AtLeaf(r, after) = AtLeaf(r, before) \ gone
      BY <3>1 DEF AtLeaf
    <3>3. ByFact(r, after, facts) = ByFact(r, before, facts) \ gone
      BY <1>2 DEF Kept, MayAnswer, ByFact
    <3> QED BY <3>1, <3>2, <3>3
  <2>2. /\ Found(r, before, facts)
             = FirstOfFive(AtLeaf(r, before), At(r, before), ByFact(r, before, facts),
                           Qual(r, before), Name(r, before))
        /\ Found(r, after, facts)
             = FirstOfFive(AtLeaf(r, after), At(r, after), ByFact(r, after, facts),
                           Qual(r, after), Name(r, after))
    BY <1>2, Zenon DEF FirstOfFive, Found, ByPath, ByName, AtLeaf, At, Qual, Name
  <2>3. FirstOfFive(AtLeaf(r, before), At(r, before), ByFact(r, before, facts),
                    Qual(r, before), Name(r, before)) \cap gone = {}
    BY <2>2
  <2>4. FirstOfFive(AtLeaf(r, after), At(r, after), ByFact(r, after, facts),
                    Qual(r, after), Name(r, after))
          = FirstOfFive(AtLeaf(r, before), At(r, before), ByFact(r, before, facts),
                        Qual(r, before), Name(r, before))
    <3>1. CASE AtLeaf(r, before) # {}
      BY <1>1, <2>1, <2>3, <3>1 DEF FirstOf, FirstOfFive
    <3>2. CASE AtLeaf(r, before) = {} /\ At(r, before) # {}
      BY <1>1, <2>1, <2>3, <3>2 DEF FirstOf, FirstOfFive
    <3>3. CASE /\ AtLeaf(r, before) = {} /\ At(r, before) = {}
               /\ ByFact(r, before, facts) # {}
      BY <1>1, <2>1, <2>3, <3>3 DEF FirstOf, FirstOfFive
    <3>4. CASE /\ AtLeaf(r, before) = {} /\ At(r, before) = {}
               /\ ByFact(r, before, facts) = {}
      BY <1>1, <2>1, <2>3, <3>4 DEF FirstOf, FirstOfFive
    <3> QED BY <3>1, <3>2, <3>3, <3>4
  <2> QED BY <2>2, <2>4
<1>3. CASE r.kind \in Calls
  <2>1. /\ Found(r, before, facts) = FirstOf(Qual(r, Called(before)), Name(r, Called(before)))
        /\ Found(r, after, facts) = FirstOf(Qual(r, Called(after)), Name(r, Called(after)))
    BY <1>3 DEF Found, ByName, Qual, Name, Called
  <2>2. FirstOf(Qual(r, Called(before)), Name(r, Called(before))) \cap gone = {}
    BY <2>1
  <2>3. FirstOf(Qual(r, Called(before)) \ gone, Name(r, Called(before)) \ gone)
          = Found(r, before, facts)
    BY <2>1, <2>2, FirstOfStable, Zenon
  <2> QED BY <1>1, <2>1, <2>3
<1> QED BY <1>2, <1>3

LEMMA ResolvedStays ==
  ASSUME NEW r, NEW files, NEW facts, ~Unresolved(r)
  PROVE  Resolve(r, files, facts) = r
BY DEF Resolve

\* Symbols that may answer share a key with the relation.
LEMMA MatchesShareKeys ==
  ASSUME NEW g \in Files, NEW r, Unresolved(r), Covered(r), NEW d \in Contents, Shaped(r, g, d),
         NEW facts \in Manifests,
         NEW f \in Files, NEW c \in Contents, NEW h \in Handles(f, c),
         MayAnswer(h, r, facts)
  PROVE  r.keys \cap PathKeys(f, c) # {}
<1>1. /\ r.target \in Targets /\ r.keys = RelationKeys[r.target] /\ r.from[1] = g
      /\ CoveredTarget(r.target)
  BY ConstantsAssumption DEF Shaped, Covered, ConstantsAssumption
<1>2. h[1] = f /\ h[2] \in Decls[c]
  BY HandleIsSome
<1>3. CASE h[2].qual = r.target \/ h[2].name = r.target
  <2>1. r.target \in SymbolKeys(c)
    BY <1>2, <1>3 DEF SymbolKeys
  <2>2. r.target \in r.keys
    BY <1>1 DEF CoveredTarget
  <2> QED BY <2>1, <2>2 DEF PathKeys
<1>4. CASE <<g, r.target, f>> \in PathMatch
  BY <1>1, <1>4 DEF CoveredTarget, PathKeys
<1>5. CASE <<r.target, f>> \in FactMatch[facts]
  BY <1>1, <1>5 DEF CoveredTarget, PathKeys
<1> QED BY <1>1, <1>2, <1>3, <1>4, <1>5 DEF MayAnswer

\* Two states of the files that differ in touched files only, none of which
\* shares a key with the relation in the second state.
Apart(r, files1, files2, touched) ==
  /\ files1 \in [Files -> Contents \cup {Absent}]
  /\ files2 \in [Files -> Contents \cup {Absent}]
  /\ \A f \in Files \ touched : files2[f] = files1[f]
  /\ \A f \in Files : f \in touched /\ files2[f] # Absent
                        => r.keys \cap PathKeys(f, files2[f]) = {}

LEMMA DeclaredIs ==
  ASSUME NEW files \in [Files -> Contents \cup {Absent}], NEW h
  PROVE  h \in Declared(files)
           <=> \E f \in Files : files[f] \in Contents /\ h \in Handles(f, files[f])
BY ConstantsAssumption DEF ConstantsAssumption, Declared

\* Then what answers it can only be lost, and with the keys of a touched file.
LEMMA CandidatesStable ==
  ASSUME NEW g \in Files, NEW r, Unresolved(r), Covered(r), NEW d \in Contents, Shaped(r, g, d),
         NEW facts \in Manifests, NEW files1, NEW files2, NEW touched,
         Apart(r, files1, files2, touched)
  PROVE  /\ \/ Candidates(r, files2, facts) = Candidates(r, files1, facts)
            \/ \E f \in Files : /\ f \in touched /\ files1[f] \in Contents
                                /\ r.keys \cap PathKeys(f, files1[f]) # {}
         /\ \A h : Candidates(r, files1, facts) = {h} /\ h[1] \notin touched
                     => Candidates(r, files2, facts) = {h}
<1> DEFINE before == Declared(files1) \ {r.from}
           after == Declared(files2) \ {r.from}
           gone == {h \in before : h[1] \in touched}
<1>1. ASSUME NEW h \in after, MayAnswer(h, r, facts)
      PROVE  h \in before \ gone
  <2>1. PICK f \in Files : files2[f] \in Contents /\ h \in Handles(f, files2[f])
    BY DeclaredIs DEF Apart
  <2>2. h[1] = f
    BY <2>1, HandleIsSome
  <2>3. r.keys \cap PathKeys(f, files2[f]) # {}
    BY <1>1, <2>1, MatchesShareKeys
  <2>4. f \notin touched
    BY <2>1, <2>3, ConstantsAssumption DEF Apart, ConstantsAssumption
  <2>5. h \in Declared(files1)
    BY <2>1, <2>4, DeclaredIs DEF Apart
  <2> QED BY <2>2, <2>4, <2>5
<1>2. ASSUME NEW h \in before \ gone
      PROVE  h \in after
  <2>1. PICK f \in Files : files1[f] \in Contents /\ h \in Handles(f, files1[f])
    BY DeclaredIs DEF Apart
  <2>2. h[1] = f /\ f \notin touched
    BY <2>1, HandleIsSome
  <2>3. h \in Declared(files2)
    BY <2>1, <2>2, DeclaredIs DEF Apart
  <2> QED BY <2>3
<1>3. Kept(r, before, after, gone, facts)
  BY <1>1, <1>2 DEF Kept
<1> HIDE DEF before, after, gone
<1>4. ASSUME Found(r, before, facts) \cap gone = {}
      PROVE  Found(r, after, facts) = Found(r, before, facts)
  BY <1>3, <1>4, FoundStable
<1>5. /\ Candidates(r, files1, facts) = PreferOwner(r, Found(r, before, facts))
      /\ Candidates(r, files2, facts) = PreferOwner(r, Found(r, after, facts))
  BY DEF before, after, Candidates
<1>6. ASSUME NEW h \in Found(r, before, facts) \cap gone
      PROVE  \E f \in Files : /\ f \in touched /\ files1[f] \in Contents
                              /\ r.keys \cap PathKeys(f, files1[f]) # {}
  <2>1. h \in before /\ MayAnswer(h, r, facts) /\ h[1] \in touched
    BY <1>6, FoundMatches DEF gone
  <2>2. PICK f \in Files : files1[f] \in Contents /\ h \in Handles(f, files1[f])
    BY <2>1, DeclaredIs DEF Apart, before
  <2>3. h[1] = f
    BY <2>2, HandleIsSome
  <2> QED BY <2>1, <2>2, <2>3, MatchesShareKeys
<1>7. ASSUME NEW h, Candidates(r, files1, facts) = {h}, h[1] \notin touched
      PROVE  Found(r, before, facts) \cap gone = {}
  <2>1. h \in Found(r, before, facts) /\ PreferOwner(r, Found(r, before, facts)) = {h}
    BY <1>5, <1>7 DEF PreferOwner
  <2>2. \A k \in Found(r, before, facts) : k[1] = h[1]
    BY <2>1 DEF PreferOwner
  <2> QED BY <1>7, <2>2 DEF gone
<1> QED BY <1>4, <1>5, <1>6, <1>7

-----------------------------------------------------------------------------
(* What is extracted again                                                 *)

LEMMA DependentsClosed ==
  ASSUME NEW files \in SUBSET Files, \A r \in relations : r.from[1] \in Files
  PROVE  /\ files \subseteq WithDependents(files)
         /\ WithDependents(files) \subseteq Files
         /\ Incoming(WithDependents(files)) \subseteq WithDependents(files)
         /\ Competing(WithDependents(files)) \subseteq WithDependents(files)
<1> DEFINE all == WithDependents(files)
<1>1. files \subseteq all /\ all \subseteq Files
  BY DEF WithDependents
<1>2. Incoming(all) \subseteq Files /\ Competing(all) \subseteq Files
  BY DEF Incoming, Competing
<1>3. ASSUME NEW S \in SUBSET Files, files \cup Incoming(S) \cup Competing(S) \subseteq S
      PROVE  Incoming(all) \cup Competing(all) \subseteq S
  <2>1. all \subseteq S
    BY <1>3 DEF WithDependents
  <2>2. Incoming(all) \subseteq Incoming(S)
    BY <2>1 DEF Incoming
  <2>3. Competing(all) \subseteq Competing(S)
    BY <2>1 DEF Competing
  <2> QED BY <1>3, <2>2, <2>3
<1>4. \A f \in Incoming(all) \cup Competing(all) : f \in all
  BY <1>2, <1>3 DEF WithDependents
<1> QED BY <1>1, <1>4

-----------------------------------------------------------------------------
(* The invariant                                                           *)

\* Linking is pending as long as an update runs.
RunOK == run = Idle \/ (pending /\ (run.step = "link" \/ run = [step |-> "linked"]))

\* No covered relation that can be resolved is out of the scope of the linking
\* to come.
ScopeIsEnough ==
  run.step = "link" =>
    \A r \in relations : Covered(r) /\ ~InScope(r) => Resolve(r, stored, revision) = r

\* The relations are those a rebuild leaves.
AllSettled ==
  /\ \A r \in relations : \E q \in Fresh : r \in Settled(q, stored, revision)
  /\ \A q \in Fresh : Settled(q, stored, revision) \cap relations # {}

Inv ==
  /\ TypeOK
  /\ RunOK
  /\ \A f \in Files : stored[f] # Absent => revision \in Manifests
  /\ NothingStaleNothingLost
  /\ ScopeIsEnough
  /\ run.step = "linked" => AllSettled
  /\ UpdateIsRebuild

LEMMA InitInv == Init => Inv
<1> SUFFICES ASSUME Init PROVE Inv
  OBVIOUS
<1>1. \A f \in Files : stored[f] = Absent /\ tree[f] = Absent
  BY DEF Init
<1>2. Fresh = {} /\ relations = {}
  BY <1>1 DEF Fresh, Init
<1>3. TypeOK
  BY ConstantsAssumption DEF ConstantsAssumption, Init, TypeOK, Idle
<1> QED BY <1>1, <1>2, <1>3 DEF Init, Inv, RunOK, Idle, NothingStaleNothingLost,
     ScopeIsEnough, UpdateIsRebuild

\* A relation of the index comes from a reference of a stored file, and is
\* resolved or not yet.
Source(r, q, f) ==
  /\ f \in Files /\ stored[f] \in Contents
  /\ q \in RelationsOf(f, stored[f])
  /\ r \in Usable(q, stored, revision)

\* What is resolved in its own file needs no key.
LEMMA InsertedIsCovered ==
  ASSUME NEW f, NEW c, NEW q \in RelationsOf(f, c), ~Covered(q)
  PROVE  Unresolved(q)
<1>1. PICK ref \in Refs[c] : q = Inserted(f, ref)
  BY DEF RelationsOf
<1>2. q.target = ref.target /\ q.to = IF ref.target = None THEN <<f, ref.to>> ELSE None
  BY <1>1 DEF Inserted
<1> QED BY <1>2 DEF Covered, Unresolved

LEMMA FreshHasSource ==
  ASSUME TypeOK, NEW q \in Fresh, NEW r \in Usable(q, stored, revision)
  PROVE  \E f : Source(r, q, f)
<1>1. PICK f \in Files : stored[f] # Absent /\ q \in RelationsOf(f, stored[f])
  BY DEF Fresh
<1>2. stored[f] \in Contents
  BY <1>1 DEF TypeOK
<1> QED BY <1>1, <1>2 DEF Source

LEMMA RelationHasSource ==
  ASSUME TypeOK, NothingStaleNothingLost, NEW r \in relations
  PROVE  \E q, f : Source(r, q, f)
<1>1. PICK q \in Fresh : r \in Usable(q, stored, revision)
  BY DEF NothingStaleNothingLost
<1> QED BY <1>1, FreshHasSource

\* What has been settled may be used.
LEMMA SettledIsUsable ==
  ASSUME NEW q, NEW files, NEW facts
  PROVE  Settled(q, files, facts) \subseteq Usable(q, files, facts)
BY DEF Settled, Usable

\* A relation that was linked, to a symbol that may answer it.
LinkedTo(r, q, h) ==
  /\ r # q /\ Unresolved(q) /\ ~Unresolved(r)
  /\ r.to = h /\ r = Linked(q, h)
  /\ h \in Declared(stored) \ {q.from} /\ MayAnswer(h, q, revision)
  /\ Covered(q) => Candidates(q, stored, revision) = {h}

\* Linking keeps the source and the keys of a relation, and links it for good.
LEMMA SourceShaped ==
  ASSUME TypeOK, NEW r, NEW q, NEW f, Source(r, q, f)
  PROVE  /\ Shaped(q, f, stored[f])
         /\ r.from[1] = f /\ q.from[1] = f /\ r.keys = q.keys
         /\ q \in Fresh
         /\ r = q \/ \E h : LinkedTo(r, q, h)
<1>1. Shaped(q, f, stored[f]) /\ q \in Fresh
  BY InsertedShaped, ConstantsAssumption DEF Source, Fresh, ConstantsAssumption
<1>2. q.from[1] = f
  BY <1>1 DEF Shaped
<1>3. CASE r = q
  BY <1>1, <1>2, <1>3
<1>4. CASE r # q
  <2>1. PICK h \in Declared(stored) \ {q.from} :
          /\ MayAnswer(h, q, revision) /\ r = Linked(q, h) /\ Unresolved(q)
          /\ Covered(q) => Candidates(q, stored, revision) = {h}
    <3>1. CASE Covered(q)
      <4>1. r = Resolve(q, stored, revision) /\ Unresolved(q)
        BY <1>4, <3>1, ResolvedStays DEF Source, Usable
      <4>2. \E h : /\ Candidates(q, stored, revision) = {h}
                   /\ r = [q EXCEPT !.to = h, !.target = None]
        BY <1>4, <4>1 DEF Resolve
      <4>3. PICK h : /\ Candidates(q, stored, revision) = {h}
                     /\ r = [q EXCEPT !.to = h, !.target = None]
        BY <4>2
      <4>4. h \in Found(q, Declared(stored) \ {q.from}, revision)
        BY <4>3 DEF Candidates, PreferOwner
      <4>5. h \in Declared(stored) \ {q.from} /\ MayAnswer(h, q, revision)
        BY <4>4, FoundMatches
      <4> QED BY <4>1, <4>3, <4>5 DEF Linked
    <3>2. CASE ~Covered(q)
      <4>1. Unresolved(q)
        BY <3>2, InsertedIsCovered DEF Source
      <4> QED BY <1>4, <3>2, <4>1 DEF Source, Usable, Possible
    <3> QED BY <3>1, <3>2
  <2>2. r.from = q.from /\ r.keys = q.keys /\ r.to = h
    BY <1>1, <2>1 DEF Shaped, Linked
  <2>3. h # None
    BY <2>1, DeclaredIs, HandleIsSome DEF TypeOK
  <2>4. LinkedTo(r, q, h)
    BY <1>4, <2>1, <2>2, <2>3 DEF LinkedTo, Unresolved
  <2> QED BY <1>1, <1>2, <2>2, <2>4
<1> QED BY <1>3, <1>4

\* Resolving gives the target itself or the only candidate.
LEMMA ResolveIsSettled ==
  ASSUME NEW q, NEW files, NEW facts
  PROVE  Resolve(q, files, facts) \in Settled(q, files, facts)
<1>1. CASE Covered(q)
  BY <1>1 DEF Settled
<1>2. CASE ~Covered(q)
  <2>1. CASE Resolve(q, files, facts) = q
    BY <1>2, <2>1 DEF Settled, Possible
  <2>2. CASE Resolve(q, files, facts) # q
    <3>1. PICK h : /\ h \in Candidates(q, files, facts)
                   /\ Resolve(q, files, facts) = [q EXCEPT !.to = h, !.target = None]
      BY <2>2 DEF Resolve
    <3>2. h \in Found(q, Declared(files) \ {q.from}, facts)
      BY <3>1 DEF Candidates, PreferOwner
    <3>3. h \in Declared(files) \ {q.from} /\ MayAnswer(h, q, facts)
      BY <3>2, FoundMatches
    <3> QED BY <1>2, <3>1, <3>3 DEF Settled, Possible, Linked
  <2> QED BY <2>1, <2>2
<1> QED BY <1>1, <1>2

\* What linking makes of a relation.
AfterLink(r) == IF InScope(r) THEN Resolve(r, stored, revision) ELSE r

\* Linking settles every relation.
LEMMA LinkSettles ==
  ASSUME TypeOK, ScopeIsEnough, run.step = "link",
         NEW r \in relations, NEW q, NEW f, Source(r, q, f)
  PROVE  AfterLink(r) \in Settled(q, stored, revision)
<1>1. CASE r = q
  <2>1. CASE Covered(q)
    BY <1>1, <2>1, ResolveIsSettled DEF AfterLink, ScopeIsEnough
  <2>2. CASE ~Covered(q)
    <3>1. q \in Settled(q, stored, revision)
      BY <2>2 DEF Settled, Possible
    <3> QED BY <1>1, <3>1, ResolveIsSettled DEF AfterLink
  <2> QED BY <2>1, <2>2
<1>2. CASE r # q
  <2>1. ~Unresolved(r)
    BY <1>2, SourceShaped DEF LinkedTo
  <2>2. AfterLink(r) = r
    BY <2>1, ResolvedStays DEF AfterLink
  <2>3. r \in Settled(q, stored, revision)
    BY <1>2 DEF Source, Usable, Settled
  <2> QED BY <2>2, <2>3
<1> QED BY <1>1, <1>2

\* Linking leaves the relations a rebuild leaves.
LEMMA LinkRebuilds ==
  ASSUME Inv, Link
  PROVE  AllSettled'
<1>1. relations' = {AfterLink(r) : r \in relations} /\ run.step = "link"
  BY DEF Link, AfterLink
<1>2. Fresh' = Fresh /\ stored' = stored /\ revision' = revision
  BY DEF Link, Fresh
<1>3. TypeOK /\ ScopeIsEnough /\ NothingStaleNothingLost
  BY DEF Inv
<1>4. ASSUME NEW r \in relations'
      PROVE  \E q \in Fresh : r \in Settled(q, stored, revision)
  <2>1. PICK p \in relations : r = AfterLink(p)
    BY <1>1
  <2>2. PICK q, f : Source(p, q, f)
    BY <1>3, RelationHasSource
  <2>3. q \in Fresh
    BY <1>3, <2>2, SourceShaped
  <2> QED BY <1>1, <1>3, <2>1, <2>2, <2>3, LinkSettles
<1>5. ASSUME NEW q \in Fresh
      PROVE  Settled(q, stored, revision) \cap relations' # {}
  <2>1. PICK r \in relations : r \in Usable(q, stored, revision)
    BY <1>3 DEF NothingStaleNothingLost
  <2>2. PICK f : Source(r, q, f)
    BY <1>3, <2>1, FreshHasSource
  <2>3. AfterLink(r) \in Settled(q, stored, revision)
    BY <1>1, <1>3, <2>2, LinkSettles
  <2> QED BY <1>1, <2>3
<1> QED BY <1>2, <1>4, <1>5 DEF AllSettled

-----------------------------------------------------------------------------
(* Applying the changes                                                    *)

\* A stored file that is not touched is none that was extracted again.
LEMMA TouchedFiles ==
  ASSUME TypeOK, NEW full \in BOOLEAN, Apply(full)
  PROVE  /\ Updated(full) \subseteq Files /\ Dropped(full) \subseteq Files
         /\ \A f \in Updated(full) : tree[f] \in Contents \ Broken
         /\ \A f \in Files : stored'[f] = IF f \in Updated(full) THEN tree[f]
                                          ELSE IF f \in Dropped(full) THEN Absent ELSE stored[f]
         /\ stored' \in [Files -> (Contents \ Broken) \cup {Absent}]
         /\ \A f \in Files : f \notin Touched(full) /\ stored[f] # Absent =>
              ~Reindex(full) /\ f \notin WithDependents(Changed \cup Deleted)
         /\ ~Reindex(full) => Touched(full) \subseteq WithDependents(Changed \cup Deleted)
<1> DEFINE parsed == Parsed(Reindex(full))
<1>1. parsed \subseteq Current /\ Current \subseteq Files /\ Deleted \subseteq Files
  BY DEF Parsed, Current, Deleted
<1>2. /\ Updated(full) = {f \in parsed : tree[f] \notin Broken}
      /\ Dropped(full) = Deleted \cup {f \in parsed \ Updated(full) : stored[f] # Absent}
  BY DEF Updated, Updates, Dropped, Deletions
<1>3. \A f \in Updated(full) : tree[f] \in Contents \ Broken
  BY <1>1, <1>2 DEF Current, TypeOK
<1>4. Updated(full) \subseteq Files /\ Dropped(full) \subseteq Files
  BY <1>1, <1>2
<1>5. \A f \in Files : stored'[f] = IF f \in Updated(full) THEN tree[f]
                                    ELSE IF f \in Dropped(full) THEN Absent ELSE stored[f]
  BY DEF Apply
<1>6. stored' \in [Files -> (Contents \ Broken) \cup {Absent}]
  BY <1>3, <1>4 DEF Apply, TypeOK
<1>7. ASSUME NEW f \in Files, f \notin Touched(full), stored[f] # Absent
      PROVE  f \notin parsed /\ f \in Current
  BY <1>2, <1>7 DEF Touched, Current, Deleted
<1>8. \A f \in Files : f \notin Touched(full) /\ stored[f] # Absent =>
        ~Reindex(full) /\ f \notin WithDependents(Changed \cup Deleted)
  BY <1>7 DEF Parsed
<1>9. ASSUME ~Reindex(full)
      PROVE  Touched(full) \subseteq WithDependents(Changed \cup Deleted)
  <2>1. Changed \cup Deleted \in SUBSET Files
    BY DEF Changed, Current, Deleted
  <2>2. Deleted \subseteq WithDependents(Changed \cup Deleted)
    BY <2>1, DependentsClosed DEF TypeOK
  <2> QED BY <1>2, <1>9, <2>2 DEF Parsed, Touched
<1> QED BY <1>3, <1>4, <1>5, <1>6, <1>8, <1>9

\* What is not extracted again neither loses its target nor gains a competitor.
LEMMA UntouchedStable ==
  ASSUME Inv, NEW full \in BOOLEAN, Apply(full),
         NEW r \in relations, NEW q, NEW f, Source(r, q, f), f \notin Touched(full)
  PROVE  /\ ~Reindex(full) /\ revision' = revision /\ revision \in Manifests
         /\ r \in relations'
         /\ q \in Fresh'
         /\ r \in Usable(q, stored', revision')
         /\ Apart(q, stored, stored', Touched(full))
<1> DEFINE all == WithDependents(Changed \cup Deleted)
<1>1. /\ Shaped(q, f, stored[f])
      /\ r.from[1] = f /\ r.keys = q.keys
      /\ r = q \/ LinkedTo(r, q, r.to)
  BY SourceShaped DEF Inv, LinkedTo
<1>2. f \in Files /\ stored[f] \in Contents /\ stored[f] # Absent
  BY ConstantsAssumption DEF Source, ConstantsAssumption
<1>3. ~Reindex(full) /\ f \notin all
  BY <1>2, TouchedFiles DEF Inv
<1>4. /\ Incoming(all) \subseteq all /\ Competing(all) \subseteq all
      /\ Touched(full) \subseteq all
  <2>1. Changed \cup Deleted \in SUBSET Files
    BY DEF Changed, Current, Deleted
  <2> QED BY <1>3, <2>1, DependentsClosed, TouchedFiles DEF Inv, TypeOK
<1>5. revision' = revision /\ revision \in Manifests
  BY <1>2, <1>3 DEF Apply, Reindex, Inv
<1>6. ~Unresolved(r) => r.to[1] \notin Touched(full)
  BY <1>1, <1>3, <1>4 DEF Incoming
<1>7. r \in relations'
  BY <1>1, <1>6 DEF Apply, Untouched
<1>8. stored'[f] = stored[f] /\ q \in Fresh'
  <2>1. stored'[f] = stored[f]
    BY <1>2, TouchedFiles DEF Inv, Touched
  <2> QED BY <1>2, <2>1 DEF Fresh, Source
<1>9. ASSUME NEW e \in Updated(full)
      PROVE  q.keys \cap PathKeys(e, tree[e]) = {}
  <2>1. e \in all /\ tree[e] \notin Broken \cup {Absent}
    <3>1. e \in all
      BY <1>4 DEF Touched
    <3>2. tree[e] \in Contents \ Broken
      BY TouchedFiles DEF Inv
    <3> QED BY <3>1, <3>2, ConstantsAssumption DEF ConstantsAssumption
  <2>2. q.keys \cap ExtractionKeys(e, tree[e]) = {}
    <3>1. r.from[1] \notin Competing(all)
      BY <1>1, <1>3, <1>4
    <3>2. \A k \in ExtractionKeys(e, tree[e]) : k \notin r.keys
      BY <2>1, <3>1, Zenon DEF Competing
    <3> QED BY <1>1, <3>2
  <2> QED BY <2>2 DEF ExtractionKeys
<1>10. Apart(q, stored, stored', Touched(full))
  <2>1. /\ stored \in [Files -> Contents \cup {Absent}]
        /\ stored' \in [Files -> Contents \cup {Absent}]
    BY TouchedFiles DEF Inv, TypeOK
  <2>2. \A e \in Files \ Touched(full) : stored'[e] = stored[e]
    BY TouchedFiles DEF Inv, Touched
  <2>3. \A e \in Touched(full) : stored'[e] # Absent => e \in Updated(full) /\ stored'[e] = tree[e]
    BY TouchedFiles DEF Inv, Touched
  <2> QED BY <1>9, <2>1, <2>2, <2>3 DEF Apart
<1>11. r \in Usable(q, stored', revision')
  <2>1. CASE r = q
    BY <2>1 DEF Usable, Possible
  <2>2. CASE r # q /\ Covered(q)
    <3>1. /\ Unresolved(q) /\ Candidates(q, stored, revision) = {r.to}
          /\ r.to[1] \notin Touched(full) /\ r = Linked(q, r.to)
      BY <1>1, <1>6, <2>2 DEF LinkedTo
    <3>2. Candidates(q, stored', revision) = {r.to}
      <4>1. \A h : Candidates(q, stored, revision) = {h} /\ h[1] \notin Touched(full)
                     => Candidates(q, stored', revision) = {h}
        BY <1>1, <1>2, <1>5, <1>10, <2>2, <3>1, CandidatesStable
      <4> QED BY <3>1, <4>1
    <3>3. Resolve(q, stored', revision) = r
      BY <3>1, <3>2 DEF Resolve, Linked
    <3> QED BY <1>5, <2>2, <3>3 DEF Usable
  <2>3. CASE r # q /\ ~Covered(q)
    <3>1. /\ r = Linked(q, r.to) /\ r.to[1] \notin Touched(full)
          /\ r.to \in Declared(stored) \ {q.from} /\ MayAnswer(r.to, q, revision)
      BY <1>1, <1>6, <2>3 DEF LinkedTo
    <3>2. r.to \in Declared(stored')
      <4>1. PICK e \in Files : stored[e] \in Contents /\ r.to \in Handles(e, stored[e])
        BY <1>10, <3>1, DeclaredIs DEF Apart
      <4>2. r.to[1] = e
        BY <4>1, HandleIsSome
      <4>3. stored'[e] = stored[e]
        BY <1>10, <3>1, <4>2 DEF Apart
      <4> QED BY <1>10, <4>1, <4>3, DeclaredIs DEF Apart
    <3> QED BY <1>5, <2>3, <3>1, <3>2 DEF Usable, Possible
  <2> QED BY <2>1, <2>2, <2>3
<1> QED BY <1>3, <1>5, <1>7, <1>8, <1>10, <1>11

LEMMA ApplyStale ==
  ASSUME Inv, NEW full \in BOOLEAN, Apply(full)
  PROVE  NothingStaleNothingLost'
<1>1. ASSUME NEW f \in Updated(full)
      PROVE  RelationsOf(f, tree[f]) \subseteq Fresh' /\ RelationsOf(f, tree[f]) \subseteq relations'
  <2>1. f \in Files /\ stored'[f] = tree[f] /\ stored'[f] # Absent
    BY TouchedFiles, ConstantsAssumption DEF Inv, ConstantsAssumption
  <2> QED BY <2>1 DEF Fresh, Apply
<1>2. ASSUME NEW r \in relations'
      PROVE  \E q \in Fresh' : r \in Usable(q, stored', revision')
  <2>1. CASE \E f \in Updated(full) : r \in RelationsOf(f, tree[f])
    <3>1. r \in Fresh' /\ r \in Usable(r, stored', revision')
      BY <1>1, <2>1 DEF Usable, Possible
    <3> QED BY <3>1
  <2>2. CASE r \in Untouched(Touched(full))
    <3>1. r \in relations /\ r.from[1] \notin Touched(full)
      BY <2>2 DEF Untouched
    <3>2. PICK q, f : Source(r, q, f)
      BY <3>1, RelationHasSource DEF Inv
    <3>3. f \notin Touched(full)
      BY <3>1, <3>2, SourceShaped DEF Inv
    <3>4. q \in Fresh' /\ r \in Usable(q, stored', revision')
      BY <3>1, <3>2, <3>3, UntouchedStable
    <3> QED BY <3>4
  <2> QED BY <2>1, <2>2 DEF Apply
<1>3. ASSUME NEW q \in Fresh'
      PROVE  Usable(q, stored', revision') \cap relations' # {}
  <2>1. PICK f \in Files : stored'[f] # Absent /\ q \in RelationsOf(f, stored'[f])
    BY DEF Fresh
  <2>2. CASE f \in Updated(full)
    <3>1. stored'[f] = tree[f]
      BY <2>2, TouchedFiles DEF Inv
    <3>2. q \in relations' /\ q \in Usable(q, stored', revision')
      BY <1>1, <2>1, <2>2, <3>1 DEF Usable, Possible
    <3> QED BY <3>2
  <2>3. CASE f \notin Updated(full)
    <3>1. f \notin Touched(full) /\ stored'[f] = stored[f]
      BY <2>1, <2>3, TouchedFiles DEF Inv, Touched
    <3>2. stored[f] \in Contents /\ q \in Fresh
      BY <2>1, <3>1 DEF Fresh, Inv, TypeOK
    <3>3. PICK r \in relations : r \in Usable(q, stored, revision)
      BY <3>2 DEF Inv, NothingStaleNothingLost
    <3>4. Source(r, q, f)
      BY <2>1, <3>1, <3>2, <3>3 DEF Source
    <3>5. r \in relations' /\ r \in Usable(q, stored', revision')
      BY <3>1, <3>4, UntouchedStable
    <3> QED BY <3>5
  <2> QED BY <2>2, <2>3
<1> QED BY <1>2, <1>3 DEF NothingStaleNothingLost

\* A full pass looks at everything that can be resolved.
LEMMA FullScope ==
  ASSUME NEW files \in [Files -> Contents \cup {Absent}],
         NEW g \in Files, NEW r, Unresolved(r), Covered(r), NEW c \in Contents, Shaped(r, g, c),
         \A f \in Files : files[f] # Absent => r.keys \cap PathKeys(f, files[f]) = {}
  PROVE  Resolve(r, files, NoFacts) = r
<1>1. ASSUME NEW h, Candidates(r, files, NoFacts) = {h}
      PROVE  FALSE
  <2>1. h \in Declared(files) /\ MayAnswer(h, r, NoFacts)
    BY <1>1, FoundMatches DEF Candidates, PreferOwner
  <2>2. PICK f \in Files : files[f] \in Contents /\ h \in Handles(f, files[f])
    BY <2>1, DeclaredIs
  <2>3. NoFacts \in Manifests
    BY ConstantsAssumption DEF ConstantsAssumption
  <2>4. r.keys \cap PathKeys(f, files[f]) # {}
    BY <2>1, <2>2, <2>3, MatchesShareKeys
  <2>5. files[f] # Absent
    BY <2>2, ConstantsAssumption DEF ConstantsAssumption
  <2> QED BY <2>4, <2>5
<1> QED BY <1>1 DEF Resolve

\* Before linking, a covered, unresolved relation out of the scope of the linking has
\* no target to find.
LEMMA ApplyScope ==
  ASSUME Inv, NEW full \in BOOLEAN, Apply(full)
  PROVE  ScopeIsEnough'
<1> SUFFICES ASSUME NEW r \in relations', Covered(r), ~(InScope(r)')
             PROVE  Resolve(r, stored', revision') = r
  BY DEF ScopeIsEnough
<1>1. CASE ~Unresolved(r)
  BY <1>1, ResolvedStays
<1>2. CASE Unresolved(r)
  <2>1. /\ stored' \in [Files -> Contents \cup {Absent}]
        /\ revision' = manifest /\ manifest \in Manifests
        /\ run'.full = (Reindex(full) \/ pending)
        /\ run'.paths = Touched(full)
        /\ OldKeys(Touched(full)) \subseteq run'.keys
    BY TouchedFiles DEF Inv, TypeOK, Apply
  <2>2. \/ \E f \in Updated(full) : r \in RelationsOf(f, tree[f])
        \/ \E f \in Files : Source(r, r, f) /\ f \notin Touched(full)
    <3>1. CASE r \in Untouched(Touched(full))
      <4>1. r \in relations /\ r.from[1] \notin Touched(full)
        BY <3>1 DEF Untouched
      <4>2. PICK q, f : Source(r, q, f)
        BY <4>1, RelationHasSource DEF Inv
      <4>3. r = q /\ f = r.from[1] /\ f \in Files
        BY <1>2, <4>2, SourceShaped DEF Inv, Source, LinkedTo
      <4> QED BY <4>1, <4>2, <4>3
    <3> QED BY <3>1 DEF Apply
  <2>3. CASE run'.full
    <3>1. PICK g \in Files : \E c \in Contents : Shaped(r, g, c)
      <4>1. ASSUME NEW f \in Updated(full), r \in RelationsOf(f, tree[f])
            PROVE  f \in Files /\ tree[f] \in Contents /\ Shaped(r, f, tree[f])
        BY <4>1, TouchedFiles, InsertedShaped DEF Inv
      <4>2. ASSUME NEW f \in Files, Source(r, r, f)
            PROVE  stored[f] \in Contents /\ Shaped(r, f, stored[f])
        BY <4>2, InsertedShaped DEF Source
      <4> QED BY <2>2, <4>1, <4>2
    <3>2. PICK c \in Contents : Shaped(r, g, c)
      BY <3>1
    <3>3. revision' = NoFacts
      BY <2>3 DEF InScope
    <3>4. \A f \in Files : stored'[f] # Absent => r.keys \cap PathKeys(f, stored'[f]) = {}
      BY <2>3 DEF InScope, Projected
    <3> QED BY <1>2, <2>1, <3>2, <3>3, <3>4, FullScope
  <2>4. CASE ~run'.full
    <3>1. r.from[1] \notin Touched(full) /\ r.keys \cap OldKeys(Touched(full)) = {}
      BY <2>1, <2>4 DEF InScope
    <3>2. ~(\E f \in Updated(full) : r \in RelationsOf(f, tree[f]))
      <4>1. ASSUME NEW f \in Updated(full), r \in RelationsOf(f, tree[f])
            PROVE  r.from[1] \in Touched(full)
        <5>1. f \in Files /\ tree[f] \in Contents
          BY TouchedFiles DEF Inv
        <5>2. r.from[1] = f
          BY <4>1, <5>1, InsertedShaped DEF Shaped
        <5> QED BY <5>2 DEF Touched
      <4> QED BY <3>1, <4>1
    <3>3. PICK f \in Files : Source(r, r, f) /\ f \notin Touched(full)
      BY <2>2, <3>2
    <3>4. r \in relations /\ Shaped(r, f, stored[f]) /\ stored[f] \in Contents
      <4>1. r \in relations
        BY <3>2 DEF Apply, Untouched
      <4> QED BY <3>3, <4>1, InsertedShaped DEF Source
    <3>5. /\ revision' = revision /\ revision \in Manifests
          /\ Apart(r, stored, stored', Touched(full))
      BY <3>3, <3>4, UntouchedStable
    <3>6. Resolve(r, stored, revision) = r
      <4>1. PICK q \in Fresh : r \in Settled(q, stored, revision)
        BY <2>1, <2>4, <3>4 DEF Apply, Inv, UpdateIsRebuild
      <4>2. PICK e : Source(r, q, e)
        BY <4>1, SettledIsUsable, FreshHasSource DEF Inv
      <4>3. r = q
        BY <1>2, <4>2, SourceShaped DEF Inv, LinkedTo
      <4> QED BY <4>1, <4>3 DEF Settled
    <3>7. ~(\E e \in Files : /\ e \in Touched(full) /\ stored[e] \in Contents
                             /\ r.keys \cap PathKeys(e, stored[e]) # {})
      BY <3>1, ConstantsAssumption DEF OldKeys, ConstantsAssumption
    <3>8. Candidates(r, stored', revision) = Candidates(r, stored, revision)
      BY <1>2, <3>4, <3>5, <3>7, CandidatesStable
    <3> QED BY <3>5, <3>6, <3>8 DEF Resolve
  <2> QED BY <2>3, <2>4
<1> QED BY <1>1, <1>2

\* What an applied update leaves.
LEMMA ApplyInv ==
  ASSUME Inv, NEW full \in BOOLEAN, Apply(full)
  PROVE  Inv'
<1>1. run'.step = "link" /\ pending' /\ revision' \in Manifests
  BY DEF Apply, Inv, TypeOK
<1>2. ASSUME NEW r \in relations'
      PROVE  r.from[1] \in Files
  <2>1. CASE r \in relations
    BY <2>1 DEF Inv, TypeOK
  <2>2. CASE r \notin relations
    <3>1. PICK f \in Updated(full) : r \in RelationsOf(f, tree[f])
      BY <2>2 DEF Apply, Untouched
    <3>2. f \in Files /\ tree[f] \in Contents
      BY TouchedFiles DEF Inv
    <3> QED BY <3>1, <3>2, InsertedShaped DEF Shaped
  <2> QED BY <2>1, <2>2
<1>3. stored' \in [Files -> (Contents \ Broken) \cup {Absent}]
  BY TouchedFiles DEF Inv
<1>4. TypeOK'
  BY <1>1, <1>2, <1>3 DEF Apply, Inv, TypeOK
<1>5. run' # Idle
  BY <1>1 DEF Idle
<1> QED BY <1>1, <1>4, <1>5, ApplyStale, ApplyScope DEF Inv, RunOK, UpdateIsRebuild

\* Only an update changes what the index is compared with.
LEMMA IndexUnchanged ==
  ASSUME UNCHANGED <<stored, relations, revision>>
  PROVE  /\ Fresh' = Fresh
         /\ AllSettled => AllSettled'
         /\ NothingStaleNothingLost => NothingStaleNothingLost'
BY DEF Fresh, AllSettled, NothingStaleNothingLost

LEMMA LinkInv ==
  ASSUME Inv, Link
  PROVE  Inv'
<1>1. /\ AllSettled' /\ UNCHANGED <<tree, manifest, stored, revision, pending>>
      /\ run' = [step |-> "linked"] /\ pending
  BY LinkRebuilds DEF Link, Inv, RunOK, Idle
<1>2. NothingStaleNothingLost'
  BY <1>1, SettledIsUsable DEF NothingStaleNothingLost, AllSettled
<1>3. ASSUME NEW r \in relations'
      PROVE  r.from[1] \in Files
  <2>1. PICK p \in relations : r = AfterLink(p)
    BY DEF Link, AfterLink
  <2>2. PICK q, f : Source(p, q, f)
    BY RelationHasSource DEF Inv
  <2>3. r \in Usable(q, stored, revision)
    BY <2>1, <2>2, LinkSettles, SettledIsUsable DEF Link, Inv
  <2>4. Source(r, q, f)
    BY <2>2, <2>3 DEF Source
  <2>5. r.from[1] = f
    BY <2>4, SourceShaped DEF Inv
  <2> QED BY <2>4, <2>5 DEF Source
<1>4. TypeOK'
  BY <1>1, <1>3 DEF Inv, TypeOK
<1>5. run' # Idle /\ run'.step # "link"
  BY <1>1 DEF Idle
<1>6. \A f \in Files : stored'[f] # Absent => revision' \in Manifests
  BY <1>1 DEF Inv
<1> QED BY <1>1, <1>2, <1>4, <1>5, <1>6
     DEF Inv, RunOK, ScopeIsEnough, UpdateIsRebuild

\* Every step keeps the invariant.
LEMMA NextInv ==
  ASSUME Inv, [Next]_vars
  PROVE  Inv'
<1>1. CASE (\E f \in Files : Edit(f)) \/ EditManifest
  <2>1. UNCHANGED <<stored, relations, revision, pending, run>> /\ run = Idle
    BY <1>1 DEF Edit, EditManifest
  <2>2. tree' \in [Files -> Contents \cup {Absent}] /\ manifest' \in Manifests
    BY <1>1, ConstantsAssumption
       DEF Edit, EditManifest, Inv, TypeOK, ConstantsAssumption
  <2>3. TypeOK'
    BY <2>1, <2>2 DEF Inv, TypeOK
  <2>4. NothingStaleNothingLost' /\ UpdateIsRebuild'
    BY <2>1, IndexUnchanged DEF Inv, UpdateIsRebuild, AllSettled
  <2> QED BY <2>1, <2>3, <2>4 DEF Inv, RunOK, ScopeIsEnough, Idle
<1>2. CASE \E full \in BOOLEAN : Apply(full)
  BY <1>2, ApplyInv
<1>3. CASE Link
  BY <1>3, LinkInv
<1>4. CASE Finish \/ Interrupt
  <2>1. /\ UNCHANGED <<tree, manifest, stored, relations, revision>>
        /\ run # Idle /\ run' = Idle /\ pending' \in BOOLEAN
        /\ ~pending' => run.step = "linked"
    <3>1. CASE Finish
      <4>1. run.step = "linked" /\ pending' = FALSE /\ run' = Idle
        BY <3>1 DEF Finish
      <4>2. run # Idle
        BY <4>1 DEF Idle
      <4> QED BY <3>1, <4>1, <4>2 DEF Finish
    <3>2. CASE Interrupt
      <4>1. pending' = pending /\ pending = TRUE
        BY <3>2 DEF Interrupt, Inv, RunOK, TypeOK
      <4> QED BY <3>2, <4>1 DEF Interrupt
    <3> QED BY <1>4, <3>1, <3>2
  <2>2. TypeOK'
    BY <2>1 DEF Inv, TypeOK, Idle
  <2>3. NothingStaleNothingLost' /\ UpdateIsRebuild'
    BY <2>1, IndexUnchanged DEF Inv, UpdateIsRebuild, AllSettled
  <2> QED BY <2>1, <2>2, <2>3 DEF Inv, RunOK, ScopeIsEnough, Idle
<1>5. CASE UNCHANGED vars
  <2>1. /\ UNCHANGED <<tree, manifest, stored, relations, revision, pending, run>>
        /\ AllSettled => AllSettled'
        /\ NothingStaleNothingLost => NothingStaleNothingLost'
    BY <1>5, IndexUnchanged DEF vars
  <2>2. \A r : InScope(r)' = InScope(r)
    BY <2>1 DEF InScope, Projected
  <2>3. TypeOK' /\ UpdateIsRebuild'
    BY <2>1 DEF Inv, TypeOK, UpdateIsRebuild, AllSettled
  <2>4. ScopeIsEnough'
    BY <2>1, <2>2 DEF Inv, ScopeIsEnough
  <2> QED BY <2>1, <2>3, <2>4 DEF Inv, RunOK
<1> QED BY <1>1, <1>2, <1>3, <1>4, <1>5 DEF Next

LEMMA ApplyTakesTheTree ==
  ASSUME TypeOK, NEW full \in BOOLEAN, Apply(full), NEW f \in Files
  PROVE  stored'[f] = IF tree[f] \in Broken THEN Absent ELSE tree[f]
<1> DEFINE parsed == Parsed(Reindex(full))
<1>1. /\ Updated(full) = {g \in parsed : tree[g] \notin Broken}
      /\ Dropped(full) = Deleted \cup {g \in parsed \ Updated(full) : stored[g] # Absent}
  BY DEF Updated, Updates, Dropped, Deletions
<1>2. Changed \subseteq parsed /\ parsed \subseteq Current
  <2>1. Changed \cup Deleted \in SUBSET Files /\ Changed \subseteq Current
    BY DEF Changed, Current, Deleted
  <2>2. Changed \subseteq WithDependents(Changed \cup Deleted)
    BY <2>1, DependentsClosed DEF TypeOK
  <2> QED BY <2>1, <2>2 DEF Parsed
<1>3. stored'[f] = IF f \in Updated(full) THEN tree[f]
                   ELSE IF f \in Dropped(full) THEN Absent ELSE stored[f]
  BY TouchedFiles
<1>4. Absent \notin Broken /\ stored[f] \notin Broken
  BY ConstantsAssumption DEF ConstantsAssumption, TypeOK
<1>5. CASE f \in Updated(full)
  BY <1>1, <1>3, <1>5
<1>6. CASE f \notin Updated(full) /\ f \in Dropped(full)
  BY <1>1, <1>3, <1>4, <1>6 DEF Deleted
<1>7. CASE f \notin Updated(full) /\ f \notin Dropped(full)
  <2>1. tree[f] = Absent => stored[f] = Absent
    BY <1>1, <1>7 DEF Deleted
  <2>2. tree[f] # Absent /\ tree[f] # stored[f] => f \in parsed
    BY <1>2 DEF Changed, Current
  <2> QED BY <1>1, <1>3, <1>4, <1>7, <2>1, <2>2
<1> QED BY <1>5, <1>6, <1>7

-----------------------------------------------------------------------------
(* The theorems                                                            *)

\* The invariant holds always, whatever the keys cover.
THEOREM InvHolds == Spec => []Inv
<1>1. Inv /\ [Next]_vars => Inv'
  BY NextInv
<1> QED BY InitInv, <1>1, PTL DEF Spec

\* Every stored row is the content of a file that could be extracted, every
\* relation starts at a file, and the run is at a step.
THEOREM TypeCorrect == Spec => []TypeOK
<1>1. Inv => TypeOK
  BY DEF Inv
<1> QED BY InvHolds, <1>1, PTL

\* An update that completed left the relations a rebuild of the same files
\* leaves, whatever it reused and whatever keys the store computes: the second
\* extraction pass and the link scope of RunWithProgress leave out nothing that
\* could have changed.  A relation whose target's keys do not cover what may
\* answer it is there, unresolved or linked to a stored symbol that may answer.
THEOREM IncrementalIsRebuild == Spec => []UpdateIsRebuild
<1>1. Inv => UpdateIsRebuild
  BY DEF Inv
<1> QED BY InvHolds, <1>1, PTL

\* At any time, interrupted updates and the time between the commit of the
\* files and the end of linking included, no relation is lost, none leads to a
\* symbol that is gone, and none with a covered target is stale.
THEOREM AlwaysUsable == Spec => []NothingStaleNothingLost
<1>1. Inv => NothingStaleNothingLost
  BY DEF Inv
<1> QED BY InvHolds, <1>1, PTL

\* Where the keys of every target cover what may answer it, as the repository's
\* test of updates takes for granted, that is equality with the rebuild.
THEOREM CoveringKeysGiveEquality == KeysCover /\ Spec => []IncrementalEqualsRebuild
<1> SUFFICES ASSUME KeysCover PROVE Spec => []IncrementalEqualsRebuild
  OBVIOUS
<1>1. ASSUME Inv PROVE IncrementalEqualsRebuild
  <2> SUFFICES ASSUME run = Idle, ~pending PROVE relations = Rebuilt
    BY DEF IncrementalEqualsRebuild
  <2>1. ASSUME NEW q \in Fresh PROVE Settled(q, stored, revision) = {Resolve(q, stored, revision)}
    <3>1. PICK f : Source(q, q, f)
      BY <1>1, FreshHasSource DEF Inv, Usable, Possible
    <3>2. Shaped(q, f, stored[f])
      BY <1>1, <3>1, SourceShaped DEF Inv
    <3>3. Covered(q)
      <4>1. CASE Unresolved(q)
        BY <3>2, <4>1 DEF KeysCover, Covered, Shaped
      <4>2. CASE ~Unresolved(q)
        BY <3>1, <4>2, InsertedIsCovered DEF Source
      <4> QED BY <4>1, <4>2
    <3> QED BY <3>3 DEF Settled
  <2>2. relations \subseteq Rebuilt
    BY <1>1, <2>1 DEF Inv, UpdateIsRebuild, Rebuilt
  <2>3. ASSUME NEW q \in Fresh PROVE Resolve(q, stored, revision) \in relations
    BY <1>1, <2>1 DEF Inv, UpdateIsRebuild
  <2> QED BY <2>2, <2>3 DEF Rebuilt
<1> QED BY InvHolds, <1>1, PTL

\* An update that commits leaves exactly the files of the scanned tree that
\* could be extracted, whatever was extracted again.
THEOREM CommitTakesTheTree == Spec => TakesTheTree
<1>1. TypeOK /\ [Next]_vars =>
        [run = Idle /\ run' # Idle =>
           \A f \in Files : stored'[f] = IF tree[f] \in Broken THEN Absent ELSE tree[f]]_vars
  <2> SUFFICES ASSUME TypeOK, Next, run = Idle, run' # Idle, NEW f \in Files
               PROVE  stored'[f] = IF tree[f] \in Broken THEN Absent ELSE tree[f]
    OBVIOUS
  <2>1. PICK full \in BOOLEAN : Apply(full)
    BY DEF Next, Edit, EditManifest, Link, Finish, Interrupt, Idle
  <2> QED BY <2>1, ApplyTakesTheTree
<1> QED BY TypeCorrect, <1>1, PTL DEF Spec, TakesTheTree

-----------------------------------------------------------------------------
(* The pool of parsers                                                     *)

\* The workers that have a file, and the files that are somewhere.
Busy == {w \in Pool : worker[w].step \in {"extract", "deliver"}}

\* The results that were taken from the channel.
Collected == {collected[k] : k \in DOMAIN collected}

\* The files that are somewhere.
Underway == {worker[w].file : w \in Busy} \cup {results[k] : k \in DOMAIN results} \cup Collected

\* What was handed out is with a worker, in the channel or collected; only a
\* cancelled worker drops something.
CountInv ==
  /\ Len(collected) + Len(results) + Cardinality(Busy) <= next - 1
  /\ ~cancelled =>
       /\ Len(collected) + Len(results) + Cardinality(Busy) = next - 1
       /\ 1 .. next - 1 \subseteq Underway

\* Who may have gone, and what has ended when.
StageInv ==
  /\ \A w \in Busy : worker[w].file \in File
  /\ ~cancelled /\ main # "send" => next = FileCount + 1
  /\ closed => \A w \in Pool : worker[w] = Gone
  /\ main \in {"check", "used", "abandoned"} => closed /\ results = <<>>
  /\ main = "used" => ~cancelled

\* The inductive invariant of the pool.
PoolInv == PoolTypeOK /\ CountInv /\ StageInv

\* What a worker may be doing.
WorkerRecord == [step : {"select", "extract", "deliver", "gone"}, file : 0 .. FileCount]

\* Busy workers are counted, one more, one fewer.
LEMMA BusyIsFinite ==
  /\ IsFiniteSet(Busy) /\ Cardinality(Busy) \in Nat
  /\ \A w \in Pool \ Busy : Cardinality(Busy \cup {w}) = Cardinality(Busy) + 1
  /\ \A w \in Busy : Cardinality(Busy \ {w}) = Cardinality(Busy) - 1
  <1>1. IsFiniteSet(Pool)
    BY PoolAssumption, FS_Interval DEF Pool
  <1>2. IsFiniteSet(Busy)
    BY <1>1, FS_Subset DEF Busy
  <1> QED BY <1>2, FS_CardinalityType, FS_AddElement, FS_RemoveElement DEF Busy

\* A step of one worker that keeps it busy, or not, and the others as they are.
LEMMA BusyAfter ==
  ASSUME PoolTypeOK, NEW w \in Pool, NEW r \in WorkerRecord,
         worker' = [worker EXCEPT ![w] = r]
  PROVE  /\ r.step \in {"extract", "deliver"} => Busy' = Busy \cup {w}
         /\ r.step \notin {"extract", "deliver"} => Busy' = Busy \ {w}
         /\ worker'[w] = r /\ \A v \in Pool \ {w} : worker'[v] = worker[v]
         /\ worker' \in [Pool -> WorkerRecord]
  BY DEF Busy, PoolTypeOK, WorkerRecord, Pool

\* It holds at first.
LEMMA StartOfPool == InitPool => PoolInv
  <1> SUFFICES ASSUME InitPool PROVE PoolInv
    OBVIOUS
  <1> USE PoolAssumption DEF InitPool, Selecting, Doing
  <1>1. PoolTypeOK
    <2>1. worker \in [Pool -> WorkerRecord]
      BY DEF WorkerRecord
    <2>2. <<>> \in Seq(File) /\ Len(<<>>) = 0
      OBVIOUS
    <2>3. next \in 1 .. FileCount + 1 /\ 0 <= FileCount
      OBVIOUS
    <2> HIDE DEF Selecting
    <2> QED BY <2>1, <2>2, <2>3 DEF PoolTypeOK, WorkerRecord
  <1>2. Busy = {} /\ Cardinality(Busy) = 0
    BY FS_EmptySet DEF Busy
  <1>3. CountInv
    BY <1>2 DEF CountInv
  <1>4. StageInv
    BY <1>2 DEF StageInv
  <1> QED BY <1>1, <1>3, <1>4 DEF PoolInv

\* A file goes from the sender to a worker.
LEMMA HandKeeps ==
  ASSUME PoolInv, NEW w \in Pool, Hand(w)
  PROVE  PoolInv'
  <1> DEFINE r == Doing("extract", next)
  <1> USE PoolAssumption DEF PoolInv
  <1>1. r \in WorkerRecord /\ next \in File /\ r.file = next /\ r.step = "extract"
    BY DEF Hand, WorkerRecord, Doing, PoolTypeOK, File
  <1>2. worker' = [worker EXCEPT ![w] = r] /\ w \notin Busy /\ next' = next + 1
    BY DEF Hand, Busy, Selecting, Doing
  <1>3. Busy' = Busy \cup {w} /\ worker'[w] = r /\ (\A v \in Pool \ {w} : worker'[v] = worker[v])
        /\ worker' \in [Pool -> WorkerRecord]
    BY <1>1, <1>2, BusyAfter DEF Doing
  <1>4. PoolTypeOK'
    BY <1>1, <1>3 DEF Hand, PoolTypeOK, WorkerRecord, Pool, File
  <1>5. Cardinality(Busy') = Cardinality(Busy) + 1 /\ Cardinality(Busy) \in Nat
    BY <1>2, <1>3, BusyIsFinite
  <1>6. ASSUME 1 .. next - 1 \subseteq Underway PROVE (1 .. next - 1 \subseteq Underway)'
    <2>1. \A v \in Busy : v \in Busy' /\ worker'[v].file = worker[v].file
      BY <1>2, <1>3 DEF Busy
    <2>2. Underway \subseteq Underway'
      BY <2>1 DEF Underway, Collected, Hand
    <2>3. next \in Underway'
      BY <1>1, <1>3 DEF Underway
    <2>4. (1 .. next - 1)' \subseteq (1 .. next - 1) \cup {next}
      BY <1>2 DEF PoolTypeOK
    <2> QED BY <1>6, <2>2, <2>3, <2>4
  <1>7. CountInv'
    BY <1>5, <1>6, <1>2 DEF CountInv, Hand, PoolTypeOK
  <1>8. StageInv'
    BY <1>1, <1>3, <1>2 DEF StageInv, Hand, Busy, Selecting, Gone, Doing
  <1> QED BY <1>4, <1>7, <1>8

\* A worker parses what it has.
LEMMA ExtractKeeps ==
  ASSUME PoolInv, NEW w \in Pool, Extract(w)
  PROVE  PoolInv'
  <1> DEFINE r == [worker[w] EXCEPT !.step = "deliver"]
  <1> USE PoolAssumption DEF PoolInv
  <1>1. r \in WorkerRecord /\ r.file = worker[w].file /\ r.step = "deliver"
    BY DEF WorkerRecord, PoolTypeOK
  <1>2. worker' = [worker EXCEPT ![w] = r] /\ w \in Busy
    BY DEF Extract, Busy
  <1>3. Busy' = Busy \cup {w} /\ worker'[w] = r /\ (\A v \in Pool \ {w} : worker'[v] = worker[v])
        /\ worker' \in [Pool -> WorkerRecord]
    BY <1>1, <1>2, BusyAfter
  <1>4. Busy' = Busy /\ \A v \in Busy : worker'[v].file = worker[v].file
    BY <1>1, <1>2, <1>3 DEF Busy
  <1>5. PoolTypeOK'
    BY <1>3 DEF Extract, PoolTypeOK, WorkerRecord, Pool, File
  <1>6. Underway' = Underway
    BY <1>4 DEF Underway, Collected, Extract
  <1>7. CountInv'
    BY <1>4, <1>6 DEF CountInv, Extract
  <1>8. StageInv'
    BY <1>2, <1>3, <1>4 DEF StageInv, Extract, Busy, Gone, Doing, File
  <1> QED BY <1>5, <1>7, <1>8

\* A worker's file goes to the channel.
LEMMA DeliverKeeps ==
  ASSUME PoolInv, NEW w \in Pool, Deliver(w)
  PROVE  PoolInv'
  <1> USE PoolAssumption DEF PoolInv
  <1> DEFINE file == worker[w].file
  <1>1. Selecting \in WorkerRecord /\ Selecting.step = "select"
    BY DEF WorkerRecord, Selecting, Doing
  <1>2. worker' = [worker EXCEPT ![w] = Selecting] /\ w \in Busy /\ file \in File
    BY DEF Deliver, Busy, StageInv
  <1>3. Busy' = Busy \ {w} /\ worker'[w] = Selecting /\ (\A v \in Pool \ {w} : worker'[v] = worker[v])
        /\ worker' \in [Pool -> WorkerRecord]
    BY <1>1, <1>2, BusyAfter
  <1>4. Cardinality(Busy') = Cardinality(Busy) - 1 /\ Cardinality(Busy) \in Nat
    BY <1>2, <1>3, BusyIsFinite
  <1>5. /\ results \in Seq(File) /\ results' = Append(results, file) /\ Len(results') = Len(results) + 1
        /\ results' \in Seq(File) /\ results'[Len(results) + 1] = file
        /\ \A k \in DOMAIN results : k \in DOMAIN results' /\ results'[k] = results[k]
    BY <1>2 DEF Deliver, PoolTypeOK
  <1>6. PoolTypeOK'
    BY <1>3, <1>5 DEF Deliver, PoolTypeOK, WorkerRecord, Pool, File
  <1>7. Underway \subseteq Underway'
    <2>1. {results[k] : k \in DOMAIN results} \cup {file} \subseteq {results'[k] : k \in DOMAIN results'}
      BY <1>5
    <2>2. {worker[v].file : v \in Busy} \subseteq {worker'[v].file : v \in Busy'} \cup {file}
      BY <1>3 DEF Busy
    <2> QED BY <2>1, <2>2 DEF Underway, Collected, Deliver
  <1>8. CountInv'
    BY <1>4, <1>5, <1>7 DEF CountInv, Deliver, PoolTypeOK
  <1>9. StageInv'
    BY <1>2, <1>3 DEF StageInv, Deliver, Busy, Selecting, Gone, Doing
  <1> QED BY <1>6, <1>8, <1>9

\* A worker that leaves drops a file only if the context was cancelled.
LEMMA LeaveKeeps ==
  ASSUME PoolInv, NEW w \in Pool, Leave(w)
  PROVE  PoolInv'
  <1> USE PoolAssumption DEF PoolInv
  <1>1. Gone \in WorkerRecord /\ Gone.step = "gone"
    BY DEF WorkerRecord, Gone, Doing
  <1>2. worker' = [worker EXCEPT ![w] = Gone]
    BY DEF Leave
  <1>3. Busy' = Busy \ {w} /\ worker'[w] = Gone /\ (\A v \in Pool \ {w} : worker'[v] = worker[v])
        /\ worker' \in [Pool -> WorkerRecord]
    BY <1>1, <1>2, BusyAfter
  <1>4. Cardinality(Busy') \in Nat /\ Cardinality(Busy) \in Nat /\ Cardinality(Busy') <= Cardinality(Busy)
    <2>1. CASE w \in Busy
      <3>1. Cardinality(Busy \ {w}) = Cardinality(Busy) - 1
        BY <2>1, BusyIsFinite
      <3>2. IsFiniteSet(Busy \ {w})
        BY BusyIsFinite, FS_Subset
      <3> QED BY <1>3, <3>1, <3>2, BusyIsFinite, FS_CardinalityType
    <2>2. CASE w \notin Busy
      <3>1. Busy' = Busy
        BY <2>2, <1>3
      <3> QED BY <3>1, BusyIsFinite
    <2> QED BY <2>1, <2>2
  <1>5. PoolTypeOK'
    BY <1>3 DEF Leave, PoolTypeOK, WorkerRecord, Pool, File
  <1>6. ~cancelled => Busy' = Busy /\ Underway' = Underway
    <2> SUFFICES ASSUME ~cancelled PROVE Busy' = Busy /\ Underway' = Underway
      OBVIOUS
    <2>1. w \notin Busy
      BY DEF Leave, Busy
    <2>2. Busy' = Busy /\ \A v \in Busy : worker'[v] = worker[v]
      BY <2>1, <1>3 DEF Busy
    <2> QED BY <2>2 DEF Underway, Collected, Leave
  <1>7. CountInv'
    BY <1>4, <1>6 DEF CountInv, Leave, PoolTypeOK
  <1>8. StageInv'
    BY <1>3 DEF StageInv, Leave, Busy, Gone, Doing
  <1> QED BY <1>5, <1>7, <1>8

\* A result goes from the channel to the collector.
LEMMA CollectKeeps ==
  ASSUME PoolInv, Collect
  PROVE  PoolInv'
  <1> USE PoolAssumption DEF PoolInv
  <1>1. Busy' = Busy
    BY DEF Busy, Collect
  <1>2. /\ Len(results') = Len(results) - 1 /\ Len(results') \in Nat /\ results' \in Seq(File)
        /\ \A k \in DOMAIN results \ {1} : k - 1 \in DOMAIN results' /\ results'[k - 1] = results[k]
    <2>1. results \in Seq(File) /\ results # <<>> /\ results' = Tail(results)
      BY DEF Collect, PoolTypeOK
    <2>2. Len(results) \in Nat \ {0} /\ DOMAIN results = 1 .. Len(results)
      BY <2>1
    <2>3. Len(results') = Len(results) - 1 /\ results' \in Seq(File) /\ DOMAIN results' = 1 .. Len(results) - 1
      BY <2>1, <2>2
    <2>4. \A j \in 1 .. Len(results) - 1 : results'[j] = results[j + 1]
      BY <2>1, <2>2
    <2>5. ASSUME NEW k \in DOMAIN results \ {1} PROVE k - 1 \in DOMAIN results' /\ results'[k - 1] = results[k]
      <3>1. k - 1 \in 1 .. Len(results) - 1 /\ (k - 1) + 1 = k
        BY <2>2
      <3> QED BY <3>1, <2>3, <2>4
    <2> QED BY <2>2, <2>3, <2>5
  <1>3. /\ Len(collected') = Len(collected) + 1 /\ collected' \in Seq(File)
        /\ collected'[Len(collected) + 1] = results[1]
        /\ \A k \in DOMAIN collected : k \in DOMAIN collected' /\ collected'[k] = collected[k]
    BY DEF Collect, PoolTypeOK
  <1>4. Cardinality(Busy) \in Nat
    BY BusyIsFinite
  <1>5. Len(collected') <= FileCount
    BY <1>2, <1>3, <1>4 DEF CountInv, PoolTypeOK
  <1>6. PoolTypeOK'
    BY <1>2, <1>3, <1>5 DEF Collect, PoolTypeOK, Pool, File
  <1>7. Underway \subseteq Underway'
    <2>1. Collected \cup {results[1]} \subseteq Collected'
      BY <1>3 DEF Collected, PoolTypeOK
    <2>2. {results[k] : k \in DOMAIN results} \subseteq {results'[k] : k \in DOMAIN results'} \cup {results[1]}
      BY <1>2
    <2>3. {worker[v].file : v \in Busy} \subseteq {worker'[v].file : v \in Busy'}
      BY <1>1 DEF Collect
    <2> QED BY <2>1, <2>2, <2>3 DEF Underway
  <1>8. CountInv'
    BY <1>1, <1>2, <1>3, <1>4, <1>7 DEF CountInv, Collect, PoolTypeOK
  <1>9. StageInv'
    BY <1>1 DEF StageInv, Collect, Busy
  <1> QED BY <1>6, <1>8, <1>9

\* The steps that move no file.
LEMMA ControlKeeps ==
  ASSUME PoolInv, CloseResults \/ StopSending \/ Return \/ Check \/ Cancel \/ UNCHANGED pool
  PROVE  PoolInv'
  <1> USE PoolAssumption DEF PoolInv
  <1>1. worker' = worker /\ results' = results /\ collected' = collected /\ next' = next
    BY DEF CloseResults, StopSending, Return, Check, Cancel, pool
  <1>2. Busy' = Busy /\ Underway' = Underway /\ (cancelled => cancelled')
    BY <1>1 DEF Busy, Underway, Collected, CloseResults, StopSending, Return, Check, Cancel, pool
  <1>3. PoolTypeOK'
    BY <1>1 DEF PoolTypeOK, Pool, File, CloseResults, StopSending, Return, Check, Cancel, pool
  <1>4. CountInv'
    BY <1>1, <1>2 DEF CountInv
  <1>5. StageInv'
    BY <1>1, <1>2 DEF StageInv, PoolTypeOK, CloseResults, StopSending, Return, Check, Cancel, pool
  <1> QED BY <1>3, <1>4, <1>5

\* Every step keeps it.
LEMMA PoolIsKept == PoolInv /\ [NextPool]_pool => PoolInv'
  BY HandKeeps, ExtractKeeps, DeliverKeeps, LeaveKeeps, CollectKeeps, ControlKeeps DEF NextPool, PoolDone

\* When the results are used, all files are among them, each once: the files
\* that are out are as many as the results.
LEMMA CollectedIsAll == PoolInv => UsesAllFiles
  <1> SUFFICES ASSUME PoolInv, main = "used" PROVE Collected = File /\ Len(collected) = FileCount
    BY DEF UsesAllFiles, Collected
  <1> USE PoolAssumption DEF PoolInv
  <1>1. Busy = {} /\ results = <<>> /\ next = FileCount + 1 /\ ~cancelled
    BY DEF StageInv, Busy, Gone, Doing
  <1>2. Cardinality(Busy) = 0 /\ Len(results) = 0
    BY <1>1, FS_EmptySet
  <1>3. Len(collected) = FileCount
    BY <1>1, <1>2 DEF CountInv, PoolTypeOK
  <1>4. Underway = Collected
    BY <1>1 DEF Underway
  <1>5. File \subseteq Collected
    BY <1>1, <1>4 DEF CountInv, File
  <1>6. Collected \subseteq File
    BY DEF Collected, PoolTypeOK
  <1> QED BY <1>3, <1>5, <1>6

\* The inductive invariant holds of the pool.
THEOREM PoolInvariant == PoolSpec => []PoolInv
  BY StartOfPool, PoolIsKept, PTL DEF PoolSpec

\* The variables of a parse hold what they should.
THEOREM PoolIsTyped == PoolSpec => []PoolTypeOK
  <1>1. PoolInv => PoolTypeOK
    BY DEF PoolInv
  <1> QED BY <1>1, PoolInvariant, PTL

\* However the workers take turns and whenever it is cancelled: results the
\* caller goes on with are those of all files, each once (indexer.go 179-256).
THEOREM ParseIsComplete == PoolSpec => []UsesAllFiles
  BY CollectedIsAll, PoolInvariant, PTL

=============================================================================

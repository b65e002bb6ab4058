--------------------------- MODULE IncrementalIndex -------------------------
(***************************************************************************)
(* What an index update computes: which files are extracted again, which   *)
(* relations are resolved again, and what is left as it was.  IndexCycle   *)
(* has the locks and the sessions around it; here one update runs at a     *)
(* time, as the exclusive writer lock makes it.                            *)
(*                                                                         *)
(* The tree is what the scan reads.  The index keeps, for every file, the  *)
(* content it was extracted from (its hash), and the relations of all      *)
(* files.  A relation resolved across files keeps its lookup keys but not  *)
(* the spelling of its target, so it can be extracted again but never      *)
(* resolved again.  Extraction depends on the content of one file only.    *)
(***************************************************************************)
EXTENDS FiniteSets

CONSTANTS
  Files, Contents,
  Choices,        \* [Files -> SUBSET Contents]: what a file may hold
  Absent,         \* no such file, in the tree or in the index
  Broken,         \* contents whose extraction fails
  Decls,          \* [Contents -> sets of symbols [name, qual, owner]]
  Refs,           \* [Contents -> sets of references [from, to, kind, target]]
  None,           \* no target: of a reference, of a relation
  FileKeys,       \* [Files -> sets of keys]: fileLookupKeys
  Targets,        \* the spellings of targets
  RelationKeys,   \* [Targets -> sets of keys]: sourceRelationLookupKeys
  Leaf,           \* [Targets -> the capitalized last part, or None]
  PathMatch,      \* {<<importer, target, file>>}: linkerPathMatch
  Manifests,      \* the states of the project metadata
  NoFacts,        \* the metadata without a fact
  FactMatch       \* [Manifests -> {<<target, file>>}]: contextualFactPaths

ASSUME ConstantsAssumption ==
  /\ Choices \in [Files -> SUBSET Contents]
  /\ Absent \notin Contents /\ Broken \subseteq Contents
  /\ None \notin Targets \cup Manifests \cup (Files \X UNION {Decls[c] : c \in Contents})
  /\ \A c \in Contents : \A ref \in Refs[c] :
       /\ ref.from \in Decls[c]
       /\ ref.target \in Targets \cup {None}
       /\ ref.target = None => ref.to \in Decls[c]
  /\ PathMatch \subseteq Files \X Targets \X Files
  /\ FactMatch \in [Manifests -> SUBSET (Targets \X Files)]
  /\ NoFacts \in Manifests /\ FactMatch[NoFacts] = {}

VARIABLES
  tree,       \* [Files -> Contents \cup {Absent}]
  manifest,   \* the project metadata of the tree
  stored,     \* the files of the index
  relations,  \* its relations
  revision,   \* manifest_facts_revision
  pending,    \* linking_pending
  run         \* the update under way

vars == <<tree, manifest, stored, relations, revision, pending, run>>

(* "module" is the import of a file, not of a symbol in it.                 *)
Imports == {"imports", "module"}
Calls == {"calls", "tests"}
Idle == [step |-> "idle"]

-----------------------------------------------------------------------------
(* Extraction, and what the store makes of it.                             *)

Handles(file, content) == {file} \X Decls[content]

Declared(files) ==
  UNION {Handles(f, files[f]) : f \in {g \in Files : files[g] # Absent}}

SymbolKeys(content) == UNION {{s.name, s.qual} : s \in Decls[content]}

(* A reference the extractor resolved in its own file has no target left,   *)
(* unless the match is provisional; then the store drops the match.         *)
Inserted(file, ref) ==
  [from |-> <<file, ref.from>>,
   to |-> IF ref.target = None THEN <<file, ref.to>> ELSE None,
   kind |-> ref.kind,
   target |-> ref.target,
   keys |-> IF ref.target = None THEN {} ELSE RelationKeys[ref.target]]

RelationsOf(file, content) == {Inserted(file, ref) : ref \in Refs[content]}

PathKeys(file, content) == FileKeys[file] \cup SymbolKeys(content)

ExtractionKeys(file, content) ==
  PathKeys(file, content)
    \cup UNION {r.keys : r \in RelationsOf(file, content)}

-----------------------------------------------------------------------------
(* Resolution.                                                             *)

FirstOf(S, T) == IF S # {} THEN S ELSE T

ByName(r, others) ==
  FirstOf({h \in others : h[2].qual = r.target},
          {h \in others : h[2].name = r.target})

ByPath(r, others) ==
  LET atPath == {h \in others : <<r.from[1], r.target, h[1]>> \in PathMatch}
  IN FirstOf({h \in atPath : h[2].name = Leaf[r.target]}, atPath)

ByFact(r, others, facts) == {h \in others : <<r.target, h[1]>> \in FactMatch[facts]}

Found(r, others, facts) ==
  IF r.kind \in Calls
    THEN ByName(r, {h \in others : ~h[2].owner})
    ELSE FirstOf(FirstOf(ByPath(r, others), ByFact(r, others, facts)), ByName(r, others))

(* A module import names the file's module, not every symbol of the file.   *)
PreferOwner(r, found) ==
  IF r.kind = "module" /\ \A g, h \in found : g[1] = h[1]
    THEN {h \in found : h[2].owner} ELSE found

Candidates(r, files, facts) ==
  PreferOwner(r, Found(r, Declared(files) \ {r.from}, facts))

Unresolved(r) == r.to = None

(* An ambiguous relation is left unresolved, like one without a candidate.  *)
Resolve(r, files, facts) ==
  LET found == Candidates(r, files, facts) IN
  IF Unresolved(r) /\ \E h \in found : found = {h}
    THEN [r EXCEPT !.to = CHOOSE h \in found : TRUE, !.target = None]
    ELSE r

-----------------------------------------------------------------------------
(* What is extracted again.                                                *)

(* Sources of relations resolved to these files.                            *)
Incoming(files) ==
  {r.from[1] : r \in {q \in relations : ~Unresolved(q) /\ q.to[1] \in files}}

(* Sources of relations, resolved ones too, that new symbols may answer.    *)
Competing(files) ==
  LET keys == UNION {ExtractionKeys(f, tree[f]) :
                       f \in {g \in files : tree[g] \notin Broken \cup {Absent}}}
  IN {r.from[1] : r \in {q \in relations : q.keys \cap keys # {}}}

(* Faulty variant: only the first round of the loops.                       *)
WithOneLevel(files) == files \cup Incoming(files) \cup Competing(files)

(* Both loops run until they add nothing.                                   *)
WithDependents(files) ==
  {f \in Files : \A S \in SUBSET Files :
     files \cup Incoming(S) \cup Competing(S) \subseteq S => f \in S}

Current == {f \in Files : tree[f] # Absent}
Changed == {f \in Current : stored[f] # tree[f]}
Deleted == {f \in Files : stored[f] # Absent /\ tree[f] = Absent}

Parsed(reindex) ==
  IF reindex THEN Current ELSE WithDependents(Changed \cup Deleted) \cap Current

(* The parse results without an error.                                      *)
Updates(parsed) == {f \in parsed : tree[f] \notin Broken}

(* The row of a file that could not be extracted is removed, so that the    *)
(* file is tried again next time.                                           *)
Deletions(failed) == Deleted \cup {f \in failed : stored[f] # Absent}

(* The keys the replaced and removed rows had.                              *)
NoOldKeys(touched) == {}
OldKeys(touched) ==
  UNION {PathKeys(f, stored[f]) : f \in {g \in touched : stored[g] # Absent}}

-----------------------------------------------------------------------------
Init ==
  /\ tree \in [Files -> {Absent}]
  /\ manifest = NoFacts
  /\ stored = [f \in Files |-> Absent]
  /\ relations = {}
  /\ revision = None
  /\ pending = TRUE
  /\ run = Idle

(* The tree is read at the scan: an edit during an update is one after it.  *)
Edit(f) ==
  /\ run = Idle
  /\ \E content \in (Choices[f] \cup {Absent}) \ {tree[f]} :
       tree' = [tree EXCEPT ![f] = content]
  /\ UNCHANGED <<manifest, stored, relations, revision, pending, run>>

EditManifest ==
  /\ run = Idle
  /\ \E facts \in Manifests \ {manifest} : manifest' = facts
  /\ UNCHANGED <<tree, stored, relations, revision, pending, run>>

Reindex(full) == full \/ revision # manifest
Updated(full) == Updates(Parsed(Reindex(full)))
Dropped(full) == Deletions(Parsed(Reindex(full)) \ Updated(full))
Touched(full) == Updated(full) \cup Dropped(full)

(* Replacing or removing a file removes the relations from its symbols and  *)
(* the relations resolved to them.                                          *)
Untouched(touched) ==
  {r \in relations : /\ r.from[1] \notin touched
                     /\ Unresolved(r) \/ r.to[1] \notin touched}

(* One transaction.                                                         *)
Apply(full) ==
  /\ run = Idle
  /\ stored' = [f \in Files |-> IF f \in Updated(full) THEN tree[f]
                                ELSE IF f \in Dropped(full) THEN Absent ELSE stored[f]]
  /\ relations' = Untouched(Touched(full))
                    \cup UNION {RelationsOf(f, tree[f]) : f \in Updated(full)}
  /\ revision' = manifest
  /\ pending' = TRUE
  /\ run' = [step |-> "link", full |-> Reindex(full) \/ pending, paths |-> Touched(full),
             keys |-> OldKeys(Touched(full))
                        \cup UNION {ExtractionKeys(f, tree[f]) : f \in Updated(full)}]
  /\ UNCHANGED <<tree, manifest>>

(* A full pass without metadata only looks at what a key can answer.        *)
Projected(r) ==
  \/ r.kind \in Imports
  \/ \E f \in Files : stored[f] # Absent /\ r.keys \cap PathKeys(f, stored[f]) # {}

InScope(r) ==
  IF run.full THEN revision # NoFacts \/ Projected(r)
  ELSE r.from[1] \in run.paths \/ r.keys \cap run.keys # {}

Link ==
  /\ run.step = "link"
  /\ relations' = {IF InScope(r) THEN Resolve(r, stored, revision) ELSE r : r \in relations}
  /\ run' = [step |-> "linked"]
  /\ UNCHANGED <<tree, manifest, stored, revision, pending>>

Finish ==
  /\ run.step = "linked"
  /\ pending' = FALSE
  /\ run' = Idle
  /\ UNCHANGED <<tree, manifest, stored, relations, revision>>

(* Cancelled, failed or killed after the files are committed.               *)
Interrupt ==
  /\ run # Idle
  /\ run' = Idle
  /\ UNCHANGED <<tree, manifest, stored, relations, revision, pending>>

Next ==
  \/ \E f \in Files : Edit(f)
  \/ EditManifest
  \/ \E full \in BOOLEAN : Apply(full)
  \/ Link
  \/ Finish
  \/ Interrupt

Spec == Init /\ [][Next]_vars

-----------------------------------------------------------------------------
(* What the scopes rely on: a target shares a key with every file and every *)
(* symbol that may answer it.  Not every target of the code does.           *)
CoveredTarget(t) ==
  /\ t \in RelationKeys[t]
  /\ \A g \in Files, f \in Files :
       <<g, t, f>> \in PathMatch => RelationKeys[t] \cap FileKeys[f] # {}
  /\ \A m \in Manifests, f \in Files :
       <<t, f>> \in FactMatch[m] => RelationKeys[t] \cap FileKeys[f] # {}

KeysCover == \A t \in Targets : CoveredTarget(t)

(* Every stored row is the content of a file, every relation starts at a    *)
(* symbol of a stored file, and the run has the fields of its step.         *)
TypeOK ==
  /\ tree \in [Files -> Contents \cup {Absent}]
  /\ stored \in [Files -> (Contents \ Broken) \cup {Absent}]
  /\ manifest \in Manifests
  /\ revision \in Manifests \cup {None}
  /\ pending \in BOOLEAN
  /\ \A r \in relations : r.from[1] \in Files
  /\ run.step \in {"idle", "link", "linked"}

(* The relations a rebuild of the stored files would commit, before and     *)
(* after it resolves them.                                                  *)
Fresh == UNION {RelationsOf(f, stored[f]) : f \in {g \in Files : stored[g] # Absent}}
Rebuilt == {Resolve(r, stored, revision) : r \in Fresh}

(* Equality with a rebuild of all relations, which the code's own keys do   *)
(* not give (relation_incremental_test.go:54, "if !reflect.DeepEqual(...)").*)
IncrementalEqualsRebuild ==
  (run = Idle /\ ~pending) => relations = Rebuilt

(* A symbol that may answer r, by its name, its path or the metadata.       *)
MayAnswer(h, r, facts) ==
  \/ h[2].qual = r.target
  \/ h[2].name = r.target
  \/ r.kind \notin Calls /\ <<r.from[1], r.target, h[1]>> \in PathMatch
  \/ r.kind \notin Calls /\ <<r.target, h[1]>> \in FactMatch[facts]

Linked(r, h) == [r EXCEPT !.to = h, !.target = None]

(* What may be kept of a relation whose target is covered, and of another:  *)
(* that one may be resolved late, or resolved though it became ambiguous,   *)
(* but only to a symbol that is there and may answer it.                    *)
Covered(r) == r.target = None \/ CoveredTarget(r.target)
Possible(r, files, facts) ==
  {r} \cup {Linked(r, h) : h \in {g \in Declared(files) \ {r.from} : MayAnswer(g, r, facts)}}
Settled(r, files, facts) ==
  IF Covered(r) THEN {Resolve(r, files, facts)} ELSE Possible(r, files, facts)
Usable(r, files, facts) ==
  IF Covered(r) THEN {r, Resolve(r, files, facts)} ELSE Possible(r, files, facts)

(* An update that completed, however much it reused, left the relations a   *)
(* rebuild of the same files leaves: none is missing, none is stale, and of *)
(* those whose target is covered none is resolved that would be ambiguous,  *)
(* and none unresolved that would be unique.  (The second extraction pass   *)
(* and the link scope of RunWithProgress.)                                  *)
UpdateIsRebuild ==
  (run = Idle /\ ~pending) =>
    /\ \A r \in relations : \E q \in Fresh : r \in Settled(q, stored, revision)
    /\ \A q \in Fresh : Settled(q, stored, revision) \cap relations # {}

(* At any time, between the commit of the files and the end of linking and  *)
(* after any number of interrupted updates too, a relation is as extracted  *)
(* from the stored files or as a rebuild resolves it, and no reference of a *)
(* stored file is missing: a reader never follows an edge to a symbol that  *)
(* is gone, nor, if the target is covered, to one that is no longer the     *)
(* only candidate.                                                          *)
NothingStaleNothingLost ==
  /\ \A r \in relations : \E q \in Fresh : r \in Usable(q, stored, revision)
  /\ \A q \in Fresh : Usable(q, stored, revision) \cap relations # {}

(* An update that commits takes the tree it scanned: no row of a file that  *)
(* is gone, or whose new content cannot be extracted, survives.             *)
TakesTheTree ==
  [][run = Idle /\ run' # Idle =>
       \A f \in Files : stored'[f] = IF tree[f] \in Broken THEN Absent ELSE tree[f]]_vars
=============================================================================

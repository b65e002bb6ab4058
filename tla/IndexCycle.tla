----------------------------- MODULE IndexCycle -----------------------------
(***************************************************************************)
(* One derived index shared by several FocalSpan processes.                *)
(*                                                                         *)
(* An update (indexer.RunWithProgress, called by app.IndexWithProgress)    *)
(* passes the service's in-process gate, takes the writer file lock in     *)
(* exclusive mode, scans the working tree, plans what to extract again,    *)
(* commits rows and metadata in one transaction, links relations in a      *)
(* second one, and stamps the run with three more single-row commits.  It  *)
(* can fail or be cancelled after any of them, and its process can die at  *)
(* any point.  A read (app.readIndex) takes the writer lock in shared mode *)
(* and answers only when statusRead finds the index current.               *)
(*                                                                         *)
(* A file's content is a version number (0: the file does not exist), the  *)
(* revision hash of a scan is the scan itself, and the relations of a file *)
(* are one value: unlinked, or linked under some project facts.  Lock time *)
(* limits are the WaitExpires action; IndexLock gives them a clock.        *)
(***************************************************************************)
EXTENDS Naturals, FiniteSets

CONSTANTS
  Request,      \* goroutines that call the service
  Process,      \* operating system processes, one app.Service in each
  Home,         \* [Request -> Process]
  Hash,         \* configuration hashes and extractor versions
  Setting,      \* what a process was built and configured with
  SettingOf,    \* [Process -> Setting]
  Selected,     \* [Setting -> SUBSET Path]: the scanner's include and exclude rules
  Path,         \* repository files
  Manifest,     \* the file project metadata is discovered from
  MaxVersion,   \* bound: versions of a file
  Broken,       \* SUBSET (Path \X 1 .. MaxVersion): content whose extraction fails
  MaxEdits,     \* bound: changes of the working tree
  MaxOps,       \* bound: calls of the service
  MaxCrashes,   \* bound: process deaths
  Unset,        \* a missing meta row
  NoRow,        \* a path without a files row
  Unlinked,     \* relations that no committed link pass has seen
  Free          \* an empty indexGate

Version == 0 .. MaxVersion
Scan == [Path -> Version]

\* The rows of one file: the content they were extracted from, the extraction
\* configuration and extractor, and the state of its relations.
Row == [version: Version, extraction: Hash, extractor: Hash,
        linked: Version \cup {Unlinked}]

ASSUME ConstantsAssumption ==
  /\ Home \in [Request -> Process]
  /\ Setting \subseteq [config: Hash, extraction: Hash, extractor: Hash]
  /\ SettingOf \in [Process -> Setting]
  /\ Selected \in [Setting -> SUBSET Path]
  /\ Manifest \in Path
  /\ MaxVersion \in Nat \ {0} /\ MaxEdits \in Nat /\ MaxOps \in Nat /\ MaxCrashes \in Nat
  /\ Broken \subseteq Path \X Version
  /\ Unset \notin Hash /\ Unset \notin Version /\ Unset \notin Scan
  /\ Unset \notin [Path -> Row \cup {NoRow}] /\ Unset \notin {"0", "1"}
  /\ Unlinked \notin Version
  /\ NoRow \notin Row
  /\ Free \notin Request

VARIABLES
  tree,     \* the working tree: [Path -> Version]
  rows,     \* files, symbols, chunks and relations: [Path -> Row]
  meta,     \* the meta table
  runDone,  \* the newest index_runs row has its completed_at
  held,     \* the writer lock: [Request -> {"none", "shared", "exclusive"}]
  gate,     \* indexGate: [Process -> Request or Free]
  pc, op,   \* the step and the call of each request
  job,      \* the local variables of a run
  ok,       \* the run of this request returned no error
  seen,     \* rows a ready read found when it began (history)
  edits, ops, crashes

db == <<rows, meta, runDone>>
bounds == <<edits, ops, crashes>>
vars == <<tree, rows, meta, runDone, held, gate, pc, op, job, ok, seen, edits, ops, crashes>>

-----------------------------------------------------------------------------
(* The data *)

Meta == [revision: Scan \cup {Unset}, config: Hash \cup {Unset},
         extraction: Hash \cup {Unset}, extractor: Hash \cup {Unset},
         facts: Version \cup {Unset}, pending: {"0", "1", Unset}, success: BOOLEAN]

NoMeta == [revision |-> Unset, config |-> Unset, extraction |-> Unset,
           extractor |-> Unset, facts |-> Unset, pending |-> Unset, success |-> FALSE]

\* The setting of the process a request runs in.
My(r) == SettingOf[Home[r]]

\* revisionForFacts: each version of the manifest states other facts.
FactsOf(scan) == scan[Manifest]

Parses(p, v) == v # 0 /\ <<p, v>> \notin Broken

\* The row extraction makes of a file, before any link pass.
Extracted(s, v) == [version |-> v, extraction |-> s.extraction,
                    extractor |-> s.extractor, linked |-> Unlinked]

\* What an update of an empty index would leave behind for this scan.
Rebuilt(scan, s) ==
  [p \in Path |-> IF Parses(p, scan[p])
                  THEN [Extracted(s, scan[p]) EXCEPT !.linked = FactsOf(scan)]
                  ELSE NoRow]

\* statusRead: the index is not Stale for a process with setting s.
Ready(s) ==
  /\ meta.revision # Unset
  /\ meta.config = s.config
  /\ meta.extraction = s.extraction
  /\ meta.extractor = s.extractor
  /\ meta.pending = "0"
  /\ meta.success

\* The local variables of a run: what it has scanned so far, and its plan.
PartialScan == UNION {[D -> Version] : D \in SUBSET Path}

Job == [scan: PartialScan, full: BOOLEAN, linkAll: BOOLEAN,
        update: SUBSET Path, delete: SUBSET Path]

NotScanned == [p \in {} |-> 0]

Extend(scan, p, v) == [q \in DOMAIN scan \cup {p} |-> IF q = p THEN v ELSE scan[q]]

NoJob == [scan |-> NotScanned, full |-> FALSE, linkAll |-> FALSE,
          update |-> {}, delete |-> {}]

Ops == {"update", "rebuild", "query", "updatingQuery", "status"}
Steps == {"idle", "gate", "writer", "scan", "apply", "link", "finalize", "stamp",
          "clear", "release", "ungate", "reader", "check", "read", "unread"}
Running == {"scan", "apply", "link", "finalize", "stamp", "clear"}

Goto(r, to) == pc' = [pc EXCEPT ![r] = to]

-----------------------------------------------------------------------------
(* Initial states: no index yet, or one an older release left behind.  An  *)
(* older release had no linking_pending key and linked in the same run, so *)
(* its rows may or may not have been through the link pass.                *)

SelectedBy(s, files) == [p \in Path |-> IF p \in Selected[s] THEN files[p] ELSE 0]

OldIndex(s, scan) ==
  /\ rows \in {[Rebuilt(scan, s) EXCEPT ![p] =
                  IF @ = NoRow THEN NoRow ELSE [@ EXCEPT !.linked = l]] :
                 p \in Path, l \in {Unlinked, FactsOf(scan)}}
  /\ meta = [revision |-> scan, config |-> s.config, extraction |-> s.extraction,
             extractor |-> s.extractor, facts |-> FactsOf(scan), pending |-> Unset,
             success |-> TRUE]
  /\ runDone = TRUE

Init ==
  /\ tree = [p \in Path |-> 1]
  /\ \/ /\ rows = [p \in Path |-> NoRow]
        /\ meta = NoMeta
        /\ runDone = FALSE
     \/ \E s \in Setting : OldIndex(s, SelectedBy(s, tree))
  /\ held = [r \in Request |-> "none"]
  /\ gate = [p \in Process |-> Free]
  /\ pc = [r \in Request |-> "idle"]
  /\ op = [r \in Request |-> "status"]
  /\ job = [r \in Request |-> NoJob]
  /\ ok = [r \in Request |-> FALSE]
  /\ seen = [r \in Request |-> Unset]
  /\ edits = 0
  /\ ops = 0
  /\ crashes = 0

-----------------------------------------------------------------------------
(* A call begins.  Query and Impact update first when the configuration    *)
(* says so; Status and Health never do and take any index.                 *)

Begin(r, o) ==
  /\ pc[r] = "idle"
  /\ ops < MaxOps
  /\ ops' = ops + 1
  /\ op' = [op EXCEPT ![r] = o]
  /\ ok' = [ok EXCEPT ![r] = FALSE]
  /\ Goto(r, IF o \in {"query", "status"} THEN "reader" ELSE "gate")
  /\ UNCHANGED <<tree, db, held, gate, job, seen, edits, crashes>>

(* IndexWithProgress: one run at a time in a process.                      *)
EnterGate(r) ==
  /\ pc[r] = "gate"
  /\ gate[Home[r]] = Free
  /\ gate' = [gate EXCEPT ![Home[r]] = r]
  /\ Goto(r, "writer")
  /\ UNCHANGED <<tree, db, held, op, job, ok, seen, bounds>>

\* Faulty variant: the caller that gives up the lock keeps the gate.
KeepsTheGate(step) == "idle"

\* Where a wait that ends without the lock or the gate returns to.
StepAfterWait(step) == IF step = "writer" THEN "ungate" ELSE "idle"

(* A bounded wait runs out, or the caller cancels it: BusyError.           *)
WaitExpires(r) ==
  /\ pc[r] \in {"gate", "writer", "reader"}
  /\ Goto(r, StepAfterWait(pc[r]))
  /\ ok' = [ok EXCEPT ![r] = FALSE]
  /\ UNCHANGED <<tree, db, held, gate, op, job, seen, bounds>>

\* Faulty variant: readers do not keep a writer out.
WriterIgnoresReaders == \A q \in Request : held[q] # "exclusive"

\* flock grants an exclusive lock when nobody holds any.
WriterMayLock == \A q \in Request : held[q] = "none"

AcquireWriter(r) ==
  /\ pc[r] = "writer"
  /\ WriterMayLock
  /\ held' = [held EXCEPT ![r] = "exclusive"]
  /\ job' = [job EXCEPT ![r] = NoJob]
  /\ Goto(r, "scan")
  /\ UNCHANGED <<tree, db, gate, op, ok, seen, bounds>>

(* Scanner.Scan reads one file after the other: edits fall in between.     *)
ScanFile(r, p) ==
  /\ pc[r] = "scan"
  /\ p \notin DOMAIN job[r].scan
  /\ job' = [job EXCEPT ![r].scan =
               Extend(@, p, IF p \in Selected[My(r)] THEN tree[p] ELSE 0)]
  /\ UNCHANGED <<tree, db, held, gate, pc, op, ok, seen, bounds>>

\* Faulty variants: one of the comparisons is forgotten.
ReindexIgnoringFacts(r, scan) ==
  op[r] = "rebuild" \/ meta.extractor # My(r).extractor \/ meta.extraction # My(r).extraction

(* Everything is extracted again after a rebuild request, under another    *)
(* extractor or extraction configuration, and when the project facts moved *)
(* (resolved relations no longer hold the text they were resolved from).   *)
ReindexRequired(r, scan) ==
  \/ op[r] = "rebuild"
  \/ meta.extractor # My(r).extractor
  \/ meta.extraction # My(r).extraction
  \/ meta.facts # FactsOf(scan)

\* The files to extract: all of them, or those whose stored hash differs.
ToParse(r, scan) ==
  {p \in Path : /\ scan[p] # 0
                /\ \/ ReindexRequired(r, scan)
                   \/ rows[p] = NoRow
                   \/ rows[p].version # scan[p]}

\* Faulty variant: links a dead run left pending are not made up for.
LinkAllWithoutRecovery(r, scan) == ReindexRequired(r, scan)

\* The link pass covers the whole index, not only the files of this run.
LinkAll(r, scan) == ReindexRequired(r, scan) \/ meta.pending # "0"

(* A file that does not parse any more loses its row, and so is new to the *)
(* next run: deletions holds the vanished and the failed ones.             *)
PlanOf(r, scan) ==
  LET parsed == ToParse(r, scan)
      failed == {p \in parsed : ~Parses(p, scan[p])}
  IN  [scan |-> scan,
       full |-> ReindexRequired(r, scan),
       linkAll |-> LinkAll(r, scan),
       update |-> parsed \ failed,
       delete |-> {p \in Path : rows[p] # NoRow /\ (scan[p] = 0 \/ p \in failed)}]

Plan(r) ==
  /\ pc[r] = "scan"
  /\ DOMAIN job[r].scan = Path
  /\ job' = [job EXCEPT ![r] = PlanOf(r, job[r].scan)]
  /\ Goto(r, "apply")
  /\ UNCHANGED <<tree, db, held, gate, op, ok, seen, bounds>>

(* ApplyIndexWithDelta: rows, metadata and the run record in one commit.   *)
Apply(r) ==
  /\ pc[r] = "apply"
  /\ rows' = [p \in Path |->
                IF p \in job[r].update THEN Extracted(My(r), job[r].scan[p])
                ELSE IF p \in job[r].delete THEN NoRow ELSE rows[p]]
  /\ meta' = [meta EXCEPT !.revision = job[r].scan, !.config = My(r).config,
                          !.extraction = My(r).extraction, !.extractor = My(r).extractor,
                          !.facts = FactsOf(job[r].scan), !.pending = "1"]
  /\ runDone' = FALSE
  /\ Goto(r, "link")
  /\ UNCHANGED <<tree, held, gate, op, job, ok, seen, bounds>>

(* LinkWithScope and LinkRelations: a commit of its own, over the whole    *)
(* index or over the files the run changed.                                *)
Link(r) ==
  /\ pc[r] = "link"
  /\ rows' = [p \in Path |->
                IF /\ rows[p] # NoRow
                   /\ rows[p].linked = Unlinked
                   /\ job[r].linkAll \/ p \in job[r].update \cup job[r].delete
                THEN [rows[p] EXCEPT !.linked = FactsOf(job[r].scan)]
                ELSE rows[p]]
  /\ Goto(r, "finalize")
  /\ UNCHANGED <<tree, meta, runDone, held, gate, op, job, ok, seen, bounds>>

(* FinalizeIndexRun completes the newest run record.                       *)
Finalize(r) ==
  /\ pc[r] = "finalize"
  /\ runDone' = TRUE
  /\ Goto(r, "stamp")
  /\ UNCHANGED <<tree, rows, meta, held, gate, op, job, ok, seen, bounds>>

Stamp(r) ==
  /\ pc[r] = "stamp"
  /\ meta' = [meta EXCEPT !.success = TRUE]
  /\ Goto(r, "clear")
  /\ UNCHANGED <<tree, rows, runDone, held, gate, op, job, ok, seen, bounds>>

Clear(r) ==
  /\ pc[r] = "clear"
  /\ meta' = [meta EXCEPT !.pending = "0"]
  /\ ok' = [ok EXCEPT ![r] = TRUE]
  /\ Goto(r, "release")
  /\ UNCHANGED <<tree, rows, runDone, held, gate, op, job, seen, bounds>>

(* A read, parse, commit or cancellation error: the step does not happen.  *)
Fail(r) ==
  /\ pc[r] \in Running
  /\ Goto(r, "release")
  /\ UNCHANGED <<tree, db, held, gate, op, job, ok, seen, bounds>>

ReleaseWriter(r) ==
  /\ pc[r] = "release"
  /\ held' = [held EXCEPT ![r] = "none"]
  /\ job' = [job EXCEPT ![r] = NoJob]
  /\ Goto(r, "ungate")
  /\ UNCHANGED <<tree, db, gate, op, ok, seen, bounds>>

GateAfter(r) == [gate EXCEPT ![Home[r]] = Free]

(* No schema upgrade is pending here, so FinalizeUpgrade does nothing.     *)
LeaveGate(r) ==
  /\ pc[r] = "ungate"
  /\ gate' = GateAfter(r)
  /\ Goto(r, IF op[r] = "updatingQuery" /\ ok[r] THEN "reader" ELSE "idle")
  /\ UNCHANGED <<tree, db, held, op, job, ok, seen, bounds>>

-----------------------------------------------------------------------------
(* readIndex                                                               *)

AcquireReader(r) ==
  /\ pc[r] = "reader"
  /\ \A q \in Request : held[q] # "exclusive"
  /\ held' = [held EXCEPT ![r] = "shared"]
  /\ Goto(r, IF op[r] = "status" THEN "read" ELSE "check")
  /\ UNCHANGED <<tree, db, gate, op, job, ok, seen, bounds>>

(* statusRead under the shared lock; a stale index is an error.            *)
CheckReady(r) ==
  /\ pc[r] = "check"
  /\ IF Ready(My(r))
     THEN seen' = [seen EXCEPT ![r] = rows] /\ Goto(r, "read")
     ELSE UNCHANGED seen /\ Goto(r, "unread")
  /\ UNCHANGED <<tree, db, held, gate, op, job, ok, bounds>>

\* The queries of one read are done.
EndRead(r) ==
  /\ pc[r] = "read"
  /\ seen' = [seen EXCEPT ![r] = Unset]
  /\ Goto(r, "unread")
  /\ UNCHANGED <<tree, db, held, gate, op, job, ok, bounds>>

ReleaseReader(r) ==
  /\ pc[r] = "unread"
  /\ held' = [held EXCEPT ![r] = "none"]
  /\ Goto(r, "idle")
  /\ UNCHANGED <<tree, db, gate, op, job, ok, seen, bounds>>

-----------------------------------------------------------------------------
(* The environment: editors change the tree, and a process dies.  The      *)
(* system releases its file locks; SQLite rolls an open transaction back.  *)

Edit(p, v) ==
  /\ edits < MaxEdits
  /\ tree[p] # v
  /\ tree' = [tree EXCEPT ![p] = v]
  /\ edits' = edits + 1
  /\ UNCHANGED <<db, held, gate, pc, op, job, ok, seen, ops, crashes>>

Crash(x) ==
  LET dead == {r \in Request : Home[r] = x} IN
  /\ crashes < MaxCrashes
  /\ crashes' = crashes + 1
  /\ held' = [r \in Request |-> IF r \in dead THEN "none" ELSE held[r]]
  /\ gate' = [gate EXCEPT ![x] = Free]
  /\ pc' = [r \in Request |-> IF r \in dead THEN "idle" ELSE pc[r]]
  /\ job' = [r \in Request |-> IF r \in dead THEN NoJob ELSE job[r]]
  /\ ok' = [r \in Request |-> IF r \in dead THEN FALSE ELSE ok[r]]
  /\ seen' = [r \in Request |-> IF r \in dead THEN Unset ELSE seen[r]]
  /\ UNCHANGED <<tree, db, op, edits, ops>>

\* One step of a call that has begun, other than giving up a wait.
Proceed(r) ==
  \/ EnterGate(r) \/ AcquireWriter(r)
  \/ \E p \in Path : ScanFile(r, p)
  \/ Plan(r) \/ Apply(r) \/ Link(r) \/ Finalize(r) \/ Stamp(r) \/ Clear(r)
  \/ ReleaseWriter(r) \/ LeaveGate(r)
  \/ AcquireReader(r) \/ CheckReady(r) \/ EndRead(r) \/ ReleaseReader(r)

Next ==
  \/ \E r \in Request :
       \/ Proceed(r)
       \/ \E o \in Ops : Begin(r, o)
       \/ Fail(r)
       \/ WaitExpires(r)
  \/ \E p \in Path, v \in Version : Edit(p, v)
  \/ \E x \in Process : Crash(x)

Spec == Init /\ [][Next]_vars

-----------------------------------------------------------------------------
(* Properties                                                              *)

TypeOK ==
  /\ tree \in Scan
  /\ rows \in [Path -> Row \cup {NoRow}]
  /\ meta \in Meta
  /\ runDone \in BOOLEAN
  /\ held \in [Request -> {"none", "shared", "exclusive"}]
  /\ gate \in [Process -> Request \cup {Free}]
  /\ pc \in [Request -> Steps]
  /\ op \in [Request -> Ops]
  /\ job \in [Request -> Job]
  /\ ok \in [Request -> BOOLEAN]
  /\ seen \in [Request -> [Path -> Row \cup {NoRow}] \cup {Unset}]
  /\ edits \in 0 .. MaxEdits /\ crashes \in 0 .. MaxCrashes
  /\ ops \in 0 .. MaxOps

(* Whenever the metadata tells a process that the index is current, the    *)
(* index is what rebuilding it from the recorded revision would give: no   *)
(* row of an older content, of another extractor or extraction             *)
(* configuration, of a path its rules exclude, and no relation left        *)
(* unlinked or resolved with outdated project facts.  This must survive a  *)
(* run that failed or died between its two commits, processes that differ  *)
(* in their settings, and an index an older release left behind.           *)
ReadyIsComplete ==
  \A s \in Setting : Ready(s) => rows = Rebuilt(meta.revision, s)

(* A run record is completed before the index is declared current.         *)
ReadyRunIsRecorded ==
  \A s \in Setting : Ready(s) => runDone

(* All queries of one read find the index as it was when the read began,   *)
(* still current for this process, whatever other processes do meanwhile.  *)
StableRead ==
  \A r \in Request : pc[r] = "read" /\ op[r] # "status" =>
    seen[r] = rows /\ Ready(My(r))

(* At most one run of one process is past the gate, and the gate is closed *)
(* for exactly as long as one of its requests is.                          *)
GateIsOwned ==
  \A x \in Process : \A r \in Request :
    gate[x] = r <=> Home[r] = x /\ pc[r] \in Running \cup {"writer", "release", "ungate"}

(* A run that reports success leaves an index that is current for its own  *)
(* process and holds exactly what this run scanned, even if other runs,    *)
(* with other settings, failed or died before or waited behind it.         *)
SuccessIsReady ==
  [][\A r \in Request : ok'[r] /\ ~ok[r] =>
       /\ meta'.revision = job[r].scan
       /\ rows' = Rebuilt(job[r].scan, My(r))
       /\ Ready(My(r))']_vars

(* Readers see the index only as the abstract specification allows.        *)
View == INSTANCE IndexView WITH
          ReaderSetting <- [r \in Request |-> My(r)],
          CompleteFor <- [s \in Setting |-> {Rebuilt(scan, s) : scan \in Scan}],
          NoView <- Unset,
          view <- [s \in Setting |-> IF Ready(s) THEN rows ELSE Unset],
          reading <- seen

ImplementsView == View!Spec

(* Every call returns, whoever dies or gives up a wait meanwhile: a failed *)
(* or dead run frees the gate and the writer lock, a caller that gives up  *)
(* behind the gate takes nothing with it and one that gives up behind the  *)
(* lock opens the gate, and no request holds what it is itself waiting     *)
(* for. A call that has begun is scheduled, and a lock file or gate that   *)
(* stays free is taken. Nothing else is fair: a wait need never run out,   *)
(* and calls, errors and deaths need not come (service.go 143, read.go     *)
(* 43).                                                                    *)
FairSpec == Spec /\ \A r \in Request : WF_vars(Proceed(r))

EveryCallReturns == \A r \in Request : pc[r] # "idle" ~> pc[r] = "idle"

-----------------------------------------------------------------------------
(* The inductive invariant behind the properties                           *)

\* The steps at which a request holds the writer lock, by mode; Status and
\* Health hold it but do not check.
Writing == Running \cup {"release"}
Reading == {"check", "read", "unread"}

LockInv ==
  /\ \A r \in Request : held[r] = IF pc[r] \in Writing THEN "exclusive"
                                  ELSE IF pc[r] \in Reading THEN "shared" ELSE "none"
  /\ \A q, r \in Request : held[q] = "exclusive" /\ held[r] # "none" => q = r
  /\ \A r \in Request : pc[r] = "check" => op[r] # "status"

\* The rows of the recorded revision, but for their links.
RowsInv ==
  \/ /\ meta.revision = Unset /\ meta.pending = Unset
     /\ \A p \in Path : rows[p] = NoRow
  \/ /\ meta.revision \in Scan
     /\ meta.extraction \in Hash /\ meta.extractor \in Hash
     /\ meta.facts = FactsOf(meta.revision)
     /\ \A p \in Path :
          \/ rows[p] = NoRow /\ ~Parses(p, meta.revision[p])
          \/ /\ Parses(p, meta.revision[p])
             /\ \E l \in {Unlinked, meta.facts} :
                  rows[p] = [version |-> meta.revision[p], extraction |-> meta.extraction,
                             extractor |-> meta.extractor, linked |-> l]

NoneUnlinked == \A p \in Path : rows[p] # NoRow => rows[p].linked # Unlinked

PendingInv == meta.pending = "0" => NoneUnlinked /\ runDone /\ meta.revision # Unset

\* What a run knows of the database it alone may change.
JobInv ==
  \A r \in Request :
    /\ pc[r] = "apply" => /\ job[r].scan \in Scan
                          /\ job[r] = PlanOf(r, job[r].scan)
    /\ pc[r] \in {"link", "finalize", "stamp", "clear"} =>
         /\ job[r].scan \in Scan /\ meta.revision = job[r].scan
         /\ meta.config = My(r).config /\ meta.extraction = My(r).extraction
         /\ meta.extractor = My(r).extractor /\ meta.pending = "1"
    /\ pc[r] = "link" => \/ job[r].linkAll
                         \/ \A p \in Path : rows[p] # NoRow /\ rows[p].linked = Unlinked
                                           => p \in job[r].update
    /\ pc[r] \in {"finalize", "stamp", "clear"} => NoneUnlinked
    /\ pc[r] \in {"stamp", "clear"} => runDone
    /\ pc[r] = "clear" => meta.success

SeenInv ==
  \A r \in Request :
    seen[r] # Unset => pc[r] = "read" /\ op[r] # "status" /\ seen[r] = rows /\ Ready(My(r))

ReadInv ==
  \A r \in Request : pc[r] = "read" /\ op[r] # "status" => seen[r] = rows

IInv == TypeOK /\ LockInv /\ RowsInv /\ PendingInv /\ JobInv /\ SeenInv /\ ReadInv

=============================================================================

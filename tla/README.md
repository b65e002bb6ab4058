# FocalSpan: models, checks and proofs

FocalSpan keeps a derived index of a repository (symbols, chunks and relations
in SQLite, under `.focalspan/`) and answers queries, impact questions and
evidence requests from it, on the command line and as an MCP server. Several
FocalSpan processes share one index directory. This directory models two kinds of
its parts: those whose correctness depends on the order of steps, on other
processes, and on what a failure or a process death leaves behind; and the
computations of an answer, from the text of a source to the packet a client
reads, over every input that small bounds allow.

Paths below are relative to the repository.

## 1. The system

### 1.1 Components

| Component | State it keeps | Operations | Interacts with |
|---|---|---|---|
| Index cycle (`internal/indexer`, `internal/app/service.go`, `read.go`) | tables `files`, `symbols`, `chunks`, `relations`, `meta`, `index_runs`; the in-process `indexGate` | update, rebuild, clear + index, query (with or without a leading update), status, health | scanner, extractors, linker, writer lock, store |
| Store lifecycle (`internal/store/lifecycle.go`, `store.go`) | `index.db`, `index.db.v1.bak`, `index.db.v2.tmp`; `Store.db`, `upgradePending`, the lifecycle lease | open, open for update, create, migrate, recover, finalize an upgrade, close | lifecycle lock, index cycle |
| Index locks (`internal/indexlock`) | `.index-lifecycle.lock`, `.index-writer.lock` (flock / LockFileEx); the deadline in a context | acquire shared / exclusive with a bounded wait, release | everything that touches the index |
| Relation linker (`internal/linker`) | none of its own; `relations.resolution`, `target_symbol_id` | resolve all, or the relations of changed files | store, project metadata |
| Repository scanner (`internal/repository`) | none | scan, hash, revision | configuration, git |
| Project metadata (`internal/projectmeta`) | none | discover facts, facts revision | linker |
| Parse pool (`indexer.go` 310-365) | two channels, a cancel function | parse selected files on N workers | extractors |
| Configuration (`internal/config`) | `config.json` | load, validate, hash | all |
| MCP server and supervisor (`internal/mcpserver`) | service generation, restart gate, worker session | calls, restart, close, forward | application service |
| Codex integration (`internal/integration/codex`) | user's `config.toml`, managed block | install, update, remove, status | file system of the user |
| Git diff and range mapping (`internal/gitx`) | none | diff, map ranges to the working tree | impact service |
| Impact and evidence services (`internal/app`) | none | impact, evidence, freshness check | store, search, evidence compiler |
| Search, rank, query planner | none | plan, retrieve, fuse, rank, expand relations | store |
| Evidence compiler, token budget | none; a client keeps the handles it knows | segments, roles, packing, wire size, two encodings | search results |
| Extractors, language detection | none | parse one file | parse pool |
| Command line, rendering, evaluation, benchmarks | none that lasts | - | all |

### 1.2 How they interact

An *update* passes the service's gate (a channel of capacity one), takes
the writer lock exclusively, scans, reads the stored hashes and metadata, parses
what changed, and then makes five separate commits: rows with metadata and run
record (`ApplyIndexWithDelta`, which sets `linking_pending = 1`), links
(`LinkRelations`), completion of the run record, the success time, and
`linking_pending = 0`. A *read* takes the writer lock shared, asks `statusRead`
whether the index is current for this process, and then sends several queries.
Opening takes the lifecycle lock shared for as long as the store is open;
creating, recovering and upgrading take it exclusively. An upgrade builds
`index.db.v2.tmp` beside the legacy database, indexes into it with the same
update, and swaps files in `FinalizeUpgrade`.

### 1.3 What is hard

* **Interleaving.** Processes with different configurations, extractor
  versions and file selections update the same index; files change while they
  are scanned.
* **Partial failure and death.** Five commits, any of which can be the last
  one; two renames and three removals in an upgrade.
* **Stale state.** Metadata that says "current" must never outlive what it was
  true of; incremental updates must end where a rebuild would.
* **Waiting.** Bounded waits, nested budgets, an initializer that alternates
  between shared and exclusive attempts.
* **Supervision.** An MCP worker is replaced while calls are under way.
* **Foreign files.** The Codex configuration belongs to the user and may
  change between read and rename.
* **Arithmetic at edges.** Line ranges through empty and adjacent hunks; a
  packet that contains its own size, in two encodings; windows clipped at both
  ends of a source.
* **Limits.** Every list of a search, every packet and every bundle is cut
  somewhere: what is cut, and whether the answer says so.
* **Broken sources.** Extractors read files that are being edited: whatever is
  not closed must still be found by its text.
* **Rules computed in several places.** Keys of a relation, scopes of a
  call, the relations of a plan and of a ranking: two computations that must agree.

What makes each component correct:

* *Index cycle*: current implies complete; one read sees one state; success
  means current and equal to what was scanned; every call returns.
* *Store lifecycle*: open databases are leased; files move only under an
  exclusive lease; no interruption loses the index.
* *Index locks*: no exclusive holder beside another holder; a budget is never
  extended by a nested one.
* *Linker, incremental update*: links equal those of a full pass wherever the stored
  keys cover what may answer a target, and no link leads to what is gone.
* *Supervisor*: a call is answered once, by one worker; a restart starts from
  a quiet worker; a closed one is never called.
* *Codex configuration*: bytes outside the managed block survive.
* *Range mapping*: every mapped line is the line it was, or is part of a
  changed range.
* *Budget, packing*: the bundle that is measured is within the budget, and every
  candidate is in it or counted.
* *Evidence*: the target is in the packet; a session reads everything once.
* *Search*: within its scope nothing is lost to what lies outside; of what several
  retrievers find the best stays.
* *Extractors*: every line that says something is in a chunk; calls and imports
  are those the scopes of the language say.
* *Linking, expansion*: a relation is linked or offered, from either end, and by
  the nearest scope.

`PROJECT.json` lists every hazard at the line where it bites.

## 2. Plan

| Order | Module | What it adds | State |
|---|---|---|---|
| 1 | `IndexView`, `IndexCycle`, `IndexCycleProofs` | the update/read protocol, its abstract specification, proofs | done |
| 2 | `UpgradedIndex`, `StoreLifecycle` | opening and upgrading, its abstract specification | done |
| 3 | `StoreLifecycleProofs` | lease and disk invariants, refinement, for any number of sessions | done |
| 4 | `ActiveGeneration`, `RWMutex`, `WorkerSupervisor`, `ServiceReload`, `WorkerSupervisorProofs`, `ServiceReloadProofs` | replacing a worker or a service under calls, and its abstract specification; proofs | done |
| 5 | `IndexLock`, `IndexLockProofs` | the waits of an update and a read with time: nested deadlines; proofs | done |
| 6 | `CodexConfig`, `CodexConfigProofs` | both scopes of the registration, look by look and write by write; proofs | done |
| 7 | `IncrementalIndex`, `IncrementalIndexProofs` | what an update extracts and links again, against a full rebuild; proofs | done |
| 8 | `ParsePool` | workers, sender, collector and cancellation of the parse pool; proofs in `IncrementalIndexProofs` | done |
| 9 | `RangeMapping`, `ImpactRead` | changed line ranges through a diff; an impact answer against a tree that goes on changing; proofs of the latter in `AnswerProofs` | done |
| 10 | `Ordering`, `EvidenceCompiler`, `ContextV2`, `FocusedSegments`, `ContextPacker`, `AnswerProofs` | packets, sessions, both encodings, segments and bundles; proofs about packets, their compact form, sessions and bundles | done |
| 11 | `QueryPlan`, `Retrieval` | plans; the lists of the retrievers, fusion, order, deduplication | done |
| 12 | `PhpParser`, `PhpExtraction`, `TemplatePage`, `TemplateExtraction`, `PythonSource` | three extractors, from words to chunks, calls and imports | done |
| 13 | `NameScopes`, `Linking`, `Expansion` | targets, keys and scopes of every language; relations seen from both ends | done |

`IndexLock` gives the lock actions of modules 1 and 2 their clock; `IncrementalIndex`
is about what `IndexCycle` has as one value: the relations between files. Every
component that keeps state has its proofs, and of the computations of an answer those
whose result a client relies on most. What row 12, `Linking` and `Expansion` compute
is recursive over data, which is out of the prover's reach; the other computations
are folds, of which `AnswerProofs` shows how they are taken apart.

## 3. The modules

### 3.1 `IndexCycle` and `IndexView`

| TLA+ | Code |
|---|---|
| `tree` | the working tree; a version number is a content, 0 is no file |
| `rows[p]` | all rows of file `p`: the content they came from, extraction configuration, extractor, and `linked`: `Unlinked`, or the facts its relations were resolved with |
| `meta` | the `meta` table: `revision`, `config_hash`, `extraction_config_hash`, `extractor_version`, `project_facts_revision`, `linking_pending`, and whether a success time is there |
| `runDone` | `completed_at` of the newest `index_runs` row |
| `held` | the writer lock |
| `gate` | `Service.indexGate` |
| `job` | local variables of `RunWithProgress`: the scan so far, then the plan |
| `ReindexRequired`, `ToParse`, `LinkAll`, `PlanOf` | the decisions of `RunWithProgress` |
| `Apply`, `Link`, `Finalize`, `Stamp`, `Clear` | its five commits |
| `EnterGate` ... `LeaveGate` | `IndexWithProgress` |
| `AcquireReader` ... `ReleaseReader`, `Ready` | `readIndex`, `statusRead` |
| `Fail`, `WaitExpires`, `Crash`, `Edit` | an error at any step, an expired or cancelled wait, a process death, an edit |

`Init` includes an index an older release left behind: no `linking_pending`
row, links complete or not. The revision hash of a scan is the scan itself:
hash collisions are outside the model. A manifest's versions state different
project facts, the worst case for reuse. A path without a file has version 0.
A process's settings fix `Selected`, the files its scanner considers.

`IndexView` is the promise to readers: for each setting either nothing or one
complete content, replaced while nobody reads. `ImplementsView` maps its view
to `IF Ready(s) THEN rows ELSE Unset`.

`FairSpec` is the specification for liveness: all of `Spec`, with weak fairness
of `Proceed(r)`, one per goroutine: the Go scheduler runs every runnable
goroutine, system calls return, and a lock is polled in
`acquireFile` every 25 ms, so a lock that *stays* free is taken;
weak fairness is enough because calls are finitely many (strong fairness, which
polling does not give, is not assumed). Giving up a wait, errors, deaths and new
calls are steps of `FairSpec` that may come at any moment and need never come:
`EveryCallReturns` says that no call waits for what it holds itself, and that
nobody who fails, dies or gives up leaves the gate or the lock taken for those
who go on waiting.

### 3.2 `StoreLifecycle` and `UpgradedIndex`

| TLA+ | Code |
|---|---|
| `live`, `backup`, `temp` | `index.db`, `index.db.v1.bak`, `index.db.v2.tmp`, as one of absent, bare (created, no schema yet), v1, empty, full |
| `lease` | the handle of the lifecycle lock |
| `opening` | local variables of `openWithLease`: `allowUpgrade`, the mode, `initializing`; `reopening` says the caller is `FinalizeUpgrade` |
| `db`, `pending` | `Store.db`, `Store.upgradePending` |
| `AcquireLease` ... `Inspect`, `SwitchTo`, `Reject` | the loop of `openWithLease` |
| `recoverUpgradeArtifacts`, `Restored` | the same name in `store.go`, one change of the disk per step |
| `Create`, `Migrate`, `ClearTemp`, `CreateTemp`, `MigrateTemp` | `openDatabase` and `configureAndMigrate` for either file |
| `StartRead`, `EndRead`, `BeginIndex`, `IndexSucceeds`, `IndexFails` | the open store in use; `IndexCycle` is the detail |
| `CloseTemp`, `ClearBackup`, `Stage`, `Replace`, `Unstage`, `DropBackup`, `Reopen`, `FinalizeFails` | `FinalizeUpgrade`, one file operation per step |
| `Close`, `Crash` | `Store.Close`; a death, after which the system has dropped the lease |

`UpgradedIndex` promises one index: nothing, then empty, then full, or v1 and
then full in one step, never lost. `ImplementsUpgrade` maps its index to what
`RecoveredIndex` finds on the disk, at every intermediate step.

The WAL and shared-memory companions of a database move with it and are not
files of their own here: `FinalizeUpgrade` checkpoints and closes before it
renames.

### 3.3 `ActiveGeneration`, `WorkerSupervisor` and `ServiceReload`

The MCP server replaces what it serves from while it serves, at two levels: the
supervisor replaces a worker process, a server replaces its `app.Service`.
Both promise `ActiveGeneration`: a call uses one generation from beginning to
end, and the active one is replaced by a fresh one, or closed for good, between
calls only.

| TLA+ | Code |
|---|---|
| `worker`, `contract`, `process` | `Supervisor.worker`, `supervisedWorker.contract`, the process behind a session |
| `service`, `open` | `Server.service`, the services whose store is open |
| `mu`, `restartMu` | the mutexes of those names; `RWMutex` holds what `sync.RWMutex` does |
| `mine` | local variables of `Restart` and `Close`: the candidate, the previous worker, the replacement |
| `EnterCall`, `Forward`, `Answer`; `EnterCall`, `EndCall` | `forward`; the tool handlers |
| `EnterRestart` ... `UnlockRestart` | `Restart`, one step per lock, wait and assignment |
| `WaitExpires`, `AfterWait` | `waitSupervisorGate` giving up, and where its callers return to |
| `EnterClose` ... `CloseWorker` / `CloseService` | `Close` |
| `WorkerDies` | a worker that crashes at any moment |

`Lock` is two steps, as in the library: the announcement, which keeps new
readers out, and the entry. `TryLock` is one and announces nothing.

Fairness: weak fairness of `Proceed(c)`, one per goroutine, which rests on
the scheduler, on tool calls that end (a call has the context of its request) and
on sessions whose `Close` kills a process that does not exit. Waiters of
`sync.Mutex` get strong fairness because a waiter of `Lock` becomes the owner
once it has waited for a millisecond, and waiters of `RLock` because `Unlock`
lets them in before the next writer. The polls of the supervisor get no strong
fairness: their time limit ends them.

### 3.4 `IndexLock`

`IndexCycle` lets a wait expire at any moment; `IndexLock` says when. An update
has one budget (`WithWaitDeadline`) for three waits: the gate of its service, the
writer lock and, if it ends an upgrade, the lifecycle lock of the reopened
database. A read waits once more with a limit of its own. A caller's deadline
is part of every wait (`WaitContext`) and of the work.

| TLA+ | Code |
|---|---|
| `own`, `budget`, `left` | time to the deadline of the caller's context, to its `waitDeadlineKey`, and to the one of the wait under way |
| `Begin`, `EnterGate`, `EndWork`, `LeaveGate` | `readIndex`, `IndexWithProgress` |
| `AcquireWriter`, `AcquireReader`, `Reopen`, `Expire` | `acquireFile` for each lock, and the select on the gate |
| `OtherSession` | a process that takes the lifecycle lock between the two leases of an upgrade |
| `Tick` | the clock |

A tick stands for many polls of 25 ms, so it does not pass while a waiter's lock
is free, nor beyond the end of a wait. The second is what timers do; the first
leaves out a process that is not scheduled for that long.

### 3.5 `CodexConfig`

One `config.toml` with a managed block and a table for each server name, and the
rest of the text as a version number. Commands of FocalSpan look, look again
under their own lock file, compare and rename; the Codex CLI and the user's
editor write whenever they like.

| TLA+ | Code |
|---|---|
| `file` | what `inspectProject` can tell of the file; `Broken` markers, `Empty` markers around no table |
| `lock` | `config.toml.focalspan.lock` |
| `cmd` | local variables of a command: `projectObservation`, the CLI's answer |
| `InspectProject`, `InspectUser`, `Compare`, `Rename` | `installProject`, `uninstallProject`, `replaceUserRegistration`, `atomicWrite` |
| `Observe`, `UserGet`, `UserAdd`, `GetLegacy`, `UserRemove` | `installUser`, `Uninstall`, `migrateLegacyUser` |
| `Fail` | an error, a cancellation or a death at any step |

`raced` is a history variable: the commands between whose last look and whose
write another program has written. It separates what the commands owe each other
(`CommitsWhatItSaw`, `OnlyItsEntry`) from what no lock protects.

### 3.6 `IncrementalIndex`

One update at a time, as the exclusive writer lock makes it, and the relations
between files in detail. What an extractor makes of a content, what a key or a
path looks like, and what a manifest says are constants: functions and relations
over contents, files and targets.

| TLA+ | Code |
|---|---|
| `tree`, `manifest` | the scanned files and the facts of `projectmeta.Discover` |
| `stored`, `relations`, `revision`, `pending` | tables `files` (with the content behind the hash) and `relations` (with `relation_lookup`), `manifest_facts_revision`, `linking_pending` |
| `run` | the `IndexDelta` and `LinkScope` of the update under way |
| `Incoming`, `Competing`, `WithDependents` | `IncomingRelationPaths`, `DependentSourcePaths` and the two loops around them |
| `Updates`, `Deletions`, `Apply` | the results of parsing, `ApplyIndexWithDelta` |
| `Found`, `PreferOwner`, `Candidates`, `Resolve` | `resolveCandidates`, `preferModuleOwner`, `LinkWithScope` for one relation |
| `Projected`, `InScope`, `Link` | `RelationsForLink`, `LinkWithScope` |
| `Finish`, `Interrupt` | the completion; an error or a death before it |

`WithDependents` is the least set the two loops reach, written as one: a file is
in it if it is in every set that is closed. A resolved relation has no target
left (`unresolved_to = NULL`), which is why the code must extract its source again
instead of resolving it again, and why so much can go wrong. `Rebuilt` is the
reference: all references of the stored files, each resolved against all of them.

`CoveredTarget` says of one target what the scopes rely on: it shares a stored key
with every file and every symbol that may answer it. The keys that the code computes
(`relationLookupKeys`, `fileLookupKeys`) give that for names, relative imports and
paths; for path aliases they do not (section 6). So nothing assumes it: the properties
speak of each relation. `Settled` is what a completed update may leave of one, `Usable` what
there may be of it at any time. If its target is covered that is what a rebuild resolves it
to (or, before linking, the relation as it was extracted); if not, it may be unresolved or lead
to any symbol that is there and may answer it. How the keys and matches are
computed from spellings, and the resolvers of PHP, C++ and C# calls, are
`Linking` and `NameScopes`.

### 3.7 `ParsePool`

| TLA+ | Code |
|---|---|
| `main`, `next` | the caller: `sendJobs`, the collecting loop, the check of the context; the file it hands out next |
| `worker[w]` | a goroutine of `Indexer.parse`: at its `select`, extracting, delivering, gone |
| `jobs`, `results`, `closed` | the channel of jobs, which has no buffer, and of results, which has room for every file |
| `Hand` | a send and its receive, one step as on a channel without a buffer |
| `Leave` | `defer wg.Done()`, on a cancelled context or closed jobs |
| `CloseResults` | the goroutine behind `wg.Wait()` |
| `Cancel` | the context of the call, at any moment |

A `select` with two ready cases takes either. Fairness: weak fairness of each
worker, of the sender and of the closer, one per goroutine; extraction ends.

### 3.8 `ImpactRead` and `RangeMapping`

`ImpactRead` has an impact answer against a working tree that is edited while git,
the scan and the index read it; a number stands for a content. A file may take
any content at any time, one it had before too, as when an edit is undone or a commit is
checked out; `restored` remembers where that brought the indexed content back
after git had read the file. Scores are the code's for a question without words: 25 and 15 for
what is changed, 12 for what is related, less the penalties of tests, documentation and
long spans. What decides among equal scores is left open.
`RangeMapping` has the line numbers, of one file that is edited line by line
while hunks of it are mapped from one commit into the tree.

| TLA+ | Code |
|---|---|
| `ReadDiff`, `ScanFile`, `Verify`, `SelectChanged`, `Relate`, `Rank` | `impactCandidates`, one step per read of git, of a file and of the index |
| `Verified`, `Refuse` | `impactSourceCheck.verify` and its errors |
| `Score`, `ByScore` | `rankCandidates`, with the weights of the impact profile |
| `Idle`, `Deduplicated` | `Deduplicate`: outlines, and what has the text or lies within the lines of what ranks higher |
| `ChangedFirst` | the `sort.SliceStable` of `impactCandidates`, before the limit |
| `Edit` | the user |
| `Hunks`, `ParseUnifiedZeroDiff`, `NewRange` | what `git diff --unified=0` prints, and how it is read |
| `MapRange`, `ApplyEdit`, `Coalesced`, `MapLineRanges` | `mapLineRanges` |
| `ImpactRanges`, `OneRefRanges` | `DiffForImpact` and `MapRangesToWorktree`; `Client.Diff` |

### 3.9 `QueryPlan`, `Retrieval`

A query is a sequence of units (a token, a Japanese run, a quoted phrase) with
a lexicon that says what the characters of each tell: whether it is a
path, and how it splits. `says` is a unit's text word by word: the phrases of an intent
(`where is`, `what breaks`) are looked for in the text of the whole query, so they may
span units and depend on their order. An index is a set of chunks with the
retrievers that find each.

| TLA+ | Code |
|---|---|
| `IntentTerms`, `RawText`, `ContainsTerm`, `Matches` | `plannerIntents`, `containsEnglishTerm`, `intentMatches` |
| `Normalize`, `PlanIntents`, `PlanAnchors`, `PlanRelations`, `FTSTerms` | `Normalize`, `PlanQuery`, `planAnchors`, `planRelations`, `BuildFTS` |
| `ReadList`, `RelatedChunks` | the searches of `store.go`, and in scope, with their limits |
| `Retrieve`, `Anchors`, `RelationList` | `RetrieverSet.Retrieve`, `retrievalAnchors`, `mergeRelationCandidates` |
| `Fused`, `MergedContext`, `Filtered` | `fuseRankedLists`, `SearchDetailed` |
| `RankScore`, `Ranked`, `Deduplicate` | `rankCandidates`, `Deduplicate` |
| `Abstains`, `EvidenceCandidates` | `shouldAbstainEvidenceQuery`, `queryEvidenceRead` |

### 3.10 `EvidenceCompiler`, `ContextV2`, `FocusedSegments`, `ContextPacker`

| TLA+ | Code |
|---|---|
| `req`, `packet`, `read` | `CompileRequest`, the packet it got, what the client was shown in the session |
| `Role`, `Priority`, `Presentation`, `Put`, `Prepare`, `Preprocess`, `Mark`, `Variants` | `classifyRole`, `SortForPresentation`, `preprocess`, `BuildVariants` |
| `Anchor`, `AddBest`, `Round`, `Select`, `Settle`, `BuildPacket` | `Compile`, `settleWireUsage`, `buildPacket` |
| `Limitations`, `Actions`, `NextActions`, `ApplyGuidance`, `PruneMetadata` | `BuildGuidance`, `applyGuidanceWithinBudget`, `prunePacketMetadata` |
| `Call`, `Find`, `Ask` | a client that asks, and asks again with the handles it has |
| `MakeWire`, `SettleWire`, `DecodeContextV2`, `Negotiated` | `EncodeContextV2`, `DecodeContextV2`, `negotiatedContextOutput` |
| `WindowOf`, `MergeWindows`, `Segments` | `focusedSegments` |
| `JsonTokens`, `BundleTokens`, `SourceTokens` | what the JSON of a bundle takes, `estimateBundle` (with an estimate of zero), `estimateSourcePayload` |
| `Consider`, `Shortened`, `TakeBack`, `Estimated`, `Pack` | `Packer.Pack`, the estimate it writes last included |

`Ordering` is what `sort.Slice` does with an order that tells all elements apart.

Tokens are a count: of lines, of digits of the numbers a packet states, and
of the entries it lists. That keeps what is hard about them: that a number has a
size.

### 3.11 `PhpParser`, `PhpExtraction`, `TemplatePage`, `TemplateExtraction`, `PythonSource`

A source is a sequence of words and marks, put together from pieces some of
which are broken (brackets that are not opened, blocks that are not closed,
strings that do not end), up to a number of them, in any order. A line end is a
word where lines matter.

| TLA+ | Code |
|---|---|
| `Scope`, `Statement`, `ClassAt`, `FunctionAt`, `PestAt`, `MembersAt`, `UseAt` | `parseScope` and the functions it calls |
| `ChunksOf`, `Ranges`, `WindowsFrom` | `buildExtraction`, `appendFallbackChunks` |
| `ImportsOf`, `CallAt`, `CallsOf`, `ResolveCall` | `importsInRange`, `callAt`, `buildBodyRelations`, `resolveCall` |
| `RegionsFrom`, `NodesOf`, `MarkerFrom` | the scanner and the parser of templates, `containsSmartyMarker` |
| `ScriptDeclarations`, `BodyClose`, `ScriptRanges` | the structural extractor as templates use it for their scripts |
| `NodeChunks`, `StaticChunks`, `PageChunks` | `build` |
| `DeclarationsFrom`, `EndLine`, `PyParent` | `parsePythonDeclarations` |
| `CallTarget`, `FromScope`, `BodyNames`, `LineNames` | `pythonCallTarget`, `pythonBindsName` |
| `SimpleStatements`, `ImportTargets`, `PyImports` | `pythonSimpleStatements`, `pythonImportRecords` |

### 3.12 `NameScopes`, `Linking`, `Expansion`

A program is a set of symbols with the references they make; a name, a path and
a target is a sequence of words and separators.

| TLA+ | Code |
|---|---|
| `CppResolve`, `CsResolve`, `PhpCallees`, `PhpReferences` | `cppscope`, `csharpscope`, `phpscope` |
| `RelationKeys`, `FileKeys`, `SymbolKeys` | `relationLookupKeys`, `fileLookupKeys`, `linkerSymbolKeys` |
| `PathMatch`, `FactPaths`, `Generic`, `Narrowed`, `PreferModuleOwner` | `linkerPathMatch`, `factPathCandidates`, `resolveCandidates` |
| `Indexed`, `Found`, `Linked` | `symbolIndex.candidates`, `LinkWithScope` |
| `IncomingMatches`, `OutgoingMatches`, `CppKept`, `RelatedHits` | the SQL of `relatedHitQuery`, `cppRelationFilter` |
| `ExpandEvidence`, `ExpandBundle` | `expandEvidenceRead`, `expandRead` |

## 4. The runs

| Run | Instance | What it shows |
|---|---|---|
| `cycle` | two processes, one of which excludes a file; one ordinary file that may stop parsing, one manifest; one edit, three calls, one death | all safety properties and the refinement of `IndexView` |
| `cycle_returns` | two goroutines of one process and one of another; three calls on one file, one death, errors, and waits that run out or do not | `EveryCallReturns`: nothing stays taken for those who go on waiting |
| `lifecycle` | three sessions, five opens, two deaths, two faults | lease discipline, files moved alone, refinement of `UpgradedIndex` |
| `supervisor` | three callers, three worker processes, two executables | no process is left behind, contract and generation discipline, `EveryRequestReturns` |
| `reload` | three callers, four services | no database is left open or closed under a call, `EveryRequestReturns` |
| `codex` | two commands of either scope for one name, the older release's name, one write of the user | no command loses what another wrote, nothing foreign goes without force |
| `lock` | two callers of one service, whose upgrade may be pending, one of another; limit 2, a caller's deadline of 1 | `OneBudget`, `BusyMeansContended` |
| `incremental` | a library, a library that may compete with it or depend on its user, a user; imports by class and by two aliases, the keys of one of which name no file, and calls; eight contents, one of which cannot be extracted; two states of the metadata | `UpdateIsRebuild`, `NothingStaleNothingLost` |
| `incremental_alias` | the same, held to `IncrementalEqualsRebuild`: all relations, whatever their keys | section 6 |
| `pool` | four files, three workers, a cancellation at any moment | `UsesAllFiles`, `Returns` |
| `impact` | three files, each missing or with one of two contents, any number of edits, two commits; five symbols, among them two tests, an outline and two of the same lines; a limit of two candidates | `OneContent`, `ChangedGiveWayToChanged` |
| `answers` | the computations of 3.8 to 3.12, one at a time, each over its own growing input | the fourteen properties below |

The properties of `answers`:

| Property | Says |
|---|---|
| `ChangesAreLocated` | the ranges of an impact answer are the changed lines as git counts them now, whatever the tree did since, and reach every symbol around a change |
| `PlanKeepsItsNames` | a name in a query is an anchor and a search term, or nothing weaker took its place; the relation retrieved first is one its ranking weighs most |
| `SearchFindsTheBest` | a chunk comes once, with the strongest provenance it was found with, and a scope loses nothing to what lies outside |
| `PacketIsHonestAndAnchored` | a packet states its true size, within its budget, counts what it leaves out, and shows its target; its edges join what it shows |
| `SessionReadsAllOnce` | a client that repeats its question with the handles it has reads everything that fits, once |
| `EncodingIsFaithful` | what a client decodes is the packet that was compiled, in the smaller of two forms |
| `SegmentsShowTheMatch` | segments tile the source in order with its gaps counted, and show its head and its best match |
| `BundleAccountsForAll` | a bundle passes its budget by the digits of its estimate at most, and every candidate is in it or counted |
| `PhpIsSearchable` | every word of a PHP source is in a chunk, every call in a relation of its function |
| `PageIsRead` | the regions of a page tile it, its text is in chunks, the detector takes it for what the scanner reads, functions of its scripts end where their braces do |
| `PythonIsReadByScope` | a recorded call means what its scopes say, imports are those of its statements |
| `CallsReachTheNearest` | an unqualified call is linked to the innermost function it sees, or not at all |
| `LinksAreFound` | the lookup index of a link pass and the keys the store keeps miss no candidate that trying every symbol would find |
| `ExpansionIsWhole` | what one end of a relation shows the other shows too, and an ambiguous target is offered, not dropped |

Why the bounds are enough. A disagreement between metadata and rows needs a
first run that writes, a second one that is cut short between its commits (a
failure, or the one death), and a third call that reads or updates: three
calls. Two processes give both settings in either order; the second run can
itself be cut short by `Fail`, which is not bounded. One edit between two scans
of a run, or between two runs, makes a scan differ from what is stored; two
versions are enough for "the same" and "another", and version 2 of the ordinary
file does not parse. In `lifecycle` an upgrade that dies, a recovery that dies
and a third attempt need three opens and two deaths; two more opens put an
ordinary reader and a competing initializer beside them. Sessions are
interchangeable, so the run uses their symmetry; it checks safety only.
In `supervisor` and `reload` the smallest conflict is a call, a restart that
replaces and a second restart or close: three callers. Three generations let a
restart fail after it has started a candidate and another succeed. The callers
come back for ever, which the liveness runs need: a stream of calls that never
ends is what could starve a restart or a close.

In `codex` a lost entry needs two commands and, for a race with the user, one
write between two looks; two names tell a command's own entry from another's. In
`lock` a limit of 2 separates a budget that has been used in part from a fresh
and from a spent one; `Forever` exceeds them and is no deadline.

In `incremental` nothing is bounded but the instance: edits, updates and
interruptions come in any number and order. Three files are what a stale link
needs: one that changes, one that refers to it, and one that competes with it or
refers to the second in turn, so that the dependents of dependents matter.

In `pool` three workers tell the last one from one before it, and four files let a
worker take a second. In `impact` edits come in any number, before and after any of the
reads; with two contents and no file, a file can differ from the index, from either commit
and from what was read of it before, and come back to each. In `answers` one input
grows while the others stay empty, so that their states add up instead of
multiplying; the pieces of each are chosen so that every branch of the
definitions is taken and every rule has something to go wrong with (`MCAnswers`
and `MCLinking` say which). The limits of the code (candidates of a list, lines of
a window, anchors of a plan, tokens of a budget) are constants small enough to
be passed.

The bounds themselves are `MaxVersion`, `MaxEdits`, `MaxOps`, `MaxCrashes`
(`IndexCycle`), `MaxOpens`, `MaxCrashes`, `MaxFaults` (`StoreLifecycle`),
`MaxStarts` (`WorkerSupervisor`), `MaxServices` (`ServiceReload`), `MaxEdits` and
`Commands` (`CodexConfig`), `WaitLimit`, `OwnLimits`, `Forever` (`IndexLock`), `FileCount`,
`Workers` (`ParsePool`), `MaxCandidates` (`ImpactRead`), and in `answers` `MaxLines`,
`MaxOffers`, `MaxMatches`, `MaxPacked`, `MaxUnits`, `MaxPieces`, `MaxMarkup`, `MaxPyPieces` and
`MaxDeclared`. The runs of `IndexCycle`, `StoreLifecycle` and `MCAnswers` say
`CHECK_DEADLOCK FALSE`: when the calls are used up and all have returned, or the
input has its full size, nothing is left to do. In the others callers
never run out, or have a last step that repeats, and TLC reports a deadlock.

The type invariants, `GateIsOwned`, `ReadyRunIsRecorded`, `TakesTheTree` and
`OwnDeadlineFirst` are listed by no run: they are proved (section 5), or, for the
modules without proofs, say nothing that the other properties do not rest on.

Each property of a passing run is paired in `PROJECT.json` with a faulty
variant of one definition (a dropped guard, a forgotten comparison, a missing
reset) under which the property fails.

## 5. What is proved

`IndexCycleProofs` proves, for every number of requests, processes, paths,
versions and settings, and for every value of the bounds:

| Theorem | Says |
|---|---|
| `TypeCorrect` | `Spec => []TypeOK` |
| `InvCorrect` | `Spec => []IInv` |
| `ReadyIsCompleteCorrect` | a current index is what a rebuild of its revision gives |
| `ReadyRunIsRecordedCorrect` | a current index has a completed run record |
| `StableReadCorrect` | one read sees one state, current throughout |
| `SuccessIsReadyCorrect` | a run that reports success leaves a current index of what it scanned |
| `ImplementsViewCorrect` | `IndexCycle` implements `IndexView` |
| `GateIsOwnedCorrect` | the gate of a service is taken exactly while one of its calls is inside |

The only assumption is `ConstantsAssumption`: types of the constants, and that
the markers for "nothing there" differ from the values they stand beside. TLC
evaluates it in every run of the module.

`ReadyIsComplete` is not inductive: it says nothing of an index that is *not*
current, from which the next run starts. `IInv` adds

* `LockInv`: who holds the lock at which step, and that an exclusive holder is
  alone. It is what makes every other request's view of the database stable.
* `RowsInv`: at *every* moment, current or not, a row is the extraction of
  the recorded revision under the recorded extractor, and a path without a row
  does not parse; only the links are open. This is why metadata and rows must
  be one commit, and why a failed file must lose its row.
* `PendingInv`: `linking_pending = 0` means every link is made and the run
  record complete.
* `JobInv`: what a run between its commits may rely on: its plan is still the
  plan, because it holds the lock, and before its link pass every unlinked row
  is one that pass will cover.
* `SeenInv`, `ReadInv`: a read under way has seen exactly the present rows.

`InitInv` and `StepInv` prove it inductive; `StepInv` has one step per action.
`ReadyRows` derives completeness from `RowsInv` and `PendingInv`. For the
refinement, `NotReadyYet` shows the view empty between the first and the last
commit of a run, so `Apply` maps to `Retract`, `Clear` to `Publish`, `CheckReady`
to `Start`, `EndRead` and `Crash` to `Finish`, everything else to a stutter.

`StoreLifecycleProofs` proves, for every number of sessions, opens, deaths and
faults, from `BoundsAssumption` (the bounds are natural numbers):

| Theorem | Says |
|---|---|
| `TypeCorrect`, `InvCorrect` | `Spec => []TypeOK`, `Spec => []IInv` |
| `HandlesAreLeasedCorrect` | an open database is leased |
| `DiskIsChangedAloneCorrect` | every step that changes which files exist is one of the exclusive holder |
| `ImplementsUpgradeCorrect` | `StoreLifecycle` implements `UpgradedIndex` |

`HandlesAreLeased` depends on when a session may still believe what it saw before
it switched its lease. `IInv` adds

* `LeaseInv`: at which step a session holds which lease, and that an
  exclusive one is alone.
* `HandleInv`: what kind of file a session's handle is on: `Usable`, `Upgrading`
  or `Broken`, the last during a swap and after one that failed.
* `ShapeInv`, `DiskInv`: the combinations of live, backup and temporary file that
  can be on the disk at all: a missing `index.db` beside a temporary database has
  its backup, and the temporary one is full then.
* `Knows`: what a session between two file operations still knows of the disk,
  because it holds the lease exclusively.

`IncrementalIndexProofs` proves, for any files, contents, extractions, keys and
metadata, from `ConstantsAssumption` (types of the constants, and that a reference
starts at a symbol of its file); nothing is assumed of the keys:

| Theorem | Says |
|---|---|
| `TypeCorrect`, `InvHolds` | `Spec => []TypeOK`, `Spec => []Inv` |
| `IncrementalIsRebuild` | `UpdateIsRebuild`: of every reference of the stored files a completed update has the relation a rebuild leaves if its target is covered, and otherwise one that is unresolved or leads to a symbol that may answer it |
| `AlwaysUsable` | at every moment no relation is lost, none leads to what is gone, and none whose target is covered is stale |
| `CoveringKeysGiveEquality` | if every target is covered (`KeysCover`), a completed update equals a rebuild |
| `CommitTakesTheTree` | a committed update holds exactly the scanned files that could be extracted |

The last one is an implication whose premise the code's own keys do not give (section 6); it
says that they are all there is to mend. `UpdateIsRebuild` speaks
of completed updates only. `Inv` adds what holds
between the commits, `NothingStaleNothingLost`, and `ScopeIsEnough`: before linking,
a relation outside the scope is one that resolving would not change, if its target is
covered. The argument is one
about resolution, `CandidatesStable`: if two states of the files differ in touched
files only, and no touched file of the second shares a key with a relation, then
its candidates are the same or a touched file of the first shares a key with it;
and a unique candidate outside the touched files stays the unique one.
`DependentsClosed` supplies the premise (no extracted file shares a key with an
untouched source, or `Competing` would have added it), `UntouchedStable` and
`ApplyStale` conclude that what is kept may be kept, `OldKeys` puts the other case in
the scope (`ApplyScope`), and `FullScope` shows that the projection of a full pass
leaves out nothing. A relation whose target is not covered needs less: what it was resolved
to is still declared, or the relation would be gone with it (`UntouchedStable`).
`LinkRebuilds` then gives that every relation is settled.

Of the parse pool, whose files such an update extracts, the same module proves for any
number of files and workers, from `PoolAssumption` (there is a worker):

| Theorem | Says |
|---|---|
| `PoolIsTyped`, `PoolInvariant` | `PoolSpec => []PoolTypeOK`, `PoolSpec => []PoolInv` |
| `ParseIsComplete` | results that the caller goes on with are those of all files, each once |

`UsesAllFiles` only looks at the end. `CountInv` follows every file: what was handed out
is with a worker, in the channel or collected, and nothing is dropped unless the
context was cancelled; the counts say so once more, because as many results as files,
among them every file, means each once. `StageInv` says who may have gone when: the
results are closed only after all workers, who leave without a cancellation only when
there is no job left.

`WorkerSupervisorProofs` and `ServiceReloadProofs` prove, for any number of callers,
worker processes and services, from `SupervisorAssumption` and `ReloadAssumption`
(the bounds are positive, and the markers for "nobody" and "nothing" are neither a
caller nor a worker or service):

| Theorem | Says |
|---|---|
| `TypeCorrect`, `InvCorrect` | `Spec => []TypeOK`, `Spec => []IInv`, in each module |
| `NoOrphansCorrect` | a worker process that is not waited for is the worker, or in the hands of the restart or close under way |
| `WorkerIsUsableCorrect` | calls are forwarded to a worker that has not been closed, with the contract the host knows |
| `OpenServicesCorrect` | the service, and what a call still uses, is open; any other open database is the replacement of the restart under way |
| `ImplementsActiveCorrect` | each module implements `ActiveGeneration` |

Neither safety property is inductive, because neither says who may change the worker.
`IInv` adds

* `LockInv`: at which step a caller has `restartMu`, reads `mu` or has it as a writer.
  From it `OthersKeepOut`: while one caller restarts or closes, nobody else has a
  candidate, a replacement or a previous worker in its hands.
* `TargetInv`, `UsingInv`: a call that is under way uses what is there *now*. Whoever
  has `mu` as a writer therefore knows that no call is under way, which is what
  `Replace` and `Close` of `ActiveGeneration` demand.
* `MineInv`: what a restart or close has in its hands at each step: a candidate that
  was started, was not waited for and is neither the worker nor a retired one, so that
  discarding it never ends the worker, and swapping it in never brings one back.
* `ProcessInv`, `OpenedInv`: processes and services are numbered as they are started.

For the refinement `Forward` maps to `Begin`, `Answer` to `End`, `Swap` to `Replace` and
`LockForClose` to `Close` (`EnterCall`, `EndCall`, `Swap` and `CloseService` in
`ServiceReload`), everything else to a stutter (`ActiveStutter`).

`IndexLockProofs` proves, for any number of callers and services and any limits, from
`LimitAssumption` (limits are positive, and no deadline is as far as `Forever`):

| Theorem | Says |
|---|---|
| `TypeCorrect`, `InvCorrect` | `Spec => []TypeOK`, `Spec => []IInv` |
| `OneBudgetCorrect` | the waits of one update together, and those of a read, take no longer than the limit |
| `OwnDeadlineFirstCorrect` | no call waits beyond the deadline of its caller |
| `BusyMeansContendedCorrect` | who is told that the index is in use has waited for somebody, but for an upgrade that cannot open its database again |

The properties bound what *was* waited; what makes them true is what *may* still be
waited. `BudgetInv` and `OwnInv` say that the time waited and what is left of the
budget or of the caller's deadline never exceed what the call began with, and, until it
works, that waiting is all the budget is spent on; `ReadInv` the same of a read, which
begins to wait when its update is over; `WaitInv` that the wait under way ends with
the first of the deadlines it is under, so that a tick takes from each of them at
once. `GateInv` and `WriterInv` say who is behind a gate and who has the writer
lock. `BusyMeansContended` is inductive beside them: a wait can only expire at a
deadline that was positive when the wait began, that is, after a tick, except in
`Reopen`, whose budget the indexing itself may have spent (section 6).
The clocks meet in `TickKeeps`; `WaitContextIsFirst` and `SoonerIsADeadline` are
the facts about deadlines it rests on.

`CodexConfigProofs` proves, for any number of commands, names, tables and edits, from
`ConfigAssumption` (the kinds of tables differ from each other and from the markers
for "none", "empty" and "broken") and `CommandsAssumption`:

| Theorem | Says |
|---|---|
| `TypeCorrect`, `InvCorrect` | `Spec => []TypeOK`, `Spec => []IInv` |
| `CommitsWhatItSawCorrect` | a command that is about to replace the file has read the very file it replaces, unless a program that does not know the lock has written in between |
| `OnlyItsEntryCorrect` | a command that replaces the file leaves everything but its own entry as it is at that moment |
| `ForeignIsKeptCorrect` | a table that is not FocalSpan's disappears by the user's hand, with `--force`, or because it came after the command had looked |

`CommitsWhatItSaw` is inductive beside `LockInv` (who is between lock and unlock) and
`RacedInv` (which steps a foreign write can make stale). The other two are action
properties and need more. `ReplaceInv` says of a command at `Compare` or `Rename` why it
may replace a table: it found it between markers, found none, or was forced.
`CliInv` says on what each request to the Codex CLI rests, which is true of the *file*
only for commands that are not `raced`. `OnlyRenameReplaces` then shows that of
FocalSpan's own steps `Rename` alone can change a table that is not asked of the CLI.

`AnswerProofs` proves of `ImpactRead`, for any files, contents, commits, relations and
limit, any number of edits, and any finite set of symbols with any penalties and
likenesses, from `ImpactAssumption` (types of the constants, nothing else):

| Theorem | Says |
|---|---|
| `TypeCorrect`, `InvCorrect` | `Spec => []TypeOK`, `Spec => []IInv` |
| `OneContentCorrect` | an answer names what rows say that the scan confirmed, and calls changed what ranges of the same content say, but in a file given the indexed content between git and the scan |
| `ChangedGiveWayToChangedCorrect` | a changed symbol is left out for changed ones, or in the two cases of `Deduplicate` |

`OneContent` speaks of the answer; that ranges and rows are of one content is never
compared in the code, which compares rows with the hashes of the scan only. `ContentInv`
is why that is nearly enough: ranges are of the file as git read it, hashes as the scan
read it later. If the two differ there was an edit in between, and if the later one is
nevertheless that of the rows, an edit made the file so: the file is in `restored`.
`CheckedInv` says what the comparison has shown of each file and that every file with
ranges was compared; `ProgressInv` what has not been looked at yet; `SymbolsInv` and
`OrderInv` carry the conclusion over to the symbols.

`ChangedGiveWayToChanged` is about three things done one after the other: the ranking by
score, `Deduplicate` and the stable sort with its limit. `RankingNamesAll` says that a ranking
leaves nobody out, so `RankKeeps` can tell for every changed symbol what became of it: it is
kept, an idle outline, or like something that is kept and stands above it. What is
related and above a changed symbol scores at least as much, which takes a penalty that is
28 points smaller (`Score`). `LimitCutsTheRest` is the lemma about the sort and the limit: when
changed symbols are in front, a prefix drops one of them only if it holds nothing else.

Of what is computed for an answer `AnswerProofs` proves, for any candidates, intents,
modes and budgets:

| Theorem | Says |
|---|---|
| `PackIsTyped`, `BundleIsAccountedFor` | `PackSpec => []PackTypeOK`, `PackSpec => []BundleAccountsForAll` |
| `SessionReadsEverythingOnce` | `CallSpec => []SessionReadsAllOnce` |
| `PacketsAreHonestAndAnchored` | `CallSpec => []PacketIsHonestAndAnchored` |
| `EveryAnswerCanBeEncoded` | `CallSpec => []EncodingIsFaithful` |

`PackSpec` and `CallSpec` are the parts of the run `answers` that concern bundles and
sessions: a step of `MCAnswers` is one of theirs or leaves their variables alone. The
assumptions are `OffersAssumption` and `PackAssumption` (a text has a number of lines) and
`BudgetAssumption` (the smallest budget has room for a packet that shows nothing and
counts everything; the code's is 256 tokens, `budget.go` 13).

What is proved of one call is an algorithm, and the algorithms are folds. The fold of
the library is a recursion over sets of places; `SequenceRecursion` and `StepByStep` turn
it into the values `f[0]`, `f[1]`, ... a loop goes through, `UpTo` carries an invariant
from one to the next. So every loop of the code has its lemma: the two passes
of `preprocess` (`PutSteps`, `PrepareSteps`), `settleWireUsage` (`SettleSteps`) and its
like for the compact form (`SettleWireSteps`), the selection (`SelectSteps`), `Pack`
(`PackSteps`).

* **A bundle** keeps its budget when it is measured, because `TakeBack` is measured with what
  it will say was omitted; the estimate is written afterwards, and adds its digits at most
  (section 6). That estimate is of a part of what was measured (`EstimateIsOfAPart`), so it is
  itself within the budget. `PackLoop` counts the candidates with every round: they are
  items, or omitted.
* **A session.** `SessionGoesOn` is the invariant: the known handles are those read, and
  what was read is among `AllOf` the request, no two alike. It is needed because a second call
  prepares *other* candidates than the first: one that was known still marks its
  span and its text, so that its copies stay hidden. `PrepareAfresh` and `AllAreFresh` compare the
  two computations candidate by candidate; `RoomIsUsed` gives the end of a
  session: no evidence means that nothing fits alone.
* **The size of a packet** is among the things it says. `SettleIs` shows that five rounds
  find a number that agrees with itself, or else there is none: the size grows by
  what its own digits need, at most once. `ApplyGuidanceIsRight` and `PruneIsLighter` carry
  the budget on through what is said of the rest and what is left out at the end;
  `EmptyHasRoom` is why there is always an answer.
* **What is omitted** is counted at least. `PutCounts` and `PrepareCounts` follow each usable
  handle through both passes (it is prepared, or a copy, or known), and
  `OmissionsAreCounted` adds up.
* **The target** is shown because `AnchorIs` measures the packet that shows nothing else,
  which `RoundKeeps` keeps at its head.
* **The compact form** is about one packet, but not about any packet: `FormInvariant` adds
  that the packet is `WellFormed`, with items that can be told apart by handles other
  than 0, edges between two different ones of them, the size it says and no more
  guidance than `Validate` lets through, which `CompileIsWellFormed` derives from what
  Compile does. With `WellFormedIsValid` that is also why the error `Compile` returns when
  `Validate` refuses its packet is not an action of the model: it is never returned.
  Only then is a position as good as a handle (`ItemIsReadBack`,
  `EdgeIsReadBack`). `WireIsNoLarger` compares the sizes, since a table
  of paths has no more entries than there are items, and `SettleWireIs` shows that the seven rounds
  end with a size that agrees with itself and is within the budget of the packet, so
  `EncodeContextV2` never fails.

Only model-checked: `EveryCallReturns`, `EveryRequestReturns` and `Returns` (liveness
under fairness is out of the prover's reach); and the other properties of `answers`. Those of
PHP, templates, Python, `Linking` and `Expansion` are about recursive operators, of
which nothing can be proved here. `ChangesAreLocated`, `SearchFindsTheBest`,
`SegmentsShowTheMatch` and `PlanKeepsItsNames` are about folds and have no proof. TLC
checked the inductive invariants on instances like those of section 4 before they were
proved.

## 6. Where code and documentation differ

* **`incremental_alias`** (a run). The tests compare an update with a rebuild and
  demand equality. An import whose target reaches its file through a path alias of
  `tsconfig.json` (`import "@app/setup"`) has no key but its own spelling, so an
  update that adds the file neither extracts nor links the importer again; the
  relation stays unresolved until the next full pass. The same holds for every
  target that project facts map to a file (Go modules, `psr-4`, package `main` and
  `exports`), for Python names of modules whose last part begins with a small
  letter, and for C++ calls of `::f`. `Linking` computes the keys and exempts
  these in `FallsShort`.

Six more are invariants that TLC refutes at once when one of these is put into
the configuration of its module (for `SentBundleFits`, of `MCAnswers`):

* **`SetupCanRunAgain`** (`StoreLifecycle`). "It is safe to run again": a setup that
  dies, or whose migration fails, between creating `index.db` and committing its
  schema leaves a file without a schema version that every later open rejects.
* **`ReadsKeepTheirDatabase`** (`StoreLifecycle`). The comment on the gate says
  concurrent calls on the service are kept out while the upgrade swaps databases.
  Reads do not pass the gate; one that holds the writer lock's turn before
  `FinalizeUpgrade` has its database closed under it.
* **`BudgetBoundsWaits`** (`IndexLock`). The budget "does not cancel the operation
  itself after the locks have been acquired" (`indexlock/lock.go`). The context that
  carries it also reaches `FinalizeUpgrade`, whose reopening is one more lock. If
  indexing took longer than the budget, that lock is refused although it is free:
  the update fails with "index is in use" after the new database is in place.
* **`RangesAreOfTheRows`** (`ImpactRead`). `impactSourceCheck.verify` compares the scan with
  the index (`impact_freshness.go` 47-71) and nothing compares either with the diff
  (`evidence.go` 245-291). If a file was edited when git read it and has the indexed
  content again when the scanner does, the ranges of the edit are laid over the
  rows of another content, and symbols are called changed by lines that are not theirs.
* **`ChangedAreNotDisplaced`** (`ImpactRead`). Changed symbols are to keep their places
  (`docs/superpowers/plans/2026-10-18-residual-11-functional-fixes.md` 28). `Deduplicate` comes
  before the sort that puts them in front: an outline that changed is dropped for
  something related in its file, and a changed test for a related symbol of its lines.
* **`SentBundleFits`** (`ContextPacker`). The tests marshal a bundle and demand that it is
  within its budget (`budget_test.go` 34, `revision_budget_test.go` 34). `Pack` checks that with
  an estimate of zero (`budget.go` 258) and writes the estimate afterwards
  (185), so the digits of that number can carry the JSON past the budget; so can the savings and
  diagnostics that `app/service.go` (268, 316) adds later.

Seen while modelling, without a property of their own:

*Store and configuration.* Between the two renames of `FinalizeUpgrade`, which its
comment calls atomic, there is no `index.db`, so that a death there leaves only the
backup until the next update (nothing is lost: `ImplementsUpgrade`); when it cannot
remove the backup it returns an error although the new database is in place; a query
that updates first waits up to the limit twice, once for the update and once to read;
what another program writes to `config.toml` between `atomicWrite`'s comparison and
its rename is lost (`raced`); and `install --force` rewrites the user's `config.toml`
itself.

*PHP.* `declarationStart` (`php/parser.go` 567-613) does not end on an unmatched `]`
before a modifier or a bracket group before a keyword, and does not look at the
context: `Hangs` says when, and `PhpIsSearchable` exempts it. A Pest test's
`HeaderEnd` is a byte offset where others are positions; a closure's `use` inside a
class is taken for a trait; resolved calls carry both a handle and their target,
which `testutil/conformance.go` forbids and `store.go` relies on; keywords are
joined into names (`return f` before `(`); a function declared in a body is recorded
as a call of it; in a malformed `[ class A { ] function f(){} }` a member begins
before its class.

*Templates and the structural extractor.* A node without a static name makes its
content unsearchable; script lines outside declarations are in no chunk; nodes that
are not closed may have equal spans, and the order of a map decides which owns;
children of a recovered node may reach beyond it; the scanner ends a script at
`</script>` in a string only, the detector anywhere; an apostrophe in a regular
expression swallows the page. `braceBalanced` makes a chunk of one line when the
brace is on the next; `scanSource` tests the closing quote before the escape; a call
at the beginning of a line is taken for a method; text of a Markdown file before its
first heading is in no chunk.

*Python.* A declaration's own header reads like a call of it; calls of names that
begin with `def` are dropped; `from . import x` is recorded one level too high; a class
body does not see the names of its own class; `if x: import t`, chained assignments,
`except ... as t`, `:=` and bodies on the header's line bind nothing; a keyword
argument on a line of its own binds; `import a; x` binds nothing, because its parts are
divided at commas only; keywords before `(` are calls; code of a module
outside functions, of class bodies and decorators is in no chunk, and does not hide
functions of its names.

*Linking and expansion.* The lookup index of a link pass misses files nested
deeper than directly in a directory a target names (`IsNested`). An unresolved call
of a C++ function shows C functions of its name among its callees, which their
callers do not show back; a test that names a symbol by its humps is found from the
symbol only; an absolute PHP name that is ambiguous leads to nothing. The default
relation is `self` for evidence and `neighbors` for bundles. In `linker.go` lines
333-335 and 383-385 are without effect, and four branches of
`relatedCandidatesLegacy` are never reached.

*Answers.* The loop that takes candidates back in `Compile` (148-153) never runs;
`budget_limited` is also said when only known or duplicate candidates were left
out; the pruning of known handles for `self` never applies; taking an item back in
`Pack` counts as an omission, which can itself enlarge the bundle.

## 7. Not modelled

* All lexers, and the parsers of the languages other than PHP, templates and Python:
  C++, C#, Go, JavaScript, Lua, Nim, Pawn, resx, Ruby, Rust, VB, XAML and Zig. They are
  functions of one text, as the three that are modelled; what the rest of the program
  relies on of them (declarations with handles, relations with targets) is in
  `IncrementalIndex` and `Linking` as any extraction. `IncrementalIndex` needs no more
  than that an extraction is a function of the file.
* Of the modelled extractors: heredocs, arrow functions and type aliases, and
  `verbatim` in template scripts; the outlines of templates; Python strings (the view
  of the code without them is the input).
* Language detection but for the Smarty marker; scanning rules of the repository
  (a set of paths per setting), parsing of manifests and of configurations.
* Renames, binary files and quoted paths in a diff.
* Full text search and the weights of terms in a score: a retriever finds a set of
  chunks, and a score is what of it decides an order. The order of the rows of one
  expansion.
* Rendering, command line, evaluation and benchmarks, savings, status and health
  reports: output around one call, without state.
* SQLite's own transactions are assumed: a commit is atomic and survives a
  death, an uncommitted transaction leaves nothing.
* Hash collisions, and power failures that reorder writes.
* Network file systems on which `flock` does not exclude.
* In `IndexCycle` the opening of the store; in `StoreLifecycle` the detail of an
  update. The one place where they touch, `FinalizeUpgrade` at the end of an
  update of a store whose upgrade is pending, is in `StoreLifecycle`.

-------------------------- MODULE IndexCycleProofs --------------------------
(***************************************************************************)
(* Proofs about IndexCycle, for any number of requests, processes,         *)
(* settings, files, versions and crashes.                                  *)
(***************************************************************************)
EXTENDS IndexCycle, TLAPS

-----------------------------------------------------------------------------
(* Types                                                                   *)

LEMMA SettingType ==
  ASSUME NEW s \in Setting
  PROVE  s.config \in Hash /\ s.extraction \in Hash /\ s.extractor \in Hash
  BY ConstantsAssumption

LEMMA MyType ==
  ASSUME NEW r \in Request
  PROVE  My(r) \in Setting /\ Home[r] \in Process
  BY ConstantsAssumption DEF My

LEMMA NoJobType == NoJob \in Job
  <1>1. NotScanned \in [{} -> Version]
    BY DEF NotScanned
  <1>2. NotScanned \in PartialScan
    BY <1>1 DEF PartialScan
  <1> QED BY <1>2 DEF NoJob, Job

LEMMA InitType == Init => TypeOK
  <1> SUFFICES ASSUME Init PROVE TypeOK
    OBVIOUS
  <1>1. tree \in Scan
    BY ConstantsAssumption DEF Init, Scan, Version
  <1>2. rows \in [Path -> Row \cup {NoRow}] /\ meta \in Meta /\ runDone \in BOOLEAN
    <2>1. CASE /\ rows = [p \in Path |-> NoRow]
               /\ meta = NoMeta
               /\ runDone = FALSE
      BY <2>1 DEF NoMeta, Meta
    <2>2. ASSUME NEW s \in Setting, OldIndex(s, SelectedBy(s, tree))
          PROVE  rows \in [Path -> Row \cup {NoRow}] /\ meta \in Meta /\ runDone \in BOOLEAN
      <3> DEFINE scan == SelectedBy(s, tree)
      <3>1. scan \in Scan
        BY <1>1, ConstantsAssumption DEF SelectedBy, Scan, Version
      <3>2. Rebuilt(scan, s) \in [Path -> Row \cup {NoRow}]
        BY <3>1, SettingType, ConstantsAssumption
           DEF Rebuilt, Extracted, Row, FactsOf, Scan
      <3>3. FactsOf(scan) \in Version
        BY <3>1, ConstantsAssumption DEF FactsOf, Scan
      <3>4. rows \in [Path -> Row \cup {NoRow}]
        BY <2>2, <3>2, <3>3 DEF OldIndex, Row
      <3> QED BY <2>2, <3>1, <3>3, <3>4, SettingType DEF OldIndex, Meta
    <2> QED BY <2>1, <2>2 DEF Init
  <1>3. job \in [Request -> Job]
    BY NoJobType DEF Init
  <1> QED
    BY <1>1, <1>2, <1>3, ConstantsAssumption DEF Init, TypeOK, Steps, Ops

LEMMA PlanType ==
  ASSUME NEW r \in Request, NEW scan \in Scan
  PROVE  PlanOf(r, scan) \in Job
  <1>1. scan \in PartialScan
    BY DEF Scan, PartialScan
  <1> QED BY <1>1 DEF PlanOf, Job, ReindexRequired, LinkAll, ToParse

LEMMA FullScan ==
  ASSUME NEW scan \in PartialScan, DOMAIN scan = Path
  PROVE  scan \in Scan
  BY DEF PartialScan, Scan

LEMMA ExtendType ==
  ASSUME NEW scan \in PartialScan, NEW p \in Path, NEW v \in Version
  PROVE  Extend(scan, p, v) \in PartialScan
  <1>1. PICK D \in SUBSET Path : scan \in [D -> Version]
    BY DEF PartialScan
  <1>2. Extend(scan, p, v) \in [D \cup {p} -> Version]
    BY <1>1 DEF Extend
  <1> QED BY <1>2 DEF PartialScan

\* A job record whose scan grows stays a job record.
LEMMA ScanFileType ==
  ASSUME TypeOK, NEW r \in Request, NEW p \in Path, ScanFile(r, p)
  PROVE  job' \in [Request -> Job]
  <1> DEFINE v == IF p \in Selected[My(r)] THEN tree[p] ELSE 0
             new == [job[r] EXCEPT !.scan = Extend(job[r].scan, p, v)]
  <1>1. v \in Version
    BY ConstantsAssumption DEF TypeOK, Scan, Version
  <1>2. job[r] \in Job /\ job[r].scan \in PartialScan
    BY DEF TypeOK, Job
  <1>3. Extend(job[r].scan, p, v) \in PartialScan
    BY <1>1, <1>2, ExtendType
  <1>4. new \in Job
    <2> HIDE DEF v
    <2> QED BY <1>2, <1>3 DEF Job
  <1>5. job' = [job EXCEPT ![r] = new]
    BY DEF ScanFile
  <1> HIDE DEF new
  <1> QED BY <1>4, <1>5 DEF TypeOK

\* The scan of a run is total once the run is planned.
ScanDone == \A r \in Request :
  pc[r] \in {"apply", "link", "finalize", "stamp", "clear"} => job[r].scan \in Scan

LEMMA StepType == TypeOK /\ ScanDone /\ [Next]_vars => TypeOK' /\ ScanDone'
  <1> SUFFICES ASSUME TypeOK, ScanDone, [Next]_vars PROVE TypeOK' /\ ScanDone'
    OBVIOUS
  <1> USE DEF TypeOK, ScanDone, Goto, db, bounds
  <1>1. ASSUME NEW r \in Request, NEW o \in Ops, Begin(r, o) PROVE TypeOK' /\ ScanDone'
    BY <1>1, ConstantsAssumption DEF Begin, Steps
  <1>2. ASSUME NEW r \in Request, EnterGate(r) PROVE TypeOK' /\ ScanDone'
    BY <1>2, MyType DEF EnterGate, Steps
  <1>3. ASSUME NEW r \in Request, WaitExpires(r) PROVE TypeOK' /\ ScanDone'
    BY <1>3 DEF WaitExpires, StepAfterWait, Steps
  <1>4. ASSUME NEW r \in Request, AcquireWriter(r) PROVE TypeOK' /\ ScanDone'
    BY <1>4, NoJobType DEF AcquireWriter, Steps
  <1>5. ASSUME NEW r \in Request, NEW p \in Path, ScanFile(r, p) PROVE TypeOK' /\ ScanDone'
    <2>1. TypeOK'
      BY <1>5, ScanFileType DEF ScanFile
    <2>2. \A q \in Request : q # r => job'[q] = job[q]
      BY <1>5 DEF ScanFile
    <2> QED BY <1>5, <2>1, <2>2 DEF ScanFile
  <1>6. ASSUME NEW r \in Request, Plan(r) PROVE TypeOK' /\ ScanDone'
    <2>1. job[r].scan \in Scan
      BY <1>6, FullScan DEF Plan, Job
    <2>2. PlanOf(r, job[r].scan) \in Job /\ PlanOf(r, job[r].scan).scan \in Scan
      BY <2>1, PlanType DEF PlanOf
    <2> HIDE DEF db, bounds
    <2>3. job' = [job EXCEPT ![r] = PlanOf(r, job[r].scan)]
      BY <1>6 DEF Plan
    <2>4. TypeOK'
      BY <1>6, <2>2 DEF Plan, Steps, db, bounds
    <2> QED BY <1>6, <2>2, <2>3, <2>4 DEF Plan
  <1>7. ASSUME NEW r \in Request, Apply(r) PROVE TypeOK' /\ ScanDone'
    <2> DEFINE scan == job[r].scan
    <2>1. My(r).config \in Hash /\ My(r).extraction \in Hash /\ My(r).extractor \in Hash
      BY MyType, SettingType
    <2>2. scan \in Scan
      BY <1>7 DEF Apply
    <2>3. \A p \in Path : Extracted(My(r), scan[p]) \in Row
      BY <2>1, <2>2 DEF Extracted, Row, Scan
    <2>4. rows' \in [Path -> Row \cup {NoRow}]
      BY <1>7, <2>3 DEF Apply
    <2>5. meta' \in Meta
      <3>1. FactsOf(scan) \in Version
        BY <2>2, ConstantsAssumption DEF FactsOf, Scan
      <3> QED BY <1>7, <2>1, <2>2, <3>1 DEF Apply, Meta
    <2> QED BY <1>7, <2>4, <2>5 DEF Apply, Steps
  <1>8. ASSUME NEW r \in Request, Link(r) PROVE TypeOK' /\ ScanDone'
    <2>1. FactsOf(job[r].scan) \in Version
      BY <1>8, ConstantsAssumption DEF FactsOf, Scan, Link
    <2>2. rows' \in [Path -> Row \cup {NoRow}]
      BY <1>8, <2>1 DEF Link, Row
    <2> QED BY <1>8, <2>2 DEF Link, Steps
  <1>9. ASSUME NEW r \in Request, Finalize(r) \/ Stamp(r) \/ Clear(r) PROVE TypeOK' /\ ScanDone'
    <2>1. meta' \in Meta
      BY <1>9 DEF Finalize, Stamp, Clear, Meta
    <2> QED BY <1>9, <2>1 DEF Finalize, Stamp, Clear, Steps
  <1>10. ASSUME NEW r \in Request, Fail(r) \/ ReleaseWriter(r) \/ LeaveGate(r)
         PROVE TypeOK' /\ ScanDone'
    BY <1>10, NoJobType, MyType DEF Fail, ReleaseWriter, LeaveGate, GateAfter, Steps
  <1>11. ASSUME NEW r \in Request,
                AcquireReader(r) \/ CheckReady(r) \/ EndRead(r) \/ ReleaseReader(r)
         PROVE TypeOK' /\ ScanDone'
    BY <1>11 DEF AcquireReader, CheckReady, EndRead, ReleaseReader, Steps
  <1>12. ASSUME NEW p \in Path, NEW v \in Version, Edit(p, v) PROVE TypeOK' /\ ScanDone'
    BY <1>12, ConstantsAssumption DEF Edit, Scan
  <1>13. ASSUME NEW x \in Process, Crash(x) PROVE TypeOK' /\ ScanDone'
    <2>1. held' \in [Request -> {"none", "shared", "exclusive"}]
      BY <1>13 DEF Crash
    <2>2. pc' \in [Request -> Steps]
      BY <1>13 DEF Crash, Steps
    <2>3. job' \in [Request -> Job]
      BY <1>13, NoJobType DEF Crash
    <2>4. ok' \in [Request -> BOOLEAN]
      BY <1>13 DEF Crash
    <2>5. seen' \in [Request -> [Path -> Row \cup {NoRow}] \cup {Unset}]
      BY <1>13 DEF Crash
    <2>6. gate' \in [Process -> Request \cup {Free}] /\ crashes' \in 0 .. MaxCrashes
      BY <1>13, ConstantsAssumption DEF Crash
    <2>7. ScanDone'
      BY <1>13 DEF Crash
    <2> QED BY <1>13, <2>1, <2>2, <2>3, <2>4, <2>5, <2>6, <2>7 DEF Crash
  <1>14. CASE UNCHANGED vars
    BY <1>14 DEF vars
  <1> QED
    BY <1>1, <1>2, <1>3, <1>4, <1>5, <1>6, <1>7, <1>8, <1>9, <1>10, <1>11, <1>12,
       <1>13, <1>14 DEF Next, Proceed

(* Every variable keeps its type.                                          *)
THEOREM TypeCorrect == Spec => []TypeOK
  <1>1. Init => TypeOK /\ ScanDone
    BY InitType DEF Init, ScanDone
  <1>2. TypeOK /\ ScanDone /\ [Next]_vars => TypeOK' /\ ScanDone'
    BY StepType
  <1> QED BY <1>1, <1>2, PTL DEF Spec

-----------------------------------------------------------------------------
(* The writer lock                                                         *)

(* An exclusive holder is alone, and the lock is held exactly where the    *)
(* program counters say.                                                   *)
LEMMA LockStep == TypeOK /\ LockInv /\ [Next]_vars => LockInv'
  <1> SUFFICES ASSUME TypeOK, LockInv, [Next]_vars PROVE LockInv'
    OBVIOUS
  <1> USE DEF TypeOK, LockInv, Writing, Reading, Running, Steps, Goto
  <1>1. ASSUME NEW r \in Request, NEW o \in Ops, Begin(r, o) PROVE LockInv'
    BY <1>1 DEF Begin
  <1>2. ASSUME NEW r \in Request, EnterGate(r) \/ WaitExpires(r) PROVE LockInv'
    BY <1>2 DEF EnterGate, WaitExpires, StepAfterWait
  <1>3. ASSUME NEW r \in Request, AcquireWriter(r) PROVE LockInv'
    BY <1>3 DEF AcquireWriter, WriterMayLock
  <1>4. ASSUME NEW r \in Request, NEW p \in Path, ScanFile(r, p) PROVE LockInv'
    BY <1>4 DEF ScanFile
  <1>5. ASSUME NEW r \in Request,
               Plan(r) \/ Apply(r) \/ Link(r) \/ Finalize(r) \/ Stamp(r) \/ Clear(r)
        PROVE  LockInv'
    BY <1>5 DEF Plan, Apply, Link, Finalize, Stamp, Clear
  <1>6. ASSUME NEW r \in Request, Fail(r) \/ ReleaseWriter(r) \/ LeaveGate(r)
        PROVE  LockInv'
    BY <1>6 DEF Fail, ReleaseWriter, LeaveGate
  <1>7. ASSUME NEW r \in Request, AcquireReader(r) \/ ReleaseReader(r) PROVE LockInv'
    BY <1>7 DEF AcquireReader, ReleaseReader
  <1>8. ASSUME NEW r \in Request, CheckReady(r) \/ EndRead(r) PROVE LockInv'
    BY <1>8 DEF CheckReady, EndRead
  <1>9. ASSUME NEW p \in Path, NEW v \in Version, Edit(p, v) PROVE LockInv'
    BY <1>9 DEF Edit
  <1>10. ASSUME NEW x \in Process, Crash(x) PROVE LockInv'
    BY <1>10 DEF Crash
  <1>11. CASE UNCHANGED vars
    BY <1>11 DEF vars
  <1> QED
    BY <1>1, <1>2, <1>3, <1>4, <1>5, <1>6, <1>7, <1>8, <1>9, <1>10, <1>11
       DEF Next, Proceed

\* While a run is under way, every other request is outside the lock.
LEMMA WriterIsAlone ==
  ASSUME TypeOK, LockInv, NEW r \in Request, pc[r] \in Writing,
         NEW q \in Request, q # r
  PROVE  pc[q] \notin Writing \cup Reading
  BY DEF TypeOK, LockInv, Writing, Reading, Running

-----------------------------------------------------------------------------
(* Steps that leave the database alone                                     *)

\* The steps of a run that rely on what the database holds.
Relying == {"apply", "link", "finalize", "stamp", "clear"}

DataInv == RowsInv /\ PendingInv /\ JobInv
ReadsInv == SeenInv /\ ReadInv

LEMMA QuietData ==
  ASSUME DataInv, UNCHANGED db,
         \A q \in Request : pc'[q] \in Relying =>
            pc'[q] = pc[q] /\ job'[q] = job[q] /\ op'[q] = op[q]
  PROVE  DataInv'
  <1>1. RowsInv' /\ PendingInv'
    BY DEF DataInv, RowsInv, PendingInv, NoneUnlinked, db
  <1>2. \A q \in Request : op'[q] = op[q] =>
          \A scan : PlanOf(q, scan)' = PlanOf(q, scan)
    BY DEF PlanOf, LinkAll, ReindexRequired, ToParse, My, db
  <1>3. JobInv'
    BY <1>2 DEF DataInv, JobInv, Relying, NoneUnlinked, My, db
  <1> QED BY <1>1, <1>3 DEF DataInv

LEMMA QuietReads ==
  ASSUME ReadsInv, UNCHANGED db,
         \A q \in Request : pc'[q] = "read" \/ seen'[q] # Unset =>
            pc'[q] = pc[q] /\ seen'[q] = seen[q] /\ op'[q] = op[q]
  PROVE  ReadsInv'
  <1>1. \A s : Ready(s)' = Ready(s)
    BY DEF Ready, db
  <1> QED BY <1>1 DEF ReadsInv, SeenInv, ReadInv, My, db

-----------------------------------------------------------------------------
(* The commits of a run                                                    *)

\* No other request has a plan or a read that a commit could disturb.
LEMMA OthersAreOut ==
  ASSUME TypeOK, LockInv, ReadsInv, NEW r \in Request, pc[r] \in Running
  PROVE  /\ \A q \in Request : q # r => pc[q] \notin Relying /\ pc[q] # "read"
         /\ \A q \in Request : seen[q] = Unset
  <1>1. \A q \in Request : q # r => pc[q] \notin Writing \cup Reading
    BY WriterIsAlone DEF Writing
  <1>2. \A q \in Request : pc[q] # "read"
    BY <1>1 DEF Reading, Running
  <1> QED BY <1>1, <1>2 DEF Relying, Writing, Running, Reading, ReadsInv, SeenInv

\* Nobody reads during the commits of a run, nor right after them.
LEMMA CommitReads ==
  ASSUME TypeOK, LockInv, ReadsInv, NEW r \in Request, pc[r] \in Running,
         NEW to \in Steps \ {"read"}, Goto(r, to), UNCHANGED <<seen, op>>
  PROVE  ReadsInv'
  <1>1. \A q \in Request : pc'[q] # "read" /\ seen'[q] = Unset
    BY OthersAreOut DEF Goto, TypeOK, Running
  <1> QED BY <1>1 DEF ReadsInv, SeenInv, ReadInv

LEMMA ApplyData ==
  ASSUME TypeOK, ScanDone, LockInv, DataInv, ReadsInv, NEW r \in Request, Apply(r)
  PROVE  DataInv'
  <1> DEFINE scan == job[r].scan
             s == My(r)
  <1>1. pc[r] = "apply" /\ scan \in Scan /\ job[r] = PlanOf(r, scan)
    BY DEF Apply, DataInv, JobInv
  <1>2. s \in Setting /\ s.config \in Hash /\ s.extraction \in Hash /\ s.extractor \in Hash
    BY MyType, SettingType
  <1>3. meta' = [meta EXCEPT !.revision = scan, !.config = s.config,
                  !.extraction = s.extraction, !.extractor = s.extractor,
                  !.facts = FactsOf(scan), !.pending = "1"]
    BY DEF Apply
  <1>4. /\ meta'.revision = scan /\ meta'.config = s.config
        /\ meta'.extraction = s.extraction /\ meta'.extractor = s.extractor
        /\ meta'.facts = FactsOf(scan) /\ meta'.pending = "1"
    BY <1>3 DEF TypeOK, Meta
  \* What the plan says, file by file.
  <1>5. /\ job[r].update = {p \in ToParse(r, scan) : Parses(p, scan[p])}
        /\ job[r].delete = {p \in Path : rows[p] # NoRow /\
                              (scan[p] = 0 \/ (p \in ToParse(r, scan) /\ ~Parses(p, scan[p])))}
        /\ job[r].linkAll = LinkAll(r, scan)
    BY <1>1 DEF PlanOf
  <1>6. ASSUME NEW p \in Path
        PROVE  \/ p \in job[r].update /\ Parses(p, scan[p])
               \/ /\ p \notin job[r].update /\ p \in job[r].delete /\ ~Parses(p, scan[p])
               \/ /\ p \notin job[r].update /\ p \notin job[r].delete
                  /\ rows[p] = NoRow /\ ~Parses(p, scan[p])
               \/ /\ p \notin job[r].update /\ p \notin job[r].delete
                  /\ rows[p] # NoRow /\ rows[p].version = scan[p] /\ scan[p] # 0
                  /\ ~ReindexRequired(r, scan)
    BY <1>5 DEF ToParse, Parses
  \* A row the plan keeps belongs to a revision with the same content for it.
  <1>7. ASSUME NEW p \in Path, rows[p] # NoRow, rows[p].version = scan[p],
               ~ReindexRequired(r, scan)
        PROVE  /\ Parses(p, scan[p])
               /\ \E l \in {Unlinked, FactsOf(scan)} :
                    rows[p] = [version |-> scan[p], extraction |-> s.extraction,
                               extractor |-> s.extractor, linked |-> l]
    <2>1. /\ meta.extraction = s.extraction /\ meta.extractor = s.extractor
          /\ meta.facts = FactsOf(scan)
      BY <1>7 DEF ReindexRequired
    <2>2. /\ Parses(p, meta.revision[p])
          /\ \E l \in {Unlinked, meta.facts} :
               rows[p] = [version |-> meta.revision[p], extraction |-> meta.extraction,
                          extractor |-> meta.extractor, linked |-> l]
      BY <1>7 DEF DataInv, RowsInv
    <2>3. PICK l \in {Unlinked, meta.facts} :
            rows[p] = [version |-> meta.revision[p], extraction |-> meta.extraction,
                       extractor |-> meta.extractor, linked |-> l]
      BY <2>2
    <2>4. meta.revision[p] = scan[p]
      BY <2>3, <1>7
    <2> QED BY <2>1, <2>2, <2>3, <2>4
  <1>8. rows' = [p \in Path |-> IF p \in job[r].update THEN Extracted(s, scan[p])
                               ELSE IF p \in job[r].delete THEN NoRow ELSE rows[p]]
    BY DEF Apply
  <1>9. ASSUME NEW p \in Path
        PROVE  \/ rows'[p] = NoRow /\ ~Parses(p, scan[p])
               \/ /\ Parses(p, scan[p])
                  /\ \E l \in {Unlinked, FactsOf(scan)} :
                       rows'[p] = [version |-> scan[p], extraction |-> s.extraction,
                                   extractor |-> s.extractor, linked |-> l]
    <2>1. CASE p \in job[r].update /\ Parses(p, scan[p])
      BY <2>1, <1>8 DEF Extracted
    <2>2. CASE p \notin job[r].update /\ p \in job[r].delete /\ ~Parses(p, scan[p])
      BY <2>2, <1>8
    <2>3. CASE /\ p \notin job[r].update /\ p \notin job[r].delete
               /\ rows[p] = NoRow /\ ~Parses(p, scan[p])
      BY <2>3, <1>8
    <2>4. CASE /\ p \notin job[r].update /\ p \notin job[r].delete
               /\ rows[p] # NoRow /\ rows[p].version = scan[p]
               /\ ~ReindexRequired(r, scan)
      BY <2>4, <1>7, <1>8
    <2> QED BY <1>6, <2>1, <2>2, <2>3, <2>4
  <1>10. RowsInv'
    BY <1>1, <1>2, <1>4, <1>9 DEF RowsInv, FactsOf
  <1>11. PendingInv'
    BY <1>4 DEF PendingInv
  \* Without pending links before, only the new rows are unlinked now.
  <1>12. \/ job[r].linkAll
         \/ \A p \in Path : rows'[p] # NoRow /\ rows'[p].linked = Unlinked
                           => p \in job[r].update
    <2> SUFFICES ASSUME ~job[r].linkAll, NEW p \in Path, p \notin job[r].update,
                        rows'[p] # NoRow, rows'[p].linked = Unlinked
                 PROVE  FALSE
      OBVIOUS
    <2>1. meta.pending = "0"
      BY <1>5 DEF LinkAll
    <2>2. rows'[p] = rows[p]
      BY <1>8
    <2> QED BY <2>1, <2>2 DEF DataInv, PendingInv, NoneUnlinked
  <1>13. pc' = [pc EXCEPT ![r] = "link"] /\ UNCHANGED <<job, op>>
    BY DEF Apply, Goto
  <1>14. \A q \in Request : q # r => pc'[q] \notin Relying
    BY <1>13, OthersAreOut, <1>1 DEF TypeOK, Running
  <1>15. pc'[r] = "link" /\ job'[r] = job[r]
    BY <1>13 DEF TypeOK
  <1>16. JobInv'
    <2> SUFFICES ASSUME NEW q \in Request PROVE
          (/\ pc[q] = "apply" => /\ job[q].scan \in Scan
                                /\ job[q] = PlanOf(q, job[q].scan)
           /\ pc[q] \in {"link", "finalize", "stamp", "clear"} =>
                /\ job[q].scan \in Scan /\ meta.revision = job[q].scan
                /\ meta.config = My(q).config /\ meta.extraction = My(q).extraction
                /\ meta.extractor = My(q).extractor /\ meta.pending = "1"
           /\ pc[q] = "link" => \/ job[q].linkAll
                                \/ \A p \in Path : rows[p] # NoRow /\ rows[p].linked = Unlinked
                                                  => p \in job[q].update
           /\ pc[q] \in {"finalize", "stamp", "clear"} => NoneUnlinked
           /\ pc[q] \in {"stamp", "clear"} => runDone
           /\ pc[q] = "clear" => meta.success)'
      BY DEF JobInv
    <2>1. CASE q # r
      BY <2>1, <1>14 DEF Relying
    <2>2. CASE q = r
      BY <2>2, <1>1, <1>4, <1>12, <1>15 DEF My
    <2> QED BY <2>1, <2>2
  <1> QED BY <1>10, <1>11, <1>16 DEF DataInv

\* A file that parses has a row in an index that has a revision.
LEMMA RowIsNotNoRow ==
  ASSUME TypeOK, RowsInv, meta.revision \in Scan, NEW p \in Path, rows[p] = NoRow
  PROVE  ~Parses(p, meta.revision[p])
  <1>1. SUFFICES ASSUME NEW l \in {Unlinked, meta.facts},
                        meta.extraction \in Hash, meta.extractor \in Hash,
                        meta.facts = FactsOf(meta.revision),
                        rows[p] = [version |-> meta.revision[p],
                                   extraction |-> meta.extraction,
                                   extractor |-> meta.extractor, linked |-> l]
                 PROVE  FALSE
    BY ConstantsAssumption DEF RowsInv
  <1>2. meta.revision[p] \in Version /\ meta.facts \in Version
    BY <1>1, ConstantsAssumption DEF FactsOf, Scan
  <1>3. rows[p] \in Row
    BY <1>1, <1>2 DEF Row
  <1> QED BY <1>3, ConstantsAssumption

\* The link pass leaves no row of the index unlinked.
LEMMA LinkData ==
  ASSUME TypeOK, ScanDone, LockInv, DataInv, ReadsInv, NEW r \in Request, Link(r)
  PROVE  DataInv'
  <1> DEFINE scan == job[r].scan
             reached(p) == job[r].linkAll \/ p \in job[r].update \cup job[r].delete
  <1>1. /\ pc[r] = "link" /\ scan \in Scan /\ meta.revision = scan
        /\ meta.pending = "1" /\ meta.facts = FactsOf(scan)
        /\ meta.config = My(r).config /\ meta.extraction = My(r).extraction
        /\ meta.extractor = My(r).extractor
    <2>1. pc[r] = "link" /\ scan \in Scan /\ meta.revision = scan /\ meta.pending = "1"
      BY DEF Link, DataInv, JobInv
    <2>2. meta.facts = FactsOf(scan)
      BY <2>1, ConstantsAssumption DEF DataInv, RowsInv
    <2> QED BY <2>1, <2>2 DEF DataInv, JobInv
  <1>2. /\ rows' = [p \in Path |->
                       IF rows[p] # NoRow /\ rows[p].linked = Unlinked /\ reached(p)
                       THEN [rows[p] EXCEPT !.linked = FactsOf(scan)] ELSE rows[p]]
        /\ pc' = [pc EXCEPT ![r] = "finalize"] /\ UNCHANGED <<meta, runDone, job, op>>
    BY DEF Link, Goto
  <1>3. FactsOf(scan) # Unlinked
    BY <1>1, ConstantsAssumption DEF FactsOf, Scan
  <1>4. ASSUME NEW p \in Path
        PROVE  \/ rows'[p] = NoRow /\ rows[p] = NoRow /\ ~Parses(p, scan[p])
               \/ /\ Parses(p, scan[p])
                  /\ rows'[p] = [version |-> scan[p], extraction |-> meta.extraction,
                                 extractor |-> meta.extractor, linked |-> FactsOf(scan)]
    <2>1. CASE rows[p] = NoRow
      <3>1. ~Parses(p, scan[p])
        BY <2>1, <1>1, RowIsNotNoRow DEF DataInv
      <3> QED BY <2>1, <3>1, <1>2
    <2>2. CASE rows[p] # NoRow
      <3>1. /\ Parses(p, scan[p])
            /\ \E l \in {Unlinked, meta.facts} :
                 rows[p] = [version |-> scan[p], extraction |-> meta.extraction,
                            extractor |-> meta.extractor, linked |-> l]
        BY <2>2, <1>1 DEF DataInv, RowsInv
      <3>2. CASE rows[p].linked = Unlinked
        <4>1. reached(p)
          BY <2>2, <3>2, <1>1 DEF DataInv, JobInv
        <4>2. rows'[p] = [rows[p] EXCEPT !.linked = FactsOf(scan)]
          BY <4>1, <2>2, <3>2, <1>2
        <4> QED BY <3>1, <4>2
      <3>3. CASE rows[p].linked # Unlinked
        <4>1. rows'[p] = rows[p]
          BY <3>3, <1>2
        <4> QED BY <3>1, <3>3, <4>1, <1>1
      <3> QED BY <3>2, <3>3
    <2> QED BY <2>1, <2>2
  <1>5. RowsInv'
    <2>1. /\ meta'.revision = scan /\ scan \in Scan /\ meta' = meta
          /\ meta.extraction \in Hash /\ meta.extractor \in Hash
      BY <1>1, <1>2, MyType, SettingType
    <2>2. meta'.facts = FactsOf(meta'.revision)
      BY <1>1, <2>1 DEF FactsOf
    <2>3. ASSUME NEW p \in Path
          PROVE  \/ rows'[p] = NoRow /\ ~Parses(p, meta'.revision[p])
                 \/ /\ Parses(p, meta'.revision[p])
                    /\ \E l \in {Unlinked, meta'.facts} :
                         rows'[p] = [version |-> meta'.revision[p],
                                     extraction |-> meta'.extraction,
                                     extractor |-> meta'.extractor, linked |-> l]
      BY <1>1, <1>4, <2>1
    <2> QED BY <2>1, <2>2, <2>3 DEF RowsInv, FactsOf
  <1>6. NoneUnlinked'
    <2>1. ASSUME NEW p \in Path, rows'[p] # NoRow
          PROVE  rows'[p].linked # Unlinked
      <3>1. rows'[p] = [version |-> scan[p], extraction |-> meta.extraction,
                        extractor |-> meta.extractor, linked |-> FactsOf(scan)]
        BY <2>1, <1>4
      <3> QED BY <3>1, <1>3
    <2> QED BY <2>1 DEF NoneUnlinked
  <1>7. PendingInv'
    BY <1>1, <1>2 DEF PendingInv
  <1>8. \A q \in Request : q # r => pc'[q] \notin Relying
    BY <1>1, <1>2, OthersAreOut DEF TypeOK, Running
  <1>9. pc'[r] = "finalize"
    BY <1>2 DEF TypeOK
  <1>10. JobInv'
    BY <1>1, <1>2, <1>6, <1>8, <1>9 DEF JobInv, Relying, My
  <1> QED BY <1>5, <1>7, <1>10 DEF DataInv

\* The three single-row commits at the end of a run.
LEMMA FinishData ==
  ASSUME TypeOK, ScanDone, LockInv, DataInv, ReadsInv, NEW r \in Request,
         Finalize(r) \/ Stamp(r) \/ Clear(r)
  PROVE  DataInv'
  <1>1. pc[r] \in {"finalize", "stamp", "clear"} /\ NoneUnlinked /\ meta.revision \in Scan
    BY DEF Finalize, Stamp, Clear, DataInv, JobInv
  <1>2. \A q \in Request : q # r => pc[q] \notin Relying
    BY <1>1, OthersAreOut DEF Running
  <1>3. /\ UNCHANGED <<rows, job, op>>
        /\ meta'.revision = meta.revision /\ meta'.config = meta.config
        /\ meta'.extraction = meta.extraction /\ meta'.extractor = meta.extractor
        /\ meta'.facts = meta.facts
    BY DEF Finalize, Stamp, Clear, TypeOK, Meta
  <1>4. NoneUnlinked' /\ RowsInv'
    BY <1>1, <1>3, ConstantsAssumption DEF NoneUnlinked, RowsInv, DataInv
  <1>5. CASE Finalize(r)
    <2>1. /\ pc[r] = "finalize" /\ pc' = [pc EXCEPT ![r] = "stamp"] /\ runDone' = TRUE
          /\ meta' = meta
      BY <1>5 DEF Finalize, Goto
    <2>2. PendingInv'
      BY <2>1, <1>3, <1>4 DEF PendingInv, DataInv
    <2>3. JobInv'
      BY <2>1, <1>2, <1>3, <1>4 DEF JobInv, DataInv, Relying, TypeOK, My
    <2> QED BY <2>2, <2>3, <1>4 DEF DataInv
  <1>6. CASE Stamp(r)
    <2>1. /\ pc[r] = "stamp" /\ pc' = [pc EXCEPT ![r] = "clear"] /\ runDone' = runDone
          /\ meta'.success /\ meta'.pending = meta.pending
      BY <1>6 DEF Stamp, Goto, TypeOK, Meta
    <2>2. PendingInv'
      BY <2>1, <1>3, <1>4 DEF PendingInv, DataInv
    <2>3. JobInv'
      BY <2>1, <1>2, <1>3, <1>4 DEF JobInv, DataInv, Relying, TypeOK, My
    <2> QED BY <2>2, <2>3, <1>4 DEF DataInv
  <1>7. CASE Clear(r)
    <2>1. /\ pc[r] = "clear" /\ pc' = [pc EXCEPT ![r] = "release"] /\ runDone' = runDone
      BY <1>7 DEF Clear, Goto
    <2>2. runDone
      BY <2>1 DEF DataInv, JobInv
    <2>3. PendingInv'
      BY <2>1, <2>2, <1>1, <1>3, <1>4, ConstantsAssumption DEF PendingInv
    <2>4. \A q \in Request : pc'[q] \notin Relying
      BY <2>1, <1>2 DEF TypeOK, Relying
    <2>5. JobInv'
      BY <2>4 DEF JobInv, Relying
    <2> QED BY <2>3, <2>5, <1>4 DEF DataInv
  <1> QED BY <1>5, <1>6, <1>7

-----------------------------------------------------------------------------
(* The inductive invariant                                                 *)

LEMMA InitInv == Init => IInv
  <1> SUFFICES ASSUME Init PROVE IInv
    OBVIOUS
  <1>1. TypeOK
    BY InitType
  <1>2. LockInv /\ JobInv /\ SeenInv /\ ReadInv
    BY DEF Init, LockInv, JobInv, SeenInv, ReadInv, Writing, Running, Reading
  <1>3. RowsInv /\ PendingInv
    <2>1. CASE /\ rows = [p \in Path |-> NoRow]
               /\ meta = NoMeta
               /\ runDone = FALSE
      <3>1. meta.revision = Unset /\ meta.pending = Unset
        BY <2>1 DEF NoMeta
      <3>2. \A p \in Path : rows[p] = NoRow
        BY <2>1
      <3> QED BY <3>1, <3>2, ConstantsAssumption DEF RowsInv, PendingInv
    <2>2. ASSUME NEW s \in Setting, OldIndex(s, SelectedBy(s, tree))
          PROVE  RowsInv /\ PendingInv
      <3> DEFINE scan == SelectedBy(s, tree)
      <3>1. scan \in Scan
        BY <1>1, ConstantsAssumption DEF SelectedBy, Scan, Version, TypeOK
      <3>2. /\ meta.revision = scan /\ meta.extraction = s.extraction
            /\ meta.extractor = s.extractor /\ meta.facts = FactsOf(scan)
            /\ meta.pending = Unset
        BY <2>2 DEF OldIndex
      <3>3. PICK q \in Path, k \in {Unlinked, FactsOf(scan)} :
              rows = [Rebuilt(scan, s) EXCEPT ![q] =
                        IF @ = NoRow THEN NoRow ELSE [@ EXCEPT !.linked = k]]
        BY <2>2 DEF OldIndex
      <3> HIDE DEF scan
      <3>4. ASSUME NEW p \in Path
            PROVE  \/ rows[p] = NoRow /\ ~Parses(p, scan[p])
                   \/ /\ Parses(p, scan[p])
                      /\ \E l \in {Unlinked, FactsOf(scan)} :
                           rows[p] = [version |-> scan[p], extraction |-> s.extraction,
                                      extractor |-> s.extractor, linked |-> l]
        <4> DEFINE rebuilt == [version |-> scan[p], extraction |-> s.extraction,
                               extractor |-> s.extractor, linked |-> FactsOf(scan)]
        <4>1. CASE ~Parses(p, scan[p])
          BY <3>3, <4>1 DEF Rebuilt
        <4>2. CASE Parses(p, scan[p])
          <5>1. rebuilt \in Row
            BY <3>1, SettingType, ConstantsAssumption DEF Row, FactsOf, Scan
          <5>2. Rebuilt(scan, s)[p] = rebuilt /\ rebuilt # NoRow
            BY <5>1, <4>2, ConstantsAssumption DEF Rebuilt, Extracted
          <5>3. rows[p] = IF p = q THEN [rebuilt EXCEPT !.linked = k] ELSE rebuilt
            BY <3>3, <5>2 DEF Rebuilt
          <5> QED BY <4>2, <5>3
        <4> QED BY <4>1, <4>2
      <3>5. RowsInv
        BY <3>1, <3>2, <3>4, SettingType DEF RowsInv
      <3> QED BY <3>2, <3>5, ConstantsAssumption DEF PendingInv
    <2> QED BY <2>1, <2>2 DEF Init
  <1> QED BY <1>1, <1>2, <1>3 DEF IInv

LEMMA StepInv == IInv /\ [Next]_vars => IInv'
  <1> SUFFICES ASSUME IInv, [Next]_vars PROVE IInv'
    OBVIOUS
  <1>1. TypeOK /\ ScanDone /\ LockInv /\ DataInv /\ ReadsInv
    BY DEF IInv, ScanDone, JobInv, DataInv, ReadsInv
  <1>2. TypeOK' /\ LockInv'
    BY <1>1, StepType, LockStep
  <1> USE DEF Goto, bounds
  <1>3. ASSUME NEW r \in Request, NEW o \in Ops, Begin(r, o) PROVE DataInv' /\ ReadsInv'
    <2>1. /\ UNCHANGED <<db, job, seen>> /\ pc[r] = "idle"
          /\ \A q \in Request : q # r => pc'[q] = pc[q] /\ op'[q] = op[q]
          /\ pc'[r] \notin Relying \cup {"read"}
      BY <1>1, <1>3 DEF Begin, TypeOK, Relying
    <2>2. seen[r] = Unset
      BY <2>1, <1>1 DEF ReadsInv, SeenInv
    <2>3. UNCHANGED db
      BY <2>1
    <2>4. DataInv'
      BY <1>1, <2>1, <2>3, QuietData DEF Relying
    <2>5. \A q \in Request : pc'[q] = "read" \/ seen'[q] # Unset => q # r
      BY <2>1, <2>2
    <2>6. ReadsInv'
      BY <1>1, <2>1, <2>3, <2>5, QuietReads
    <2> QED BY <2>4, <2>6
  <1>4. ASSUME NEW r \in Request,
               EnterGate(r) \/ WaitExpires(r) \/ AcquireWriter(r) \/ ReleaseWriter(r)
                 \/ LeaveGate(r) \/ Fail(r) \/ AcquireReader(r) \/ ReleaseReader(r)
        PROVE  DataInv' /\ ReadsInv'
    <2>1. /\ UNCHANGED <<db, op, seen>>
          /\ \A q \in Request : q # r => pc'[q] = pc[q] /\ job'[q] = job[q]
      BY <1>1, <1>4
         DEF EnterGate, WaitExpires, StepAfterWait, AcquireWriter, ReleaseWriter, LeaveGate,
             Fail, AcquireReader, ReleaseReader, TypeOK
    <2>2. pc'[r] \notin Relying /\ (pc'[r] = "read" => op[r] = "status")
      BY <1>1, <1>4
         DEF EnterGate, WaitExpires, StepAfterWait, AcquireWriter, ReleaseWriter, LeaveGate,
             Fail, AcquireReader, ReleaseReader, TypeOK, Relying
    <2>3. pc[r] # "read"
      BY <1>4
         DEF EnterGate, WaitExpires, AcquireWriter, ReleaseWriter, LeaveGate, Fail, Running,
             AcquireReader, ReleaseReader
    <2>4. seen[r] = Unset
      BY <2>3, <1>1 DEF ReadsInv, SeenInv
    <2>5. DataInv'
      BY <1>1, <2>1, <2>2, QuietData
    <2>6. \A s : Ready(s)' = Ready(s)
      BY <2>1 DEF Ready, db
    <2>7. ReadsInv'
      BY <1>1, <2>1, <2>2, <2>4, <2>6 DEF ReadsInv, SeenInv, ReadInv, My, db
    <2> QED BY <2>5, <2>7
  <1>5. ASSUME NEW r \in Request, NEW p \in Path, ScanFile(r, p) PROVE DataInv' /\ ReadsInv'
    <2>1. /\ UNCHANGED <<db, pc, op, seen>> /\ pc[r] = "scan"
          /\ \A q \in Request : q # r => job'[q] = job[q]
      BY <1>1, <1>5 DEF ScanFile, TypeOK
    <2> QED BY <1>1, <2>1, QuietData, QuietReads DEF Relying
  <1>6. ASSUME NEW r \in Request, Plan(r) PROVE DataInv' /\ ReadsInv'
    <2> DEFINE scan == job[r].scan
    <2>1. /\ UNCHANGED <<db, op, seen>> /\ pc[r] = "scan"
          /\ pc' = [pc EXCEPT ![r] = "apply"]
          /\ job' = [job EXCEPT ![r] = PlanOf(r, scan)]
      BY <1>6 DEF Plan
    <2>2. scan \in Scan
      BY <1>1, <1>6, FullScan DEF Plan, TypeOK, Job
    <2>3. job'[r].scan = scan /\ job'[r] = PlanOf(r, scan)
      BY <1>1, <2>1 DEF TypeOK, PlanOf
    <2>5. \A q \in Request : \A any : PlanOf(q, any)' = PlanOf(q, any)
      BY <2>1 DEF PlanOf, LinkAll, ReindexRequired, ToParse, My, db
    <2>6. \A q \in Request : q # r => pc'[q] \notin Relying
      BY <1>1, <2>1, OthersAreOut DEF TypeOK, Running
    <2>7. pc'[r] = "apply"
      BY <1>1, <2>1 DEF TypeOK
    <2>8. JobInv'
      BY <2>2, <2>3, <2>5, <2>6, <2>7 DEF JobInv, Relying
    <2>9. RowsInv' /\ PendingInv'
      BY <1>1, <2>1 DEF DataInv, RowsInv, PendingInv, NoneUnlinked, db
    <2>10. ReadsInv'
      BY <1>1, <1>6, <2>1, CommitReads DEF Running, Steps
    <2> QED BY <2>8, <2>9, <2>10 DEF DataInv
  <1>7. ASSUME NEW r \in Request, Apply(r) \/ Link(r) \/ Finalize(r) \/ Stamp(r) \/ Clear(r)
        PROVE  DataInv' /\ ReadsInv'
    <2>1. DataInv'
      BY <1>1, <1>7, ApplyData, LinkData, FinishData
    <2>2. \E to \in {"link", "finalize", "stamp", "clear", "release"} :
             pc[r] \in Running /\ Goto(r, to) /\ UNCHANGED <<seen, op>>
      BY <1>7 DEF Apply, Link, Finalize, Stamp, Clear, Running
    <2>3. ReadsInv'
      BY <1>1, <2>2, CommitReads DEF Steps
    <2> QED BY <2>1, <2>3
  <1>8. ASSUME NEW r \in Request, CheckReady(r) \/ EndRead(r) PROVE DataInv' /\ ReadsInv'
    <2>1. /\ UNCHANGED <<db, op, job>> /\ pc'[r] \notin Relying
          /\ \A q \in Request : q # r => pc'[q] = pc[q] /\ seen'[q] = seen[q]
      BY <1>1, <1>8 DEF CheckReady, EndRead, TypeOK, Relying
    <2>2. DataInv'
      BY <1>1, <2>1, QuietData
    <2>3. \A s : Ready(s)' = Ready(s)
      BY <2>1 DEF Ready, db
    <2>4. CASE pc'[r] = "read"
      <3>1. pc[r] = "check" /\ Ready(My(r)) /\ seen' = [seen EXCEPT ![r] = rows]
        BY <1>1, <1>8, <2>4 DEF CheckReady, EndRead, TypeOK
      <3>2. op[r] # "status"
        BY <1>1, <3>1 DEF LockInv
      <3> QED BY <1>1, <2>1, <2>2, <2>3, <2>4, <3>1, <3>2
              DEF ReadsInv, SeenInv, ReadInv, My, db, TypeOK
    <2>5. CASE pc'[r] # "read"
      <3>1. seen'[r] = Unset
        BY <1>1, <1>8, <2>5 DEF CheckReady, EndRead, TypeOK, ReadsInv, SeenInv
      <3> QED BY <1>1, <2>1, <2>2, <2>3, <2>5, <3>1 DEF ReadsInv, SeenInv, ReadInv, My, db
    <2> QED BY <2>4, <2>5
  <1>9. ASSUME NEW p \in Path, NEW v \in Version, Edit(p, v) PROVE DataInv' /\ ReadsInv'
    BY <1>1, <1>9, QuietData, QuietReads DEF Edit
  <1>10. ASSUME NEW x \in Process, Crash(x) PROVE DataInv' /\ ReadsInv'
    <2>1. /\ UNCHANGED <<db, op>>
          /\ \A q \in Request : \/ pc'[q] = "idle" /\ seen'[q] = Unset
                                \/ pc'[q] = pc[q] /\ job'[q] = job[q] /\ seen'[q] = seen[q]
      BY <1>10 DEF Crash
    <2>2. DataInv'
      BY <1>1, <2>1, QuietData DEF Relying
    <2>3. ReadsInv'
      BY <1>1, <2>1, QuietReads
    <2> QED BY <2>2, <2>3
  <1>11. ASSUME UNCHANGED vars PROVE DataInv' /\ ReadsInv'
    <2>1. UNCHANGED db /\ UNCHANGED <<pc, op, job, seen>>
      BY <1>11 DEF vars, db
    <2> QED BY <1>1, <2>1, QuietData, QuietReads
  <1> HIDE DEF Goto, bounds
  <1>12. ASSUME NEW r \in Request, Proceed(r) PROVE DataInv' /\ ReadsInv'
    BY <1>4, <1>5, <1>6, <1>7, <1>8, <1>12 DEF Proceed
  <1>13. DataInv' /\ ReadsInv'
    BY <1>3, <1>4, <1>9, <1>10, <1>11, <1>12 DEF Next
  <1> QED BY <1>2, <1>13 DEF IInv, DataInv, ReadsInv

-----------------------------------------------------------------------------
(* The theorems                                                            *)

(* The inductive invariant: who holds the lock at which step, what the     *)
(* rows are relative to the recorded revision, what pending = "0" says of  *)
(* links and run record, and what a run under way may rely on.             *)
THEOREM InvCorrect == Spec => []IInv
  <1> QED BY InitInv, StepInv, PTL DEF Spec

\* With no links pending, the rows are those of a rebuilt index.
LEMMA ReadyRows ==
  ASSUME IInv, NEW s \in Setting, Ready(s)
  PROVE  rows = Rebuilt(meta.revision, s) /\ meta.revision \in Scan /\ runDone
  <1>1. /\ meta.revision \in Scan /\ runDone /\ NoneUnlinked
        /\ meta.extraction = s.extraction /\ meta.extractor = s.extractor
        /\ meta.facts = FactsOf(meta.revision)
    BY ConstantsAssumption DEF IInv, RowsInv, PendingInv, Ready
  <1> DEFINE scan == meta.revision
  <1>2. ASSUME NEW p \in Path PROVE rows[p] = Rebuilt(scan, s)[p]
    <2>1. CASE rows[p] = NoRow
      <3>1. ~Parses(p, scan[p])
        BY <2>1, <1>1, RowIsNotNoRow DEF IInv
      <3> QED BY <2>1, <3>1 DEF Rebuilt
    <2>2. CASE rows[p] # NoRow
      <3>1. PICK l \in {Unlinked, FactsOf(scan)} :
              /\ Parses(p, scan[p])
              /\ rows[p] = [version |-> scan[p], extraction |-> s.extraction,
                            extractor |-> s.extractor, linked |-> l]
        BY <2>2, <1>1, ConstantsAssumption DEF IInv, RowsInv
      <3>2. l = FactsOf(scan)
        BY <2>2, <3>1, <1>1 DEF NoneUnlinked
      <3> QED BY <3>1, <3>2 DEF Rebuilt, Extracted
    <2> QED BY <2>1, <2>2
  <1>3. rows \in [Path -> Row \cup {NoRow}]
    BY DEF IInv, TypeOK
  <1>4. rows = Rebuilt(scan, s)
    BY <1>2, <1>3 DEF Rebuilt
  <1> QED BY <1>1, <1>4

(* An index that statusRead calls current holds exactly the rows and       *)
(* links of a rebuilt one.                                                 *)
THEOREM ReadyIsCompleteCorrect == Spec => []ReadyIsComplete
  <1>1. IInv => ReadyIsComplete
    BY ReadyRows DEF ReadyIsComplete
  <1> QED BY <1>1, InvCorrect, PTL

(* A current index has a completed run record.                             *)
THEOREM ReadyRunIsRecordedCorrect == Spec => []ReadyRunIsRecorded
  <1>1. IInv => ReadyRunIsRecorded
    BY ReadyRows DEF ReadyRunIsRecorded
  <1> QED BY <1>1, InvCorrect, PTL

\* The gate changes owner only with the program counter of its owner.
LEMMA GateStep == TypeOK /\ GateIsOwned /\ [Next]_vars => GateIsOwned'
  <1> SUFFICES ASSUME TypeOK, GateIsOwned, [Next]_vars PROVE GateIsOwned'
    OBVIOUS
  <1> USE ConstantsAssumption DEF TypeOK, GateIsOwned, Running, Steps, Goto
  <1>1. ASSUME NEW r \in Request, NEW o \in Ops, Begin(r, o) PROVE GateIsOwned'
    BY <1>1 DEF Begin
  <1>2. ASSUME NEW r \in Request, EnterGate(r) PROVE GateIsOwned'
    BY <1>2 DEF EnterGate
  <1>3. ASSUME NEW r \in Request, WaitExpires(r) PROVE GateIsOwned'
    BY <1>3 DEF WaitExpires, StepAfterWait
  <1>4. ASSUME NEW r \in Request, LeaveGate(r) PROVE GateIsOwned'
    BY <1>4 DEF LeaveGate, GateAfter
  <1>5. ASSUME NEW r \in Request, NEW p \in Path, ScanFile(r, p) PROVE GateIsOwned'
    BY <1>5 DEF ScanFile
  <1>6. ASSUME NEW r \in Request,
               \/ AcquireWriter(r) \/ Plan(r) \/ Apply(r) \/ Link(r) \/ Finalize(r)
               \/ Stamp(r) \/ Clear(r) \/ Fail(r) \/ ReleaseWriter(r)
        PROVE  GateIsOwned'
    BY <1>6 DEF AcquireWriter, Plan, Apply, Link, Finalize, Stamp, Clear, Fail, ReleaseWriter
  <1>7. ASSUME NEW r \in Request,
               AcquireReader(r) \/ CheckReady(r) \/ EndRead(r) \/ ReleaseReader(r)
        PROVE  GateIsOwned'
    BY <1>7 DEF AcquireReader, CheckReady, EndRead, ReleaseReader
  <1>8. ASSUME NEW p \in Path, NEW v \in Version, Edit(p, v) PROVE GateIsOwned'
    BY <1>8 DEF Edit
  <1>9. ASSUME NEW x \in Process, Crash(x) PROVE GateIsOwned'
    BY <1>9 DEF Crash
  <1>10. CASE UNCHANGED vars
    BY <1>10 DEF vars
  <1> QED
    BY <1>1, <1>2, <1>3, <1>4, <1>5, <1>6, <1>7, <1>8, <1>9, <1>10 DEF Next, Proceed

(* A process has at most one run past its gate, and the gate is closed for *)
(* exactly as long as there is one: no path of a call keeps it.            *)
THEOREM GateIsOwnedCorrect == Spec => []GateIsOwned
  <1>1. Init => GateIsOwned
    BY ConstantsAssumption DEF Init, GateIsOwned, Running
  <1>2. TypeOK /\ GateIsOwned /\ [Next]_vars => GateIsOwned'
    BY GateStep
  <1> QED BY <1>1, <1>2, TypeCorrect, PTL DEF Spec

(* The queries of one read see one state of a current index.               *)
THEOREM StableReadCorrect == Spec => []StableRead
  <1>1. ASSUME IInv, NEW r \in Request, pc[r] = "read", op[r] # "status"
        PROVE  seen[r] = rows /\ Ready(My(r))
    <2>1. seen[r] = rows
      BY <1>1 DEF IInv, ReadInv
    <2>2. rows \in [Path -> Row \cup {NoRow}]
      BY <1>1 DEF IInv, TypeOK
    <2>3. seen[r] # Unset
      BY <2>1, <2>2, ConstantsAssumption
    <2>4. SeenInv
      BY <1>1 DEF IInv
    <2> QED BY <2>1, <2>3, <2>4 DEF SeenInv
  <1>2. IInv => StableRead
    BY <1>1 DEF StableRead
  <1> QED BY <1>2, InvCorrect, PTL

(* A run that reports success leaves an index that is current for its own  *)
(* process and holds what it scanned.                                      *)
THEOREM SuccessIsReadyCorrect == Spec => SuccessIsReady
  <1> DEFINE Success == \A r \in Request : ok'[r] /\ ~ok[r] =>
                          /\ meta'.revision = job[r].scan
                          /\ rows' = Rebuilt(job[r].scan, My(r))
                          /\ Ready(My(r))'
  <1>1. ASSUME IInv, IInv', ReadyIsComplete', [Next]_vars,
               NEW r \in Request, ok'[r], ~ok[r]
        PROVE  /\ meta'.revision = job[r].scan
               /\ rows' = Rebuilt(job[r].scan, My(r))
               /\ Ready(My(r))'
    <2>1. Clear(r)
      <3>1. ok \in [Request -> BOOLEAN]
        BY <1>1 DEF IInv, TypeOK
      <3>2. ok'[r] # ok[r]
        BY <1>1
      <3> QED
        BY <1>1, <3>1, <3>2
           DEF Next, Proceed, vars, db, bounds, Begin, EnterGate, WaitExpires, AcquireWriter,
               ScanFile, Plan, Apply, Link, Finalize, Stamp, Clear, Fail, ReleaseWriter,
               LeaveGate, AcquireReader, CheckReady, EndRead, ReleaseReader, Edit, Crash
    <2>2. /\ meta.revision = job[r].scan /\ job[r].scan \in Scan
          /\ meta.config = My(r).config /\ meta.extraction = My(r).extraction
          /\ meta.extractor = My(r).extractor /\ meta.success
      BY <1>1, <2>1 DEF Clear, IInv, JobInv
    <2>3. meta' = [meta EXCEPT !.pending = "0"]
      BY <2>1 DEF Clear
    <2>4. Ready(My(r))' /\ meta'.revision = job[r].scan
      BY <1>1, <2>2, <2>3, ConstantsAssumption DEF Ready, My, IInv, TypeOK, Meta
    <2>5. Ready(My(r))' => rows' = Rebuilt(meta'.revision, My(r))
      BY <1>1, MyType DEF ReadyIsComplete, Rebuilt, Extracted, FactsOf, Parses, My
    <2>6. rows' = Rebuilt(job[r].scan, My(r))
      BY <2>4, <2>5
    <2> QED BY <2>4, <2>6
  <1>2. IInv /\ IInv' /\ ReadyIsComplete' /\ [Next]_vars => [Success]_vars
    BY <1>1
  <1> QED BY <1>2, InvCorrect, ReadyIsCompleteCorrect, PTL DEF Spec, SuccessIsReady

-----------------------------------------------------------------------------
(* Refinement                                                              *)

\* Only commits of a run change what readers may see.
LEMMA QuietView ==
  ASSUME UNCHANGED <<rows, meta>>
  PROVE  \A s : Ready(s)' = Ready(s)
  BY DEF Ready

LEMMA ViewInit == Init => View!Init
  <1> SUFFICES ASSUME Init PROVE View!Init
    OBVIOUS
  <1>1. meta.pending = Unset
    BY DEF Init, OldIndex, NoMeta
  <1>2. \A s \in Setting : ~Ready(s)
    BY <1>1, ConstantsAssumption DEF Ready
  <1> QED BY <1>2 DEF Init, View!Init

\* While a run is between its first commit and its last, no index is current.
LEMMA NotReadyYet ==
  ASSUME meta.pending = "1"
  PROVE  \A s : ~Ready(s)
  BY DEF Ready

LEMMA ViewStep ==
  ASSUME IInv, IInv', ReadyIsComplete', [Next]_vars
  PROVE  [View!Next]_(View!vars)
  <1>1. TypeOK /\ ScanDone /\ LockInv /\ DataInv /\ ReadsInv
    BY DEF IInv, ScanDone, JobInv, DataInv, ReadsInv
  <1>2. ASSUME UNCHANGED <<rows, meta, seen>> PROVE UNCHANGED View!vars
    BY <1>2, QuietView DEF View!vars
  <1>3. ASSUME NEW r \in Request, pc[r] \in Running PROVE View!Idle
    BY <1>1, <1>3, OthersAreOut DEF View!Idle
  <1>4. ASSUME NEW r \in Request, Apply(r) PROVE View!Retract
    <2>1. meta'.pending = "1" /\ seen' = seen
      BY <1>1, <1>4 DEF Apply, TypeOK, Meta
    <2>2. \A s \in Setting : ~Ready(s)'
      BY <2>1 DEF Ready
    <2>3. View!Idle
      BY <1>3, <1>4 DEF Apply, Running
    <2> QED BY <2>1, <2>2, <2>3 DEF View!Retract
  <1>5. ASSUME NEW r \in Request, Link(r) \/ Stamp(r) PROVE UNCHANGED View!vars
    <2>1. meta.pending = "1" /\ meta'.pending = "1" /\ seen' = seen
      BY <1>1, <1>5 DEF Link, Stamp, DataInv, JobInv, TypeOK, Meta
    <2>2. \A s \in Setting : ~Ready(s) /\ ~Ready(s)'
      BY <2>1 DEF Ready
    <2> QED BY <2>1, <2>2 DEF View!vars
  <1>6. ASSUME NEW r \in Request, Clear(r)
        PROVE  \E s \in Setting : \E content \in {Rebuilt(scan, s) : scan \in Scan} :
                 View!Publish(s, content)
    <2>1. /\ meta.revision = job[r].scan /\ job[r].scan \in Scan
          /\ meta.config = My(r).config /\ meta.extraction = My(r).extraction
          /\ meta.extractor = My(r).extractor /\ meta.success
      BY <1>1, <1>6 DEF Clear, DataInv, JobInv
    <2>2. meta' = [meta EXCEPT !.pending = "0"] /\ UNCHANGED <<rows, seen>>
      BY <1>6 DEF Clear
    <2>3. My(r) \in Setting
      BY MyType
    <2>4. \A s \in Setting : Ready(s)' <=> s = My(r)
      <3>1. ASSUME NEW s \in Setting
            PROVE  Ready(s)' <=> /\ My(r).config = s.config
                                 /\ My(r).extraction = s.extraction
                                 /\ My(r).extractor = s.extractor
        BY <1>1, <2>1, <2>2, ConstantsAssumption DEF Ready, TypeOK, Meta
      <3>2. \A s \in Setting : /\ s = [config |-> s.config, extraction |-> s.extraction,
                                       extractor |-> s.extractor]
        BY ConstantsAssumption
      <3> QED BY <2>3, <3>1, <3>2
    <2>5. rows' = Rebuilt(job[r].scan, My(r))
      BY <2>1, <2>2, <2>3, <2>4
         DEF ReadyIsComplete, Rebuilt, Extracted, FactsOf, Parses, My
    <2>6. View!Idle
      BY <1>3, <1>6 DEF Clear, Running
    <2>7. View!Publish(My(r), rows')
      BY <2>1, <2>2, <2>3, <2>4, <2>5, <2>6 DEF View!Publish
    <2> QED BY <2>1, <2>3, <2>5, <2>7
  <1>7. ASSUME NEW r \in Request, CheckReady(r) PROVE View!Start(r) \/ UNCHANGED View!vars
    <2>1. UNCHANGED <<rows, meta>> /\ pc[r] = "check"
      BY <1>7 DEF CheckReady, db
    <2>2. CASE Ready(My(r))
      <3>1. seen' = [seen EXCEPT ![r] = rows] /\ seen[r] = Unset
        BY <1>1, <1>7, <2>1, <2>2 DEF CheckReady, ReadsInv, SeenInv
      <3>2. rows # Unset
        BY <1>1, ConstantsAssumption DEF TypeOK
      <3>3. My(r) \in Setting
        BY MyType
      <3> QED BY <2>1, <2>2, <3>1, <3>2, <3>3, QuietView DEF View!Start
    <2>3. CASE ~Ready(My(r))
      BY <1>2, <1>7, <2>1, <2>3 DEF CheckReady
    <2> QED BY <2>2, <2>3
  <1>8. ASSUME NEW r \in Request, EndRead(r)
        PROVE  \E ended \in SUBSET Request : View!Finish(ended)
    <2>1. seen' = [q \in Request |-> IF q \in {r} THEN Unset ELSE seen[q]]
      BY <1>1, <1>8 DEF EndRead, TypeOK
    <2>2. View!Finish({r})
      BY <1>8, <2>1, QuietView DEF EndRead, db, View!Finish
    <2> QED BY <2>2
  <1>9. ASSUME NEW x \in Process, Crash(x)
        PROVE  \E ended \in SUBSET Request : View!Finish(ended)
    <2> DEFINE dead == {r \in Request : Home[r] = x}
    <2>1. View!Finish(dead)
      BY <1>9, QuietView DEF Crash, db, View!Finish
    <2> QED BY <2>1
  <1>10. ASSUME NEW r \in Request,
                EnterGate(r) \/ AcquireWriter(r) \/ (\E p \in Path : ScanFile(r, p))
                  \/ Plan(r) \/ Finalize(r) \/ ReleaseWriter(r) \/ LeaveGate(r)
                  \/ AcquireReader(r) \/ ReleaseReader(r) \/ (\E o \in Ops : Begin(r, o))
                  \/ Fail(r) \/ WaitExpires(r)
         PROVE  UNCHANGED View!vars
    BY <1>2, <1>10
       DEF EnterGate, AcquireWriter, ScanFile, Plan, Finalize, ReleaseWriter, LeaveGate,
           AcquireReader, ReleaseReader, Begin, Fail, WaitExpires, db
  <1>11. ASSUME NEW p \in Path, NEW v \in Version, Edit(p, v) PROVE UNCHANGED View!vars
    BY <1>2, <1>11 DEF Edit, db
  <1>12. ASSUME UNCHANGED vars PROVE UNCHANGED View!vars
    BY <1>2, <1>12 DEF vars
  <1>13. ASSUME NEW r \in Request, Proceed(r) PROVE [View!Next]_(View!vars)
    BY <1>4, <1>5, <1>6, <1>7, <1>8, <1>10, <1>13 DEF Proceed, View!Next
  <1> QED BY <1>9, <1>10, <1>11, <1>12, <1>13 DEF Next, View!Next

(* Readers see the index only as IndexView allows: complete contents, one  *)
(* at a time, replaced while nobody reads.                                 *)
THEOREM ImplementsViewCorrect == Spec => ImplementsView
  <1>1. Init => View!Init
    BY ViewInit
  <1>2. IInv /\ IInv' /\ ReadyIsComplete' /\ [Next]_vars => [View!Next]_(View!vars)
    BY ViewStep
  <1> QED BY <1>1, <1>2, InvCorrect, ReadyIsCompleteCorrect, PTL
          DEF Spec, View!Spec, ImplementsView

=============================================================================

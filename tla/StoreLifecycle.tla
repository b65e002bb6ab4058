--------------------------- MODULE StoreLifecycle ---------------------------
(***************************************************************************)
(* Opening, creating, upgrading and closing the index database             *)
(* (store.openWithLease, FinalizeUpgrade, Close), with several sessions on *)
(* one index directory, each in a process of its own that can die between  *)
(* any two changes of the disk.                                            *)
(*                                                                         *)
(* Three database files matter: index.db, its backup index.db.v1.bak, and  *)
(* the sibling index.db.v2.tmp a legacy index is rebuilt in.  Their WAL    *)
(* and shared-memory companions move with them: the last connection of a   *)
(* database is closed before its files are renamed, which empties them.    *)
(***************************************************************************)
EXTENDS Naturals

CONSTANTS
  Session,     \* one Store each, in a process of its own
  MaxOpens,    \* bound: stores opened
  MaxCrashes,  \* bound: process deaths
  MaxFaults    \* bound: failing file operations and failing updates

ASSUME BoundsAssumption == MaxOpens \in Nat /\ MaxCrashes \in Nat /\ MaxFaults \in Nat

VARIABLES
  live, backup, temp,  \* the three files
  lease,    \* the lifecycle lock: [Session -> {"none", "shared", "exclusive"}]
  pc,       \* the next step of each session
  opening,  \* the local variables of openWithLease
  db,       \* Store.db: [Session -> {"none", "live", "temp", "closed"}]
  pending,  \* Store.upgradePending
  reading,  \* a read of this session's service is under way
  opens, crashes, faults

disk == <<live, backup, temp>>
bounds == <<opens, crashes, faults>>
vars == <<live, backup, temp, lease, pc, opening, db, pending, reading, opens, crashes, faults>>

-----------------------------------------------------------------------------
(* Files: absent; bare, created but without a schema; a legacy index; the  *)
(* current schema without and with a complete index.                       *)

Content == {"absent", "bare", "v1", "empty", "full"}
Current == {"empty", "full"}

fileExists(file) == file # "absent"
Artifacts == fileExists(backup) \/ fileExists(temp)

Opening == [allowUpgrade: BOOLEAN, mode: {"shared", "exclusive"},
            initializing: BOOLEAN, reopening: BOOLEAN]

\* openWithLease starts with a look under the shared lease.
Fresh(allow, again) == [allowUpgrade |-> allow, mode |-> "shared",
                        initializing |-> FALSE, reopening |-> again]

Steps == {"idle", "acquire", "recover", "inspect", "create", "migrate",
          "clearTemp", "createTemp", "migrateTemp", "open", "index", "finalize",
          "clearBackup", "stage", "replace", "unstage", "dropBackup", "reopen"}

Init ==
  /\ live \in {"absent", "v1", "full"}
  /\ backup = "absent"
  /\ temp = "absent"
  /\ lease = [s \in Session |-> "none"]
  /\ pc = [s \in Session |-> "idle"]
  /\ opening = [s \in Session |-> Fresh(FALSE, FALSE)]
  /\ db = [s \in Session |-> "none"]
  /\ pending = [s \in Session |-> FALSE]
  /\ reading = [s \in Session |-> FALSE]
  /\ opens = 0
  /\ crashes = 0
  /\ faults = 0

At(s, step) == pc[s] = step
Goto(s, to) == pc' = [pc EXCEPT ![s] = to]

\* A file operation or an update that fails.
Fault == faults < MaxFaults /\ faults' = faults + 1 /\ UNCHANGED <<opens, crashes>>

-----------------------------------------------------------------------------
(* openWithLease                                                           *)

\* Open and OpenForUpdate.
Open(s, allow) ==
  /\ At(s, "idle")
  /\ opens < MaxOpens
  /\ opens' = opens + 1
  /\ opening' = [opening EXCEPT ![s] = Fresh(allow, FALSE)]
  /\ Goto(s, "acquire")
  /\ UNCHANGED <<disk, lease, db, pending, reading, crashes, faults>>

\* Faulty variant: shared holders do not keep an exclusive one out.
LeaseIgnoresReaders(s, mode) == \A q \in Session : q # s => lease[q] # "exclusive"

\* flock: shared with other shared holders, exclusive only alone.
LeaseIsFree(s, mode) ==
  \A q \in Session : q # s => lease[q] = "none" \/ (mode = "shared" /\ lease[q] = "shared")

AcquireLease(s) ==
  /\ At(s, "acquire")
  /\ LeaseIsFree(s, opening[s].mode)
  /\ lease' = [lease EXCEPT ![s] = opening[s].mode]
  /\ Goto(s, IF opening[s].mode = "exclusive" /\ opening[s].allowUpgrade
             THEN "recover" ELSE "inspect")
  /\ UNCHANGED <<disk, opening, db, pending, reading, bounds>>

(* An initializer does not wait for sessions that opened what another      *)
(* initializer has made in the meantime: it looks again after 100 ms.      *)
LookAgain(s) ==
  /\ At(s, "acquire")
  /\ opening[s].mode = "exclusive" /\ opening[s].initializing
  /\ ~LeaseIsFree(s, "exclusive")
  /\ opening' = [opening EXCEPT ![s].mode = "shared"]
  /\ UNCHANGED <<disk, lease, pc, db, pending, reading, bounds>>

\* Where openWithLease returns an error to: a store whose reopening failed
\* stays with its closed database.
ReturnError(s) ==
  /\ lease' = [lease EXCEPT ![s] = "none"]
  /\ Goto(s, IF opening[s].reopening THEN "open" ELSE "idle")

\* Five seconds have passed, or the caller has given up.
WaitExpires(s) ==
  /\ At(s, "acquire")
  /\ ReturnError(s)
  /\ UNCHANGED <<disk, opening, db, pending, reading, bounds>>

\* Faulty variant: the backup is removed without a look at index.db.
RestoredDroppingBackup ==
  IF fileExists(backup) THEN [live |-> live, backup |-> "absent", temp |-> temp]
  ELSE [live |-> live, backup |-> backup,
        temp |-> IF fileExists(live) THEN "absent" ELSE temp]

(* recoverUpgradeArtifacts, one change of the disk at a time.              *)
Restored ==
  CASE ~fileExists(live) /\ fileExists(backup) ->
         [live |-> backup, backup |-> "absent", temp |-> temp]
    [] fileExists(live) /\ fileExists(backup) ->
         [live |-> live, backup |-> "absent", temp |-> temp]
    [] fileExists(live) /\ ~fileExists(backup) ->
         [live |-> live, backup |-> backup, temp |-> "absent"]
    [] OTHER -> [live |-> live, backup |-> backup, temp |-> temp]

recoverUpgradeArtifacts(s) ==
  /\ At(s, "recover")
  /\ live' = Restored.live /\ backup' = Restored.backup /\ temp' = Restored.temp
  /\ IF UNCHANGED disk THEN Goto(s, "inspect") ELSE UNCHANGED pc
  /\ UNCHANGED <<lease, opening, db, pending, reading, bounds>>

\* Faulty variant: creating a database does not ask for the exclusive lease.
NeedsExclusiveToUpgrade(s) ==
  fileExists(live) /\ opening[s].allowUpgrade /\ (live = "v1" \/ Artifacts)

NeedsExclusive(s) ==
  \/ ~fileExists(live)
  \/ opening[s].allowUpgrade /\ (live = "v1" \/ Artifacts)

\* The lease is released and acquired anew in the other mode.
SwitchTo(s, mode, initializing) ==
  /\ At(s, "inspect")
  /\ lease' = [lease EXCEPT ![s] = "none"]
  /\ opening' = [opening EXCEPT ![s].mode = mode, ![s].initializing = initializing]
  /\ Goto(s, "acquire")
  /\ UNCHANGED <<disk, db, pending, reading, bounds>>

(* No schema version can be read from a bare file, a legacy index needs an *)
(* update, and so does an interrupted one.                                 *)
Rejects(s) ==
  \/ live = "bare"
  \/ /\ opening[s].mode = "exclusive" \/ ~NeedsExclusive(s)
     /\ ~opening[s].allowUpgrade
     /\ live = "v1" \/ (~fileExists(live) /\ Artifacts)

Reject(s) ==
  /\ At(s, "inspect")
  /\ Rejects(s)
  /\ ReturnError(s)
  /\ UNCHANGED <<disk, opening, db, pending, reading, bounds>>

\* What an opener does under its lease with the files it finds.
Inspect(s) ==
  /\ At(s, "inspect")
  /\ ~Rejects(s)
  /\ \/ /\ opening[s].mode = "shared" /\ NeedsExclusive(s)
        /\ SwitchTo(s, "exclusive", ~fileExists(live))
     \/ /\ opening[s].mode = "exclusive" /\ live \in Current
        /\ SwitchTo(s, "shared", opening[s].initializing)
     \/ /\ opening[s].mode = "shared" /\ live \in Current /\ ~NeedsExclusive(s)
        /\ db' = [db EXCEPT ![s] = "live"]
        /\ Goto(s, "open")
        /\ UNCHANGED <<disk, lease, opening, pending, reading, bounds>>
     \/ /\ opening[s].mode = "exclusive" \/ ~NeedsExclusive(s)
        /\ live \notin Current
        /\ Goto(s, IF fileExists(live) THEN "clearTemp" ELSE "create")
        /\ UNCHANGED <<disk, lease, opening, db, pending, reading, bounds>>

\* openDatabase for a new index.db: switching to WAL writes the file, the
\* migration is a transaction.
Create(s) ==
  /\ At(s, "create")
  /\ live' = IF fileExists(live) THEN live ELSE "bare"
  /\ Goto(s, "migrate")
  /\ UNCHANGED <<backup, temp, lease, opening, db, pending, reading, bounds>>

Migrate(s) ==
  /\ At(s, "migrate")
  /\ live' = IF live = "bare" THEN "empty" ELSE live
  /\ lease' = [lease EXCEPT ![s] = "none"]
  /\ opening' = [opening EXCEPT ![s].mode = "shared"]
  /\ Goto(s, "acquire")
  /\ UNCHANGED <<backup, temp, db, pending, reading, bounds>>

\* The temporary database of an upgrade keeps the exclusive lease.
ClearTemp(s) ==
  /\ At(s, "clearTemp")
  /\ temp' = "absent"
  /\ Goto(s, "createTemp")
  /\ UNCHANGED <<live, backup, lease, opening, db, pending, reading, bounds>>

CreateTemp(s) ==
  /\ At(s, "createTemp")
  /\ temp' = "bare"
  /\ Goto(s, "migrateTemp")
  /\ UNCHANGED <<live, backup, lease, opening, db, pending, reading, bounds>>

MigrateTemp(s) ==
  /\ At(s, "migrateTemp")
  /\ temp' = "empty"
  /\ db' = [db EXCEPT ![s] = "temp"]
  /\ pending' = [pending EXCEPT ![s] = TRUE]
  /\ Goto(s, "open")
  /\ UNCHANGED <<live, backup, lease, opening, reading, bounds>>

\* A file operation of openWithLease fails; a temporary database is removed.
OpenFails(s) ==
  /\ pc[s] \in {"recover", "inspect", "create", "migrate", "clearTemp", "createTemp", "migrateTemp"}
  /\ Fault
  /\ temp' = IF pc[s] \in {"createTemp", "migrateTemp"} THEN "absent" ELSE temp
  /\ ReturnError(s)
  /\ UNCHANGED <<live, backup, opening, db, pending, reading>>

-----------------------------------------------------------------------------
(* The open store: reads and updates take the writer lock, shared and      *)
(* exclusive.                                                              *)

StartRead(s) ==
  /\ db[s] # "none" /\ ~reading[s]
  /\ \A q \in Session : ~At(q, "index")
  /\ db[s] # "closed"
  /\ reading' = [reading EXCEPT ![s] = TRUE]
  /\ UNCHANGED <<disk, lease, pc, opening, db, pending, bounds>>

EndRead(s) ==
  /\ reading[s]
  /\ reading' = [reading EXCEPT ![s] = FALSE]
  /\ UNCHANGED <<disk, lease, pc, opening, db, pending, bounds>>

BeginIndex(s) ==
  /\ At(s, "open")
  /\ db[s] # "closed"
  /\ \A q \in Session : ~At(q, "index") /\ ~reading[q]
  /\ Goto(s, "index")
  /\ UNCHANGED <<disk, lease, opening, db, pending, reading, bounds>>

IndexSucceeds(s) ==
  /\ At(s, "index")
  /\ live' = IF db[s] = "live" THEN "full" ELSE live
  /\ temp' = IF db[s] = "temp" THEN "full" ELSE temp
  /\ Goto(s, IF pending[s] THEN "finalize" ELSE "open")
  /\ UNCHANGED <<backup, lease, opening, db, pending, reading, bounds>>

IndexFails(s) ==
  /\ At(s, "index")
  /\ Fault
  /\ Goto(s, "open")
  /\ UNCHANGED <<disk, lease, opening, db, pending, reading>>

-----------------------------------------------------------------------------
(* FinalizeUpgrade                                                         *)

\* The integrity check passed; the temporary database is closed.
CloseTemp(s) ==
  /\ At(s, "finalize")
  /\ db' = [db EXCEPT ![s] = "closed"]
  /\ Goto(s, "clearBackup")
  /\ UNCHANGED <<disk, lease, opening, pending, reading, bounds>>

ClearBackup(s) ==
  /\ At(s, "clearBackup")
  /\ backup' = "absent"
  /\ Goto(s, "stage")
  /\ UNCHANGED <<live, temp, lease, opening, db, pending, reading, bounds>>

Stage(s) ==
  /\ At(s, "stage")
  /\ backup' = live /\ live' = "absent"
  /\ Goto(s, "replace")
  /\ UNCHANGED <<temp, lease, opening, db, pending, reading, bounds>>

Replace(s) ==
  /\ At(s, "replace")
  /\ live' = temp /\ temp' = "absent"
  /\ Goto(s, "dropBackup")
  /\ UNCHANGED <<backup, lease, opening, db, pending, reading, bounds>>

Unstage(s) ==
  /\ At(s, "unstage")
  /\ live' = backup /\ backup' = "absent"
  /\ Goto(s, "open")
  /\ UNCHANGED <<temp, lease, opening, db, pending, reading, bounds>>

DropBackup(s) ==
  /\ At(s, "dropBackup")
  /\ backup' = "absent"
  /\ Goto(s, "reopen")
  /\ UNCHANGED <<live, temp, lease, opening, db, pending, reading, bounds>>

\* The exclusive lease is given up for a shared one.
Reopen(s) ==
  /\ At(s, "reopen")
  /\ pending' = [pending EXCEPT ![s] = FALSE]
  /\ lease' = [lease EXCEPT ![s] = "none"]
  /\ opening' = [opening EXCEPT ![s] = Fresh(FALSE, TRUE)]
  /\ Goto(s, "acquire")
  /\ UNCHANGED <<disk, db, reading, bounds>>

\* A cancelled context, a failed check or a failing file operation: the call
\* returns an error, after undoing the first rename when the second failed.
FinalizeFails(s) ==
  /\ pc[s] \in {"finalize", "clearBackup", "stage", "replace", "unstage", "dropBackup"}
  /\ Fault
  /\ Goto(s, IF At(s, "replace") THEN "unstage" ELSE "open")
  /\ UNCHANGED <<disk, lease, opening, db, pending, reading>>

\* Store.Close removes the temporary database of an unfinished upgrade.
Close(s) ==
  /\ At(s, "open") /\ ~reading[s]
  /\ temp' = IF pending[s] THEN "absent" ELSE temp
  /\ db' = [db EXCEPT ![s] = "none"]
  /\ pending' = [pending EXCEPT ![s] = FALSE]
  /\ lease' = [lease EXCEPT ![s] = "none"]
  /\ Goto(s, "idle")
  /\ UNCHANGED <<live, backup, opening, reading, bounds>>

Crash(s) ==
  /\ ~At(s, "idle")
  /\ crashes < MaxCrashes
  /\ crashes' = crashes + 1
  /\ lease' = [lease EXCEPT ![s] = "none"]
  /\ db' = [db EXCEPT ![s] = "none"]
  /\ pending' = [pending EXCEPT ![s] = FALSE]
  /\ reading' = [reading EXCEPT ![s] = FALSE]
  /\ Goto(s, "idle")
  /\ UNCHANGED <<disk, opening, opens, faults>>

Next ==
  \E s \in Session :
    \/ \E allow \in BOOLEAN : Open(s, allow)
    \/ AcquireLease(s) \/ LookAgain(s) \/ WaitExpires(s)
    \/ recoverUpgradeArtifacts(s) \/ Reject(s) \/ Inspect(s)
    \/ Create(s) \/ Migrate(s) \/ ClearTemp(s) \/ CreateTemp(s) \/ MigrateTemp(s)
    \/ OpenFails(s)
    \/ StartRead(s) \/ EndRead(s) \/ BeginIndex(s) \/ IndexSucceeds(s) \/ IndexFails(s)
    \/ CloseTemp(s) \/ ClearBackup(s) \/ Stage(s) \/ Replace(s) \/ Unstage(s)
    \/ DropBackup(s) \/ Reopen(s) \/ FinalizeFails(s)
    \/ Close(s) \/ Crash(s)

Spec == Init /\ [][Next]_vars

-----------------------------------------------------------------------------
(* Properties                                                              *)

TypeOK ==
  /\ live \in Content /\ backup \in Content /\ temp \in Content
  /\ lease \in [Session -> {"none", "shared", "exclusive"}]
  /\ pc \in [Session -> Steps]
  /\ opening \in [Session -> Opening]
  /\ db \in [Session -> {"none", "live", "temp", "closed"}]
  /\ pending \in [Session -> BOOLEAN]
  /\ reading \in [Session -> BOOLEAN]
  /\ opens \in 0 .. MaxOpens /\ crashes \in 0 .. MaxCrashes /\ faults \in 0 .. MaxFaults

(* Every open database is held under a lease, of a file that is there with *)
(* the current schema; the temporary database of an upgrade belongs to one *)
(* session and keeps every other one out.                                  *)
HandlesAreLeased ==
  \A s \in Session :
    /\ db[s] = "live" => lease[s] = "shared" /\ live \in Current
    /\ db[s] = "temp" => /\ lease[s] = "exclusive" /\ temp \in Current
                         /\ \A q \in Session \ {s} : lease[q] = "none" /\ db[q] # "live"

\* The files, whatever rows are in them.
Shape == <<IF live = "full" THEN "empty" ELSE live, backup, IF temp = "full" THEN "empty" ELSE temp>>

(* Files are created, moved and removed by one session that holds the      *)
(* lifecycle lock alone; one that was not opened for an update does no     *)
(* more than create a database where none is and no upgrade was left.      *)
DiskIsChangedAlone ==
  [][Shape' # Shape =>
       \E s \in Session :
         /\ lease[s] = "exclusive"
         /\ \A q \in Session \ {s} : lease[q] = "none"
         /\ \/ opening[s].allowUpgrade
            \/ live \in {"absent", "bare"} /\ backup = "absent" /\ temp = "absent"]_vars

(* What the disk holds for the next update, after recovery: an interrupted *)
(* upgrade still has the legacy index or already has the complete new one. *)
RecoveredIndex ==
  LET found == IF fileExists(live) THEN live ELSE backup IN
  IF found \in {"absent", "bare"} THEN "nothing" ELSE found

Upgraded == INSTANCE UpgradedIndex WITH index <- RecoveredIndex

ImplementsUpgrade == Upgraded!Spec

(* Claims of the repository that TLC refutes when given as invariants.     *)

(* "It is safe to run again": once nobody is at work on the directory, a   *)
(* setup finds a database it can read or none.                             *)
SetupCanRunAgain ==
  (\A s \in Session : At(s, "idle")) => live # "bare"

(* "Keep concurrent calls on this Service out of that gap": no call of the *)
(* service has its database closed under it.                               *)
ReadsKeepTheirDatabase == \A s \in Session : reading[s] => db[s] \in {"live", "temp"}

-----------------------------------------------------------------------------
(* The inductive invariant behind the properties                           *)

\* The steps of openWithLease, of a swap, and those that need the lease alone.
OpeningSteps == {"acquire", "recover", "inspect", "create", "migrate",
                 "clearTemp", "createTemp", "migrateTemp"}
SwapSteps == {"clearBackup", "stage", "replace", "unstage", "dropBackup", "reopen"}
Alone == (OpeningSteps \ {"acquire", "inspect"}) \cup {"finalize"} \cup SwapSteps

LeaseInv ==
  /\ \A q, s \in Session : lease[q] = "exclusive" /\ q # s => lease[s] = "none"
  /\ \A s \in Session :
       /\ pc[s] \in {"idle", "acquire"} => lease[s] = "none"
       /\ pc[s] \in {"recover", "inspect"} => lease[s] = opening[s].mode
       /\ pc[s] \in Alone => lease[s] = "exclusive"

\* The three forms of an open store.
Usable(s) == db[s] = "live" /\ lease[s] = "shared" /\ ~pending[s]
Upgrading(s) == db[s] = "temp" /\ lease[s] = "exclusive" /\ pending[s]
Broken(s) == db[s] = "closed" /\ lease[s] = IF pending[s] THEN "exclusive" ELSE "none"

HandleInv ==
  \A s \in Session :
    /\ pc[s] = "idle" => db[s] = "none" /\ ~pending[s]
    /\ pc[s] \in OpeningSteps =>
         db[s] = (IF opening[s].reopening THEN "closed" ELSE "none") /\ ~pending[s]
    /\ pc[s] = "open" => Usable(s) \/ Upgrading(s) \/ Broken(s)
    /\ pc[s] = "index" => Usable(s) \/ Upgrading(s)
    /\ pc[s] = "finalize" => Upgrading(s)
    /\ pc[s] \in SwapSteps => Broken(s) /\ pending[s]
    /\ pending[s] \/ pc[s] \in {"recover", "clearTemp", "createTemp", "migrateTemp"} =>
         opening[s].allowUpgrade

\* Which files can stand beside each other.
ShapeInv ==
  /\ backup \in {"absent", "v1"} /\ temp # "v1"
  /\ temp # "absent" => live = "v1" \/ (live = "absent" /\ backup = "v1")
  /\ backup = "v1" => live \in {"absent", "full"}
  /\ live = "absent" /\ temp # "absent" => temp = "full"

\* What a session that holds the lease knows of the files.
Knows(s) ==
  /\ pc[s] = "inspect" /\ lease[s] = "exclusive" /\ opening[s].allowUpgrade =>
       fileExists(live) \/ ~fileExists(backup)
  /\ pc[s] = "create" => live = "absent" /\ backup = "absent"
  /\ pc[s] = "migrate" => live = "bare"
  /\ pc[s] \in {"clearTemp", "createTemp", "migrateTemp"} => live = "v1"
  /\ db[s] = "live" => live \in Current
  /\ db[s] = "temp" => live = "v1" /\ temp \in Current
  /\ pc[s] \in {"finalize", "clearBackup", "stage"} => live = "v1" /\ temp = "full"
  /\ pc[s] \in {"replace", "unstage"} => live = "absent" /\ backup = "v1" /\ temp = "full"
  /\ pc[s] \in {"dropBackup", "reopen"} => live = "full"

DiskInv == ShapeInv /\ \A s \in Session : Knows(s)

IInv == TypeOK /\ LeaseInv /\ HandleInv /\ DiskInv

=============================================================================

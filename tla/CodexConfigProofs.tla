------------------------- MODULE CodexConfigProofs --------------------------
(***************************************************************************)
(* Proofs about CodexConfig, for any number of commands, names and tables  *)
(* and of the user's edits: what a command writes rests on what the file   *)
(* says.                                                                   *)
(***************************************************************************)
EXTENDS CodexConfig, TLAPS

-----------------------------------------------------------------------------
(* The inductive invariant                                                 *)

\* Writers of FocalSpan exclude each other.
LockInv == \A c \in Caller : lock = c <=> cmd[c].pc \in LockedSteps

\* A look is out of date only where it matters.
RacedInv == \A c \in raced : cmd[c].pc \in CliSteps \cup {"rename"}

\* In user scope only --force replaces a table in the file; in project scope
\* what is replaced is between markers, or not there yet.
MayReplace(c) ==
  /\ cmd[c].pc \in LockedSteps \cup {"lock"} /\ cmd[c].op.scope = "user" => cmd[c].op.force
  /\ cmd[c].pc \in {"compare", "rename"} /\ cmd[c].op.scope = "project" =>
       Managed(cmd[c].obs, cmd[c].op.name) \/ Server(cmd[c].obs, cmd[c].op.name) = None

ReplaceInv == \A c \in Caller : MayReplace(c)

\* What the CLI is asked to do rests on what the file says, unless a program
\* that does not know the lock has written since.
MayAsk(c) ==
  /\ At(c, "add") => Server(file, cmd[c].op.name) = None
  /\ At(c, "remove") => cmd[c].op.force \/ Server(file, cmd[c].op.name) \in UserTable
  /\ At(c, "removeLegacy") => Server(file, LegacyName) = Legacy

CliInv == \A c \in Caller \ raced : MayAsk(c)

IInv == TypeOK /\ LockInv /\ RacedInv /\ CommitsWhatItSaw /\ ReplaceInv /\ CliInv

-----------------------------------------------------------------------------
(* Lemmas                                                                  *)

\* A command that is not idle has a request and what it has read.
LEMMA CommandTyped ==
  ASSUME TypeOK, NEW c \in Caller, ~At(c, "idle")
  PROVE  /\ cmd[c] \in Command /\ cmd[c].op \in Commands /\ cmd[c].op \in Request
         /\ cmd[c].obs \in File /\ cmd[c].pc \in Steps
  <1>1. cmd[c] \in Command
    BY DEF TypeOK, At, Idle
  <1> QED BY <1>1, CommandsAssumption DEF Command

\* A request is one of a scope, and has a table of that scope.
LEMMA RequestTyped ==
  ASSUME NEW o \in Request
  PROVE  /\ o.kind \in {"install", "uninstall"} /\ o.scope \in {"project", "user"}
         /\ o.name \in Name /\ o.force \in BOOLEAN /\ o.migrate \in BOOLEAN
         /\ o.want \in Table
         /\ o.scope = "user" => o.want \in UserTable
         /\ o.scope = "project" => o.want \in ProjectTable /\ ~o.force /\ ~o.migrate
  BY DEF Request, Table

\* Goto moves one command, and an idle one forgets its request.
LEMMA GotoMoves ==
  ASSUME TypeOK, NEW c \in Caller, ~At(c, "idle"), NEW to \in Steps \cup {"idle"}, Goto(c, to)
  PROVE  /\ cmd' \in [Caller -> Command \cup {Idle}]
         /\ cmd'[c].pc = to
         /\ to # "idle" => cmd'[c].op = cmd[c].op /\ cmd'[c].obs = cmd[c].obs
         /\ \A d \in Caller \ {c} : cmd'[d] = cmd[d]
  <1>1. cmd[c] \in Command
    BY CommandTyped
  <1>2. CASE to = "idle"
    <2>1. cmd' = [cmd EXCEPT ![c] = Idle]
      BY <1>2 DEF Goto, Become
    <2> QED BY <1>2, <2>1 DEF TypeOK, Idle
  <1>3. CASE to # "idle"
    <2> DEFINE r == [cmd[c] EXCEPT !.pc = to]
    <2>1. r \in Command /\ r.pc = to /\ r.op = cmd[c].op /\ r.obs = cmd[c].obs
      BY <1>1, <1>3 DEF Command
    <2>2. cmd' = [cmd EXCEPT ![c] = r]
      BY <1>3 DEF Goto, Become
    <2> HIDE DEF r
    <2> QED BY <2>1, <2>2 DEF TypeOK
  <1> QED BY <1>2, <1>3

\* A step of one command that leaves the file alone keeps the invariant if it
\* keeps what the command itself rests on.
LEMMA OneMoves ==
  ASSUME IInv, NEW c \in Caller, c \notin raced,
         cmd' \in [Caller -> Command \cup {Idle}],
         \A d \in Caller \ {c} : cmd'[d] = cmd[d],
         UNCHANGED <<file, edits, raced>>,
         \/ lock' = lock /\ (cmd'[c].pc \in LockedSteps <=> cmd[c].pc \in LockedSteps)
         \/ lock = Nobody /\ lock' = c /\ cmd'[c].pc \in LockedSteps
         \/ lock = c /\ lock' = Nobody /\ cmd'[c].pc \notin LockedSteps,
         At(c, "rename")' => file = cmd'[c].obs,
         MayReplace(c)', MayAsk(c)'
  PROVE  IInv'
  <1>1. TypeOK /\ LockInv /\ RacedInv /\ CommitsWhatItSaw /\ ReplaceInv /\ CliInv
    BY DEF IInv
  <1>2. TypeOK'
    BY <1>1 DEF TypeOK
  <1>3. LockInv'
    BY <1>1, ConfigAssumption DEF LockInv
  <1>4. RacedInv'
    BY <1>1 DEF RacedInv, TypeOK
  <1>5. CommitsWhatItSaw'
    BY <1>1 DEF CommitsWhatItSaw, At
  <1>6. ReplaceInv'
    BY <1>1 DEF ReplaceInv, MayReplace
  <1>7. CliInv'
    <2>1. \A d \in Caller \ {c} : MayAsk(d)' <=> MayAsk(d)
      BY DEF MayAsk, At
    <2> QED BY <1>1, <2>1 DEF CliInv
  <1> QED BY <1>2, <1>3, <1>4, <1>5, <1>6, <1>7 DEF IInv

\* A program writes the file: every other look that matters is out of date.
LEMMA OneWrites ==
  ASSUME IInv, file' \in File, edits' \in 0 .. MaxEdits,
         cmd' \in [Caller -> Command \cup {Idle}],
         NEW W \in SUBSET Caller,
         \A d \in Caller \ W : cmd'[d] = cmd[d],
         \A d \in W : cmd'[d].pc \in {"idle", "getLegacy", "unlock"},
         \A d \in W : cmd[d].pc \in CliSteps \cup {"rename"},
         \A d \in W : cmd'[d].pc = "unlock" => cmd[d].pc = "rename" /\ cmd'[d].op = cmd[d].op,
         \A d \in W : cmd[d].pc = "rename" => cmd'[d].pc = "unlock",
         lock' = lock,
         raced' \subseteq Caller \ W,
         \A d \in Caller \ W : cmd[d].pc \in CliSteps => d \in raced',
         \A d \in Caller \ W : cmd[d].pc = "rename" => d \in raced',
         \A d \in raced' : cmd[d].pc \in CliSteps \cup {"rename"}
  PROVE  IInv'
  <1>1. TypeOK /\ LockInv /\ RacedInv /\ CommitsWhatItSaw /\ ReplaceInv /\ CliInv
    BY DEF IInv
  <1>2. TypeOK'
    BY <1>1 DEF TypeOK
  <1>3. LockInv'
    BY <1>1 DEF LockInv, LockedSteps, CliSteps
  <1>4. RacedInv'
    BY DEF RacedInv
  <1>5. CommitsWhatItSaw'
    BY DEF CommitsWhatItSaw, At
  <1>6. ReplaceInv'
    <2>1. ASSUME NEW d \in W PROVE MayReplace(d)'
      BY <1>1 DEF ReplaceInv, MayReplace, LockedSteps
    <2>2. ASSUME NEW d \in Caller \ W PROVE MayReplace(d)'
      BY <1>1 DEF ReplaceInv, MayReplace
    <2> QED BY <2>1, <2>2 DEF ReplaceInv
  <1>7. CliInv'
    BY DEF CliInv, MayAsk, At, CliSteps
  <1> QED BY <1>2, <1>3, <1>4, <1>5, <1>6, <1>7 DEF IInv

-----------------------------------------------------------------------------
(* Steps                                                                   *)

LEMMA BeginKeeps ==
  ASSUME IInv, NEW c \in Caller, NEW o \in Commands, Begin(c, o)
  PROVE  IInv'
  <1>1. PICK first \in {"lock", "observe", "get"} :
          /\ first = "lock" => o.scope = "project"
          /\ Become(c, [pc |-> first, op |-> o, obs |-> NoFile, got |-> None])
    BY DEF Begin
  <1> DEFINE r == [pc |-> first, op |-> o, obs |-> NoFile, got |-> None]
  <1>2. r \in Command /\ r.pc = first /\ r.op = o
    <2>1. NoFile \in File
      BY ConfigAssumption DEF NoFile, File, Block
    <2> QED BY <2>1 DEF Command, Steps
  <1>3. cmd' = [cmd EXCEPT ![c] = r]
    BY <1>1 DEF Become
  <1> HIDE DEF r
  <1>4. /\ cmd' \in [Caller -> Command \cup {Idle}]
        /\ cmd'[c] = r
        /\ \A d \in Caller \ {c} : cmd'[d] = cmd[d]
    BY <1>2, <1>3 DEF IInv, TypeOK
  <1>5. cmd[c].pc = "idle" /\ c \notin raced
    BY DEF Begin, At, IInv, RacedInv, CliSteps
  <1>6. MayReplace(c)' /\ MayAsk(c)'
    BY <1>1, <1>2, <1>4 DEF MayReplace, MayAsk, At, LockedSteps
  <1>7. UNCHANGED <<file, lock, edits, raced>>
    BY DEF Begin
  <1> QED BY <1>2, <1>4, <1>5, <1>6, <1>7, OneMoves DEF At, LockedSteps

LEMMA AcquireConfigurationKeeps ==
  ASSUME IInv, NEW c \in Caller, AcquireConfiguration(c)
  PROVE  IInv'
  <1>1. /\ cmd[c].pc = "lock" /\ lock = Nobody /\ lock' = c
        /\ Goto(c, "inspect") /\ UNCHANGED <<file, edits, raced>>
    BY DEF AcquireConfiguration, At
  <1>2. TypeOK /\ c \notin raced /\ MayReplace(c)
    BY <1>1 DEF IInv, RacedInv, ReplaceInv, CliSteps
  <1>3. /\ cmd' \in [Caller -> Command \cup {Idle}] /\ cmd'[c].pc = "inspect"
        /\ cmd'[c].op = cmd[c].op /\ \A d \in Caller \ {c} : cmd'[d] = cmd[d]
    BY <1>1, <1>2, GotoMoves DEF At, Steps, LockedSteps
  <1>4. MayReplace(c)' /\ MayAsk(c)'
    BY <1>1, <1>2, <1>3 DEF MayReplace, MayAsk, At
  <1> QED BY <1>1, <1>2, <1>3, <1>4, OneMoves DEF At, LockedSteps

\* Project scope: a table of that name outside of the markers is a conflict.
LEMMA InspectProjectKeeps ==
  ASSUME IInv, NEW c \in Caller, InspectProject(c)
  PROVE  IInv'
  <1>1. /\ cmd[c].pc = "inspect"
        /\ cmd[c].op.scope = "project"
        /\ UNCHANGED <<file, lock, edits, raced>>
    BY DEF InspectProject, At
  <1>2. TypeOK /\ c \notin raced /\ cmd[c] \in Command
    BY <1>1, CommandTyped DEF IInv, RacedInv, CliSteps, At
  <1>3. CASE Goto(c, "unlock")
    <2>1. /\ cmd' \in [Caller -> Command \cup {Idle}] /\ cmd'[c].pc = "unlock"
          /\ cmd'[c].op = cmd[c].op /\ \A d \in Caller \ {c} : cmd'[d] = cmd[d]
      BY <1>1, <1>2, <1>3, GotoMoves DEF At, Steps, LockedSteps
    <2>2. MayReplace(c)' /\ MayAsk(c)'
      BY <1>1, <2>1 DEF MayReplace, MayAsk, At
    <2> QED BY <1>1, <1>2, <2>1, <2>2, OneMoves DEF At, LockedSteps
  <1>4. CASE /\ Managed(file, cmd[c].op.name) \/ Server(file, cmd[c].op.name) = None
             /\ Become(c, [cmd[c] EXCEPT !.pc = "compare", !.obs = file])
    <2> DEFINE r == [cmd[c] EXCEPT !.pc = "compare", !.obs = file]
    <2>1. r \in Command /\ r.pc = "compare" /\ r.op = cmd[c].op /\ r.obs = file
      BY <1>2 DEF Command, TypeOK, Steps, LockedSteps
    <2>2. cmd' = [cmd EXCEPT ![c] = r]
      BY <1>4 DEF Become
    <2> HIDE DEF r
    <2>3. /\ cmd' \in [Caller -> Command \cup {Idle}]
          /\ cmd'[c] = r
          /\ \A d \in Caller \ {c} : cmd'[d] = cmd[d]
      BY <1>2, <2>1, <2>2 DEF TypeOK
    <2>4. MayReplace(c)' /\ MayAsk(c)'
      BY <1>1, <1>4, <2>1, <2>3 DEF MayReplace, MayAsk, At
    <2> QED BY <1>1, <1>2, <2>1, <2>3, <2>4, OneMoves DEF LockedSteps
  <1> QED BY <1>3, <1>4 DEF InspectProject

\* Steps behind the lock that only look.
LEMMA LookKeeps ==
  ASSUME IInv, NEW c \in Caller, InspectUser(c) \/ Compare(c)
  PROVE  IInv'
  <1>1. /\ UNCHANGED <<file, lock, edits, raced>> /\ cmd[c].pc \in {"inspect", "compare"}
        /\ \/ cmd[c].pc = "inspect" /\ cmd[c].op.scope = "user" /\ Goto(c, "compare")
           \/ cmd[c].pc = "compare" /\ file = cmd[c].obs /\ Goto(c, "rename")
    BY DEF InspectUser, Compare, AsObserved, At
  <1>2. TypeOK /\ c \notin raced /\ MayReplace(c)
    BY <1>1 DEF IInv, RacedInv, ReplaceInv, CliSteps
  <1>3. /\ cmd' \in [Caller -> Command \cup {Idle}] /\ cmd'[c].pc \in {"compare", "rename"}
        /\ cmd'[c].op = cmd[c].op /\ cmd'[c].obs = cmd[c].obs
        /\ cmd'[c].pc = "rename" => cmd[c].pc = "compare" /\ file = cmd[c].obs
        /\ cmd'[c].pc = "compare" => cmd[c].op.scope = "user"
        /\ \A d \in Caller \ {c} : cmd'[d] = cmd[d]
    BY <1>1, <1>2, GotoMoves DEF At, Steps, LockedSteps
  <1>4. MayReplace(c)' /\ MayAsk(c)'
    BY <1>1, <1>2, <1>3 DEF MayReplace, MayAsk, At, LockedSteps
  <1> QED BY <1>1, <1>2, <1>3, <1>4, OneMoves DEF At, LockedSteps

LEMMA UnlockKeeps ==
  ASSUME IInv, NEW c \in Caller, Unlock(c)
  PROVE  IInv'
  <1>1. /\ cmd[c].pc = "unlock" /\ lock' = Nobody /\ UNCHANGED <<file, edits, raced>>
        /\ Goto(c, AfterInstall(cmd[c].op))
    BY DEF Unlock, At
  <1>2. TypeOK /\ c \notin raced /\ lock = c
    BY <1>1 DEF IInv, RacedInv, LockInv, CliSteps, LockedSteps
  <1>3. AfterInstall(cmd[c].op) \in {"getLegacy", "idle"}
    BY DEF AfterInstall
  <1>4. /\ cmd' \in [Caller -> Command \cup {Idle}] /\ cmd'[c].pc \in {"getLegacy", "idle"}
        /\ \A d \in Caller \ {c} : cmd'[d] = cmd[d]
    BY <1>1, <1>2, <1>3, GotoMoves DEF At, Steps
  <1>5. MayReplace(c)' /\ MayAsk(c)'
    BY <1>4 DEF MayReplace, MayAsk, At, LockedSteps
  <1> QED BY <1>1, <1>2, <1>4, <1>5, OneMoves DEF At, LockedSteps

LEMMA ObserveKeeps ==
  ASSUME IInv, NEW c \in Caller, Observe(c)
  PROVE  IInv'
  <1>1. cmd[c].pc = "observe" /\ UNCHANGED <<file, lock, edits, raced>>
    BY DEF Observe, At
  <1>2. TypeOK /\ c \notin raced /\ cmd[c] \in Command
    BY <1>1, CommandTyped DEF IInv, RacedInv, CliSteps, At
  <1> DEFINE r == [cmd[c] EXCEPT !.pc = "get", !.obs = file]
  <1>3. r \in Command /\ r.pc = "get"
    BY <1>2 DEF Command, TypeOK, Steps
  <1>4. cmd' = [cmd EXCEPT ![c] = r]
    BY DEF Become, Observe
  <1> HIDE DEF r
  <1>5. /\ cmd' \in [Caller -> Command \cup {Idle}]
        /\ cmd'[c] = r
        /\ \A d \in Caller \ {c} : cmd'[d] = cmd[d]
    BY <1>2, <1>3, <1>4 DEF TypeOK
  <1>6. MayReplace(c)' /\ MayAsk(c)'
    BY <1>3, <1>5 DEF MayReplace, MayAsk, At, LockedSteps
  <1> QED BY <1>1, <1>2, <1>3, <1>5, <1>6, OneMoves DEF At, LockedSteps

\* What a command does next follows from the table the CLI has found.
LEMMA AfterGetAsks ==
  ASSUME NEW o \in Request, NEW t
  PROVE  /\ AfterGet(o, t) \in {"remove", "add", "lock", "getLegacy", "idle"}
         /\ AfterGet(o, t) = "lock" => o.force
         /\ AfterGet(o, t) = "add" => t = None
         /\ AfterGet(o, t) = "remove" => o.force \/ t \in UserTable
  BY DEF AfterGet, AfterInstall, ManagedUser

\* A server is a table of the file or none.
LEMMA ServerTyped ==
  ASSUME NEW f \in File, NEW n \in Name
  PROVE  Server(f, n) \in Table \cup {None}
  BY DEF Server, File

LEMMA UserGetKeeps ==
  ASSUME IInv, NEW c \in Caller, UserGet(c)
  PROVE  IInv'
  <1>1. cmd[c].pc = "get" /\ UNCHANGED <<file, lock, edits, raced>>
    BY DEF UserGet, At
  <1>2. /\ TypeOK /\ c \notin raced /\ cmd[c] \in Command /\ cmd[c].op \in Request
        /\ cmd[c].op.name \in Name
    BY <1>1, CommandTyped, RequestTyped DEF IInv, RacedInv, CliSteps, At
  <1> DEFINE t == Server(file, cmd[c].op.name)
             to == AfterGet(cmd[c].op, t)
             r == [cmd[c] EXCEPT !.pc = to, !.got = t]
  <1>3. t \in Table \cup {None}
    BY <1>2, ServerTyped DEF TypeOK
  <1>4. /\ to \in {"remove", "add", "lock", "getLegacy", "idle"}
        /\ to = "lock" => cmd[c].op.force
        /\ to = "add" => t = None
        /\ to = "remove" => cmd[c].op.force \/ t \in UserTable
    BY <1>2, AfterGetAsks
  <1>5. cmd' = [cmd EXCEPT ![c] = IF r.pc = "idle" THEN Idle ELSE r]
    BY DEF UserGet, Become
  <1> HIDE DEF t, to
  <1>6. r.pc = to /\ r.op = cmd[c].op /\ (to # "idle" => r \in Command)
    BY <1>2, <1>3, <1>4 DEF Command, Steps, CliSteps
  <1> HIDE DEF r
  <1>7. /\ cmd' \in [Caller -> Command \cup {Idle}] /\ cmd'[c].pc = to
        /\ to # "idle" => cmd'[c].op = cmd[c].op
        /\ \A d \in Caller \ {c} : cmd'[d] = cmd[d]
    BY <1>2, <1>5, <1>6 DEF TypeOK, Idle
  <1>8. MayReplace(c)' /\ MayAsk(c)'
    BY <1>1, <1>4, <1>7 DEF MayReplace, MayAsk, At, LockedSteps, t
  <1> QED BY <1>1, <1>2, <1>4, <1>7, <1>8, OneMoves DEF At, LockedSteps

LEMMA GetLegacyKeeps ==
  ASSUME IInv, NEW c \in Caller, GetLegacy(c)
  PROVE  IInv'
  <1>1. PICK to \in {"removeLegacy", "idle"} :
          /\ cmd[c].pc = "getLegacy" /\ UNCHANGED <<file, lock, edits, raced>>
          /\ Goto(c, to) /\ (to = "removeLegacy" => Server(file, LegacyName) = Legacy)
    BY DEF GetLegacy, At
  <1>2. TypeOK /\ c \notin raced
    BY <1>1 DEF IInv, RacedInv, CliSteps
  <1>3. /\ cmd' \in [Caller -> Command \cup {Idle}] /\ cmd'[c].pc = to
        /\ \A d \in Caller \ {c} : cmd'[d] = cmd[d]
    BY <1>1, <1>2, GotoMoves DEF At, Steps, CliSteps
  <1>4. MayReplace(c)' /\ MayAsk(c)'
    BY <1>1, <1>3 DEF MayReplace, MayAsk, At, LockedSteps
  <1> QED BY <1>1, <1>2, <1>3, <1>4, OneMoves DEF At, LockedSteps

\* A command that fails gives up the lock, and what it rested on.
LEMMA FailKeeps ==
  ASSUME IInv, NEW c \in Caller, Fail(c)
  PROVE  IInv'
  <1>1. TypeOK /\ LockInv /\ RacedInv /\ CommitsWhatItSaw /\ ReplaceInv /\ CliInv
    BY DEF IInv
  <1>2. /\ lock' = (IF lock = c THEN Nobody ELSE lock) /\ raced' = raced \ {c}
        /\ UNCHANGED <<file, edits>>
    BY DEF Fail
  <1>3. /\ cmd' \in [Caller -> Command \cup {Idle}] /\ cmd'[c].pc = "idle"
        /\ \A d \in Caller \ {c} : cmd'[d] = cmd[d]
    BY <1>1, GotoMoves DEF Fail
  <1>4. TypeOK'
    BY <1>1, <1>2, <1>3 DEF TypeOK
  <1>5. LockInv'
    BY <1>1, <1>2, <1>3, ConfigAssumption DEF LockInv, LockedSteps
  <1>6. RacedInv' /\ CommitsWhatItSaw'
    BY <1>1, <1>2, <1>3 DEF RacedInv, CommitsWhatItSaw, At, TypeOK
  <1>7. ReplaceInv'
    BY <1>1, <1>3 DEF ReplaceInv, MayReplace, LockedSteps
  <1>8. CliInv'
    BY <1>1, <1>2, <1>3 DEF CliInv, MayAsk, At
  <1> QED BY <1>4, <1>5, <1>6, <1>7, <1>8 DEF IInv

\* The entry of one name changes, and the file stays one.
LEMMA EntryTyped ==
  ASSUME NEW f \in File, NEW n \in Name, NEW b \in Block, NEW t \in Table \cup {None}
  PROVE  /\ [f EXCEPT !.block[n] = b] \in File
         /\ [f EXCEPT !.table[n] = t] \in File
         /\ [f EXCEPT !.exists = TRUE, !.block[n] = b] \in File
         /\ [f EXCEPT !.exists = TRUE, !.table[n] = t] \in File
         /\ [f EXCEPT !.block[n] = b, !.table[n] = t] \in File
  BY DEF File

LEMMA WrittenTyped ==
  ASSUME NEW f \in File, NEW o \in Request
  PROVE  Written(o, f) \in File
  <1>1. o.name \in Name /\ o.want \in Table
    BY RequestTyped
  <1>2. o.want \in Block /\ None \in Block
    BY <1>1 DEF Block
  <1> QED BY <1>1, <1>2, EntryTyped DEF Written

LEMMA RenameKeeps ==
  ASSUME IInv, NEW c \in Caller, Rename(c)
  PROVE  IInv'
  <1>1. /\ cmd[c].pc = "rename" /\ Goto(c, "unlock") /\ UNCHANGED <<lock, edits>>
        /\ file' = Written(cmd[c].op, cmd[c].obs)
        /\ raced' = (raced \ {c}) \cup {d \in Caller : cmd[d].pc \in CliSteps}
    BY DEF Rename, At
  <1>2. TypeOK /\ cmd[c].op \in Request /\ cmd[c].obs \in File
    BY <1>1, CommandTyped DEF IInv, At
  <1>3. file' \in File
    BY <1>1, <1>2, WrittenTyped
  <1>4. /\ cmd' \in [Caller -> Command \cup {Idle}]
        /\ cmd'[c].pc = "unlock"
        /\ cmd'[c].op = cmd[c].op
        /\ \A d \in Caller \ {c} : cmd'[d] = cmd[d]
    BY <1>1, <1>2, GotoMoves DEF At, Steps, LockedSteps
  <1>5. \A d \in Caller \ {c} : cmd[d].pc # "rename"
    BY <1>1 DEF IInv, LockInv, LockedSteps
  <1>6. \A d \in raced' : d \in Caller \ {c} /\ cmd[d].pc \in CliSteps \cup {"rename"}
    BY <1>1 DEF IInv, RacedInv, CliSteps, TypeOK
  <1>7. edits' \in 0 .. MaxEdits
    BY <1>1, <1>2 DEF TypeOK
  <1> QED BY <1>1, <1>3, <1>4, <1>5, <1>6, <1>7, OneWrites

\* The CLI has written for a command that has asked it to.
LEMMA CliWrites ==
  ASSUME IInv, NEW c \in Caller, cmd[c].pc \in CliSteps, NEW f \in File, WriteOutside(f, {c}),
         NEW to \in {"getLegacy", "idle"}, Goto(c, to), UNCHANGED <<lock, edits>>
  PROVE  IInv'
  <1>1. /\ file' = f
        /\ raced' = (raced \ {c}) \cup {d \in Caller \ {c} : cmd[d].pc \in CliSteps \cup {"rename"}}
    BY DEF WriteOutside
  <1>2. TypeOK /\ RacedInv
    BY DEF IInv
  <1>3. /\ cmd' \in [Caller -> Command \cup {Idle}] /\ cmd'[c].pc = to
        /\ \A d \in Caller \ {c} : cmd'[d] = cmd[d]
    BY <1>2, GotoMoves DEF At, Steps, CliSteps
  <1>4. \A d \in raced' : d \in Caller \ {c} /\ cmd[d].pc \in CliSteps \cup {"rename"}
    BY <1>1, <1>2 DEF RacedInv, TypeOK
  <1>5. edits' \in 0 .. MaxEdits
    BY <1>2 DEF TypeOK
  <1>6. cmd[c].pc # "rename"
    BY DEF CliSteps
  <1> QED BY <1>1, <1>3, <1>4, <1>5, <1>6, OneWrites

LEMMA UserAddKeeps ==
  ASSUME IInv, NEW c \in Caller, UserAdd(c)
  PROVE  IInv'
  <1>1. cmd[c].pc = "add" /\ UNCHANGED <<lock, edits>> /\ Goto(c, AfterInstall(cmd[c].op))
    BY DEF UserAdd, At
  <1>2. /\ file \in File /\ cmd[c].op.name \in Name /\ cmd[c].op.want \in Table
        /\ cmd[c].op.want \in Block
    BY <1>1, CommandTyped, RequestTyped DEF IInv, TypeOK, At, Block
  <1>3. PICK f \in File : WriteOutside(f, {c})
    BY <1>2, EntryTyped DEF UserAdd
  <1>4. AfterInstall(cmd[c].op) \in {"getLegacy", "idle"}
    BY DEF AfterInstall
  <1> QED BY <1>1, <1>3, <1>4, CliWrites DEF CliSteps

LEMMA UserRemoveKeeps ==
  ASSUME IInv, NEW c \in Caller, UserRemove(c)
  PROVE  IInv'
  <1>1. cmd[c].pc \in {"remove", "removeLegacy"} /\ UNCHANGED <<lock, edits>> /\ Goto(c, "idle")
    BY DEF UserRemove
  <1>2. file \in File /\ cmd[c].op.name \in Name /\ LegacyName \in Name /\ Empty \in Block
    BY <1>1, CommandTyped, RequestTyped, ConfigAssumption DEF IInv, TypeOK, At, Block
  <1>3. PICK f \in File : WriteOutside(f, {c})
    BY <1>2, EntryTyped DEF UserRemove
  <1> QED BY <1>1, <1>3, CliWrites DEF CliSteps

\* Whatever the user writes, every look that matters is out of date.
LEMMA EditKeeps ==
  ASSUME IInv, Edit
  PROVE  IInv'
  <1>1. TypeOK /\ RacedInv /\ edits' = edits + 1 /\ edits < MaxEdits /\ UNCHANGED <<lock, cmd>>
    BY DEF IInv, Edit
  <1>2. PICK f \in File : WriteOutside(f, {})
    <2>1. file \in File /\ edits + 1 \in 0 .. MaxEdits
      BY <1>1, ConfigAssumption DEF TypeOK
    <2>2. [file EXCEPT !.exists = TRUE, !.rest = edits + 1] \in File
      BY <2>1 DEF File
    <2>3. NoFile \in File
      BY ConfigAssumption DEF NoFile, File, Block
    <2>4. /\ {None, Broken, Empty, Foreign} \subseteq Block
          /\ {None, Foreign} \subseteq Table \cup {None}
      BY DEF Block, Table
    <2> QED BY <2>1, <2>2, <2>3, <2>4, EntryTyped DEF Edit
  <1>3. file' = f /\ raced' = raced \cup {d \in Caller : cmd[d].pc \in CliSteps \cup {"rename"}}
    BY <1>2 DEF WriteOutside
  <1>4. edits' \in 0 .. MaxEdits
    BY <1>1, ConfigAssumption DEF TypeOK
  <1>5. \A d \in raced' : d \in Caller /\ cmd[d].pc \in CliSteps \cup {"rename"}
    BY <1>1, <1>3 DEF RacedInv, TypeOK
  <1>6. cmd' \in [Caller -> Command \cup {Idle}]
    BY <1>1 DEF TypeOK
  <1> QED BY <1>1, <1>3, <1>4, <1>5, <1>6, OneWrites, {} \in SUBSET Caller

LEMMA InitInv == Init => IInv
  <1> SUFFICES ASSUME Init PROVE IInv
    OBVIOUS
  <1> USE ConfigAssumption DEF Init
  <1>1. file \in File
    <2>1. NoFile \in File /\ Legacy \in Table \cup {None}
      BY DEF NoFile, File, Block, Table
    <2>2. [NoFile EXCEPT !.exists = TRUE, !.table[LegacyName] = Legacy] \in File
      BY <2>1 DEF File
    <2> QED BY <2>1, <2>2
  <1>2. TypeOK
    BY <1>1 DEF TypeOK
  <1>3. \A c \in Caller : cmd[c].pc = "idle"
    BY DEF Idle
  <1>4. LockInv /\ RacedInv /\ CommitsWhatItSaw
    BY <1>3 DEF LockInv, RacedInv, CommitsWhatItSaw, At, LockedSteps
  <1>5. ReplaceInv /\ CliInv
    BY <1>3 DEF ReplaceInv, MayReplace, CliInv, MayAsk, At, LockedSteps
  <1> QED BY <1>2, <1>4, <1>5 DEF IInv

LEMMA StepInv == IInv /\ [Next]_vars => IInv'
  <1> SUFFICES ASSUME IInv, [Next]_vars PROVE IInv'
    OBVIOUS
  <1>1. ASSUME NEW c \in Caller, Step(c) PROVE IInv'
    BY <1>1, BeginKeeps, AcquireConfigurationKeeps, InspectProjectKeeps, LookKeeps,
       RenameKeeps, UnlockKeeps, ObserveKeeps, UserGetKeeps, UserAddKeeps, GetLegacyKeeps,
       UserRemoveKeeps, FailKeeps DEF Step
  <1>2. CASE UNCHANGED vars
    <2>1. UNCHANGED <<file, lock, cmd, edits, raced>>
      BY <1>2 DEF vars
    <2>2. TypeOK' /\ LockInv' /\ RacedInv' /\ CommitsWhatItSaw'
      BY <2>1 DEF IInv, TypeOK, LockInv, RacedInv, CommitsWhatItSaw, At
    <2>3. ReplaceInv' /\ CliInv'
      BY <2>1 DEF IInv, ReplaceInv, MayReplace, CliInv, MayAsk, At
    <2> QED BY <2>2, <2>3 DEF IInv
  <1> QED BY <1>1, <1>2, EditKeeps DEF Next

-----------------------------------------------------------------------------
(* Theorems                                                                *)

\* The inductive invariant holds in every reachable state: it says what each
\* command rests on.
THEOREM InvCorrect == Spec => []IInv
  BY InitInv, StepInv, PTL DEF Spec

\* The file, the lock and the commands have their types.
THEOREM TypeCorrect == Spec => []TypeOK
  <1>1. IInv => TypeOK
    BY DEF IInv
  <1> QED BY <1>1, InvCorrect, PTL

(* atomicWrite: a command that is about to replace the file has read the   *)
(* very file it replaces, unless a program that does not know the lock has *)
(* written in between.                                                     *)
THEOREM CommitsWhatItSawCorrect == Spec => []CommitsWhatItSaw
  <1>1. IInv => CommitsWhatItSaw
    BY DEF IInv
  <1> QED BY <1>1, InvCorrect, PTL

-----------------------------------------------------------------------------
(* What a step may do to the file                                          *)

\* A step is one of a single command.
LEMMA OthersStay ==
  ASSUME TypeOK, NEW d \in Caller, Step(d), NEW c \in Caller \ {d}
  PROVE  cmd'[c] = cmd[c]
  <1>1. CASE \E o \in Commands : Begin(d, o)
    BY <1>1 DEF Begin, Become
  <1>2. CASE AcquireConfiguration(d) \/ InspectProject(d) \/ InspectUser(d)
    BY <1>2 DEF AcquireConfiguration, InspectProject, InspectUser, Goto, Become, TypeOK
  <1>3. CASE Compare(d) \/ Rename(d) \/ Unlock(d) \/ Observe(d) \/ UserGet(d)
    BY <1>3 DEF Compare, Rename, Unlock, Observe, UserGet, Goto, Become, TypeOK
  <1>4. CASE UserAdd(d) \/ GetLegacy(d) \/ UserRemove(d) \/ Fail(d)
    BY <1>4 DEF UserAdd, GetLegacy, UserRemove, Fail, Goto, Become, TypeOK
  <1> QED BY <1>1, <1>2, <1>3, <1>4 DEF Step

\* A command that passes from the rename to the release of the lock has
\* renamed.
LEMMA OnlyRenameReplaces ==
  ASSUME TypeOK, [Next]_vars, NEW c \in Caller, Replaces(c)
  PROVE  Rename(c)
  <1>1. cmd[c].pc = "rename" /\ cmd'[c].pc = "unlock"
    BY DEF Replaces, At
  <1>2. Step(c)
    BY <1>1, OthersStay DEF Next, Edit, vars
  <1>3. Rename(c) \/ Fail(c)
    BY <1>1, <1>2 DEF Step, Begin, AcquireConfiguration, InspectProject, InspectUser, Compare,
       Unlock, Observe, UserGet, UserAdd, GetLegacy, UserRemove, At
  <1>4. Fail(c) => cmd'[c].pc = "idle"
    BY GotoMoves DEF Fail
  <1> QED BY <1>1, <1>3, <1>4

\* What a command writes differs from what it has read in its own entry only.
LEMMA WrittenKeepsOthers ==
  ASSUME NEW f \in File, NEW o \in Request
  PROVE  /\ Others(Written(o, f), o) = Others(f, o)
         /\ \A n \in Name \ {o.name} : Server(Written(o, f), n) = Server(f, n)
  <1> DEFINE g == Written(o, f)
  <1>1. /\ g.rest = f.rest
        /\ \A n \in Name \ {o.name} : g.block[n] = f.block[n] /\ g.table[n] = f.table[n]
        /\ o.scope = "project" => g.table[o.name] = f.table[o.name]
    <2>1. CASE o.scope = "user"
      BY DEF Written
    <2>2. CASE o.scope # "user" /\ o.kind = "install"
      BY DEF Written
    <2>3. CASE o.scope # "user" /\ o.kind # "install"
      BY DEF Written
    <2> QED BY <2>1, <2>2, <2>3
  <1> HIDE DEF g
  <1>2. Others(g, o) = Others(f, o)
    BY <1>1 DEF Others
  <1>3. \A n \in Name \ {o.name} : Server(g, n) = Server(f, n)
    BY <1>1 DEF Server
  <1> QED BY <1>2, <1>3 DEF g

(* appendManagedBlock, replaceUserTable: a command that replaces the file  *)
(* leaves everything but its own entry as it is at that moment, unless     *)
(* somebody else has just written.                                         *)
THEOREM OnlyItsEntryCorrect == Spec => OnlyItsEntry
  <1>1. ASSUME IInv, [Next]_vars, NEW c \in Caller, Replaces(c), c \notin raced
        PROVE  Others(file', cmd[c].op) = Others(file, cmd[c].op)
    <2>1. Rename(c)
      BY <1>1, OnlyRenameReplaces DEF IInv
    <2>2. At(c, "rename") /\ file' = Written(cmd[c].op, cmd[c].obs) /\ file = cmd[c].obs
      BY <1>1, <2>1 DEF Rename, IInv, CommitsWhatItSaw
    <2>3. cmd[c].op \in Request /\ file \in File
      BY <1>1, <2>2, CommandTyped DEF IInv, At
    <2> QED BY <2>2, <2>3, WrittenKeepsOthers
  <1>2. IInv /\ [Next]_vars =>
          [\A c \in Caller :
             Replaces(c) /\ c \notin raced
               => Others(file', cmd[c].op) = Others(file, cmd[c].op)]_vars
    BY <1>1
  <1> QED BY <1>2, InvCorrect, PTL DEF Spec, OnlyItsEntry

\* A step that takes a table away that is not FocalSpan's is the user's, that
\* of a command with --force, or of one whose look is out of date.
LEMMA ForeignStaysInStep ==
  ASSUME IInv, Next, NEW n \in Name, Server(file, n) = Foreign, ~Managed(file, n),
         Server(file', n) # Foreign, edits' = edits
  PROVE  \E c \in Caller : cmd[c] # cmd'[c] /\ (cmd[c].op.force \/ c \in raced)
  <1>1. TypeOK /\ CommitsWhatItSaw /\ ReplaceInv /\ CliInv
    BY DEF IInv
  <1>2. file \in File /\ Foreign # None /\ Foreign \notin UserTable /\ Foreign # Legacy
    BY <1>1, ConfigAssumption DEF TypeOK, Table
  <1>3. PICK c \in Caller : Step(c)
    <2>1. edits \in 0 .. MaxEdits
      BY <1>1 DEF TypeOK
    <2>2. edits + 1 # edits
      BY <2>1
    <2>3. ~Edit
      BY <2>2 DEF Edit
    <2> QED BY <2>3 DEF Next
  <1>4. Rename(c) \/ UserAdd(c) \/ UserRemove(c)
    BY <1>3 DEF Step, Begin, AcquireConfiguration, InspectProject, InspectUser, Compare,
       Unlock, Observe, UserGet, GetLegacy, Fail
  <1>5. ~At(c, "idle")
    BY <1>4 DEF Rename, UserAdd, UserRemove, At
  <1>6. cmd[c].op \in Request /\ cmd[c].op.name \in Name
    BY <1>1, <1>5, CommandTyped, RequestTyped
  <1>7. cmd[c] # cmd'[c]
    <2>1. \E to \in {"unlock", "getLegacy", "idle"} : Goto(c, to)
      BY <1>4 DEF Rename, UserAdd, UserRemove, AfterInstall
    <2>2. cmd'[c].pc \in {"unlock", "getLegacy", "idle"}
      BY <1>1, <1>5, <2>1, GotoMoves DEF Steps, LockedSteps
    <2> QED BY <1>4, <2>2 DEF Rename, UserAdd, UserRemove, At
  <1> SUFFICES ASSUME ~cmd[c].op.force, c \notin raced PROVE FALSE
    BY <1>7
  <1>8. MayReplace(c) /\ MayAsk(c)
    BY <1>1 DEF ReplaceInv, CliInv
  <1>9. ASSUME Rename(c) PROVE FALSE
    <2>1. At(c, "rename") /\ file' = Written(cmd[c].op, file) /\ file = cmd[c].obs
      BY <1>1, <1>9 DEF Rename, CommitsWhatItSaw
    <2>2. n = cmd[c].op.name
      BY <1>2, <1>6, <2>1, WrittenKeepsOthers
    <2>3. cmd[c].op.scope = "project"
      BY <1>6, <1>8, <2>1, RequestTyped DEF MayReplace, At, LockedSteps
    <2> QED BY <1>2, <1>8, <2>1, <2>2, <2>3 DEF MayReplace, At
  <1>10. ASSUME UserAdd(c) PROVE FALSE
    <2>1. At(c, "add") /\ n # cmd[c].op.name
      BY <1>2, <1>8, <1>10 DEF UserAdd, MayAsk
    <2>2. Server(file', n) = Server(file, n)
      BY <1>10, <2>1 DEF UserAdd, WriteOutside, Server
    <2> QED BY <2>2
  <1>11. ASSUME UserRemove(c) PROVE FALSE
    <2> DEFINE m == IF At(c, "remove") THEN cmd[c].op.name ELSE LegacyName
    <2>1. Server(file, m) # Foreign
      BY <1>2, <1>8, <1>11 DEF UserRemove, MayAsk, At
    <2>2. n # m /\ m \in Name
      BY <1>6, <2>1, ConfigAssumption
    <2>3. file' = (IF file.block[m] \in Table THEN [file EXCEPT !.block[m] = Empty]
                   ELSE [file EXCEPT !.table[m] = None])
      BY <1>11 DEF UserRemove, WriteOutside
    <2> HIDE DEF m
    <2>4. Server(file', n) = Server(file, n)
      BY <2>2, <2>3 DEF Server
    <2> QED BY <2>4
  <1> QED BY <1>4, <1>9, <1>10, <1>11

(* installUser, installProject, migrateLegacyUser: a table that is not     *)
(* FocalSpan's disappears by the user's hand, with --force, or because it  *)
(* came after the command had looked.                                      *)
THEOREM ForeignIsKeptCorrect == Spec => ForeignIsKept
  <1>1. ASSUME IInv, [Next]_vars, NEW n \in Name, Server(file, n) = Foreign, ~Managed(file, n),
               Server(file, n)' # Foreign
        PROVE  \/ edits' # edits
               \/ \E c \in Caller : cmd[c] # cmd'[c] /\ (cmd[c].op.force \/ c \in raced)
    <2>1. Next
      BY <1>1 DEF vars
    <2> QED BY <1>1, <2>1, ForeignStaysInStep
  <1>2. IInv /\ [Next]_vars =>
          [\A n \in Name :
             Server(file, n) = Foreign /\ ~Managed(file, n) /\ Server(file, n)' # Foreign =>
               \/ edits' # edits
               \/ \E c \in Caller : cmd[c] # cmd'[c] /\ (cmd[c].op.force \/ c \in raced)]_vars
    BY <1>1
  <1> QED BY <1>2, InvCorrect, PTL DEF Spec, ForeignIsKept

=============================================================================

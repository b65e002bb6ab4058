----------------------------- MODULE CodexConfig ----------------------------
(***************************************************************************)
(* integration/codex: registering FocalSpan's MCP server in one            *)
(* config.toml that belongs to the user.  Project scope keeps a marked     *)
(* block in it; user scope asks the Codex CLI, and with --force replaces   *)
(* the server's table itself.  Writers of FocalSpan exclude each other     *)
(* with a lock file; the CLI and the user's editor know nothing of it.     *)
(* Both scopes meet in one file when the repository is the home directory. *)
(***************************************************************************)
EXTENDS Naturals

CONSTANTS
  Caller,        \* running commands
  Name,          \* names of servers
  LegacyName,    \* the name older releases derived from the root
  ProjectTable,  \* tables of the project scope, one for each choice of flags
  UserTable,     \* tables of the user scope
  Legacy,        \* a table of an older release, for this root
  Foreign,       \* a table that is not FocalSpan's
  None,          \* no table; no markers
  Broken,        \* markers that do not pair
  Nobody,        \* the lock is free
  Commands,      \* bound: the requests that are made
  MaxEdits       \* bound: writes of the user

Table == ProjectTable \cup UserTable \cup {Legacy, Foreign}

\* Markers around no table, the rest of the block's text being comments.
Empty == "empty"
Block == Table \cup {None, Broken, Empty}

ASSUME ConfigAssumption ==
  /\ LegacyName \in Name
  /\ ProjectTable \cap UserTable = {}
  /\ {Legacy, Foreign} \cap (ProjectTable \cup UserTable) = {} /\ Legacy # Foreign
  /\ {None, Broken, Empty} \cap Table = {} /\ None # Broken /\ Empty \notin {None, Broken}
  /\ Nobody \notin Caller
  /\ MaxEdits \in Nat

File == [exists: BOOLEAN, rest: 0 .. MaxEdits, block: [Name -> Block],
         table: [Name -> Table \cup {None}]]
NoFile == [exists |-> FALSE, rest |-> 0, block |-> [n \in Name |-> None],
           table |-> [n \in Name |-> None]]

\* Project scope has no --force and no older release's name to migrate from.
Request ==
  {o \in [kind: {"install", "uninstall"}, scope: {"project", "user"}, name: Name,
          want: ProjectTable \cup UserTable, force: BOOLEAN, migrate: BOOLEAN] :
     /\ o.want \in IF o.scope = "user" THEN UserTable ELSE ProjectTable
     /\ o.scope = "project" => ~o.force /\ ~o.migrate
     /\ o.kind = "uninstall" => ~o.migrate}

ASSUME CommandsAssumption == Commands \subseteq Request

VARIABLES
  file,     \* config.toml: what is unmarked, and the entries of each name
  lock,     \* config.toml.focalspan.lock
  cmd,      \* each command: its step, its request, the file as it has read it
            \* (projectObservation), and what `codex mcp get` answered
  edits,    \* writes of the user so far
  raced     \* commands whose last look is out of date (history)

vars == <<file, lock, cmd, edits, raced>>

\* Between a look and a write that no lock protects against the CLI.
CliSteps == {"add", "remove", "removeLegacy"}
LockedSteps == {"inspect", "compare", "rename", "unlock"}
Steps == {"observe", "get", "lock", "getLegacy"} \cup LockedSteps \cup CliSteps

Idle == [pc |-> "idle"]
Command == [pc: Steps, op: Commands, obs: File, got: Table \cup {None}]

At(c, step) == cmd[c].pc = step
Become(c, r) == cmd' = [cmd EXCEPT ![c] = IF r.pc = "idle" THEN Idle ELSE r]
Goto(c, to) == Become(c, [cmd[c] EXCEPT !.pc = to])

Init ==
  /\ file \in {NoFile, [NoFile EXCEPT !.exists = TRUE, !.table[LegacyName] = Legacy]}
  /\ lock = Nobody
  /\ cmd = [c \in Caller |-> Idle]
  /\ edits = 0
  /\ raced = {}

-----------------------------------------------------------------------------
(* What a file says                                                        *)

Managed(f, n) == f.block[n] # None

\* findServer: the table with the server's name, in the block or elsewhere.
Server(f, n) == IF f.block[n] \in Table THEN f.block[n] ELSE f.table[n]

\* validateTOML: a table may be there once only.
Valid(f) == \A n \in Name : f.block[n] \in Table => f.table[n] = None

\* inspectProject succeeds.
Readable(f, n) == Valid(f) /\ f.block[n] # Broken

SameRegistration(t, o) == t = o.want

\* managedUserRegistration: serve, with or without updates, whatever the path.
ManagedUser(t) == t \in UserTable

\* Faulty variant: the file is written anew, with the block alone.
WrittenAnew(o, f) == [NoFile EXCEPT !.exists = TRUE, !.block[o.name] = o.want]

\* appendManagedBlock; replaceUserTable, which drops markers it finds.
Written(o, f) ==
  CASE o.scope = "user" -> [f EXCEPT !.block[o.name] = None, !.table[o.name] = o.want]
    [] o.kind = "install" -> [f EXCEPT !.exists = TRUE, !.block[o.name] = o.want]
    [] OTHER -> [f EXCEPT !.block[o.name] = None]

-----------------------------------------------------------------------------
(* Writers                                                                 *)

\* The user or the CLI writes: whoever else is about to write has not seen it.
WriteOutside(f, writer) ==
  /\ file' = f
  /\ raced' = (raced \ writer)
              \cup {d \in Caller \ writer : cmd[d].pc \in CliSteps \cup {"rename"}}

Begin(c, o) ==
  /\ At(c, "idle")
  /\ LET first == CASE o.scope = "project" -> "lock"
                    [] o.kind = "install" /\ o.force -> "observe"
                    [] OTHER -> "get"
     IN Become(c, [pc |-> first, op |-> o, obs |-> NoFile, got |-> None])
  /\ UNCHANGED <<file, lock, edits, raced>>

AcquireConfiguration(c) ==
  /\ At(c, "lock")
  /\ lock = Nobody
  /\ lock' = c
  /\ Goto(c, "inspect")
  /\ UNCHANGED <<file, edits, raced>>

\* The action of installProject and uninstallProject; an unmanaged table with
\* the name is a conflict.
InspectProject(c) ==
  /\ At(c, "inspect") /\ cmd[c].op.scope = "project"
  /\ LET o == cmd[c].op
         unchanged == IF o.kind = "uninstall" THEN ~Managed(file, o.name)
                      ELSE SameRegistration(Server(file, o.name), o)
     IN /\ Readable(file, o.name)
        /\ \/ unchanged /\ Goto(c, "unlock")
           \/ /\ ~unchanged
              /\ Managed(file, o.name) \/ Server(file, o.name) = None
              /\ Valid(Written(o, file))
              /\ Become(c, [cmd[c] EXCEPT !.pc = "compare", !.obs = file])
  /\ UNCHANGED <<file, lock, edits, raced>>

\* replaceUserRegistration: the file is as it was before the CLI was asked,
\* and says what the CLI said.
InspectUser(c) ==
  /\ At(c, "inspect") /\ cmd[c].op.scope = "user"
  /\ Readable(file, cmd[c].op.name)
  /\ file = cmd[c].obs
  /\ Server(file, cmd[c].op.name) = cmd[c].got
  /\ Goto(c, "compare")
  /\ UNCHANGED <<file, lock, edits, raced>>

\* Faulty variant: what has been read is not compared again.
AsObservedOnce(c) == TRUE

\* atomicWrite: the file still has the bytes that were read.
AsObserved(c) == file = cmd[c].obs

Compare(c) ==
  /\ At(c, "compare")
  /\ AsObserved(c)
  /\ Goto(c, "rename")
  /\ UNCHANGED <<file, lock, edits, raced>>

Rename(c) ==
  /\ At(c, "rename")
  /\ file' = Written(cmd[c].op, cmd[c].obs)
  /\ raced' = (raced \ {c}) \cup {d \in Caller : cmd[d].pc \in CliSteps}
  /\ Goto(c, "unlock")
  /\ UNCHANGED <<lock, edits>>

AfterInstall(o) == IF o.migrate THEN "getLegacy" ELSE "idle"

Unlock(c) ==
  /\ At(c, "unlock")
  /\ lock' = Nobody
  /\ Goto(c, AfterInstall(cmd[c].op))
  /\ UNCHANGED <<file, edits, raced>>

-----------------------------------------------------------------------------
(* User scope                                                              *)

\* With --force the file is read before the CLI is asked.
Observe(c) ==
  /\ At(c, "observe")
  /\ Readable(file, cmd[c].op.name)
  /\ Become(c, [cmd[c] EXCEPT !.pc = "get", !.obs = file])
  /\ UNCHANGED <<file, lock, edits, raced>>

\* Faulty variant: a registration that differs is replaced without --force.
AfterGetUnforced(o, t) ==
  CASE o.kind = "uninstall" -> IF t = None THEN "idle" ELSE "remove"
    [] o.kind = "install" /\ SameRegistration(t, o) -> AfterInstall(o)
    [] OTHER -> IF t # None /\ o.force THEN "lock" ELSE "add"

\* What installUser and Uninstall do next; a conflict is an error.
AfterGet(o, t) ==
  CASE o.kind = "uninstall" /\ t # None /\ (ManagedUser(t) \/ o.force) -> "remove"
    [] o.kind = "install" /\ SameRegistration(t, o) -> AfterInstall(o)
    [] o.kind = "install" /\ t = None -> "add"
    [] o.kind = "install" /\ t # None /\ ~SameRegistration(t, o) /\ o.force -> "lock"
    [] OTHER -> "idle"

\* The CLI reads the file.
UserGet(c) ==
  /\ At(c, "get")
  /\ Valid(file)
  /\ LET t == Server(file, cmd[c].op.name)
     IN Become(c, [cmd[c] EXCEPT !.pc = AfterGet(cmd[c].op, t), !.got = t])
  /\ UNCHANGED <<file, lock, edits, raced>>

\* The CLI sets the table, where it is or at the end.
UserAdd(c) ==
  /\ At(c, "add")
  /\ Valid(file)
  /\ LET n == cmd[c].op.name
     IN WriteOutside(IF file.block[n] \in Table
                     THEN [file EXCEPT !.block[n] = cmd[c].op.want]
                     ELSE [file EXCEPT !.exists = TRUE, !.table[n] = cmd[c].op.want], {c})
  /\ Goto(c, AfterInstall(cmd[c].op))
  /\ UNCHANGED <<lock, edits>>

\* migrateLegacyUser: only a registration FocalSpan made for this root goes.
GetLegacy(c) ==
  /\ At(c, "getLegacy")
  /\ Valid(file)
  /\ Goto(c, IF Server(file, LegacyName) = Legacy THEN "removeLegacy" ELSE "idle")
  /\ UNCHANGED <<file, lock, edits, raced>>

\* The CLI removes the table; comments stay.
UserRemove(c) ==
  /\ cmd[c].pc \in {"remove", "removeLegacy"}
  /\ Valid(file)
  /\ LET n == IF At(c, "remove") THEN cmd[c].op.name ELSE LegacyName
     IN WriteOutside(IF file.block[n] \in Table
                     THEN [file EXCEPT !.block[n] = Empty]
                     ELSE [file EXCEPT !.table[n] = None], {c})
  /\ Goto(c, "idle")
  /\ UNCHANGED <<lock, edits>>

\* An error, a conflict, a cancelled or expired wait, or a death: the lock
\* is released, and nothing else undone.
Fail(c) ==
  /\ ~At(c, "idle")
  /\ lock' = IF lock = c THEN Nobody ELSE lock
  /\ raced' = raced \ {c}
  /\ Goto(c, "idle")
  /\ UNCHANGED <<file, edits>>

\* The user saves the file with another text, another entry, or removes it.
Edit ==
  /\ edits < MaxEdits
  /\ edits' = edits + 1
  /\ \/ WriteOutside([file EXCEPT !.exists = TRUE, !.rest = edits + 1], {})
     \/ \E n \in Name, t \in {None, Foreign} :
          WriteOutside([file EXCEPT !.exists = TRUE, !.table[n] = t], {})
     \/ \E n \in Name, b \in {None, Broken, Empty, Foreign} :
          Managed(file, n) /\ WriteOutside([file EXCEPT !.block[n] = b], {})
     \/ WriteOutside(NoFile, {})
  /\ UNCHANGED <<lock, cmd>>

Step(c) ==
  \/ \E o \in Commands : Begin(c, o)
  \/ AcquireConfiguration(c) \/ InspectProject(c) \/ InspectUser(c)
  \/ Compare(c) \/ Rename(c) \/ Unlock(c)
  \/ Observe(c) \/ UserGet(c) \/ UserAdd(c) \/ GetLegacy(c) \/ UserRemove(c)
  \/ Fail(c)

Next == Edit \/ \E c \in Caller : Step(c)

Spec == Init /\ [][Next]_vars

-----------------------------------------------------------------------------
(* Properties                                                              *)

TypeOK ==
  /\ file \in File
  /\ lock \in Caller \cup {Nobody}
  /\ cmd \in [Caller -> Command \cup {Idle}]
  /\ edits \in 0 .. MaxEdits
  /\ raced \subseteq Caller

(* A command that is about to replace the file has read the very file it   *)
(* replaces, unless a program that does not know the lock has written in   *)
(* between: two commands of FocalSpan never lose one another's entries.    *)
CommitsWhatItSaw ==
  \A c \in Caller : At(c, "rename") /\ c \notin raced => file = cmd[c].obs

\* The file without the entry of a name, and for project scope with its table.
Others(f, o) ==
  <<f.rest, [n \in Name \ {o.name} |-> <<f.block[n], f.table[n]>>],
    IF o.scope = "project" THEN f.table[o.name] ELSE None>>

Replaces(c) == At(c, "rename") /\ At(c, "unlock")'

(* A command that replaces the file leaves the user's text, the entries of *)
(* all other names and, in project scope, a table outside of the markers   *)
(* as they are at that moment, unless somebody else has just written.      *)
OnlyItsEntry ==
  [][\A c \in Caller :
       Replaces(c) /\ c \notin raced => Others(file', cmd[c].op) = Others(file, cmd[c].op)]_vars

(* A table that is not FocalSpan's disappears by the user's hand, with     *)
(* --force, or because it came after the command had looked.               *)
ForeignIsKept ==
  [][\A n \in Name : Server(file, n) = Foreign /\ ~Managed(file, n) /\ Server(file, n)' # Foreign =>
       \/ edits' # edits
       \/ \E c \in Caller : cmd[c] # cmd'[c] /\ (cmd[c].op.force \/ c \in raced)]_vars

=============================================================================

------------------------------ MODULE IndexLock -----------------------------
(***************************************************************************)
(* indexlock and the waits of app.Service, with time.  An update has one   *)
(* budget for its waits (WithWaitDeadline): for the gate of its service,   *)
(* for the writer lock and, when a schema upgrade is finalized, for the    *)
(* lifecycle lock of the reopened database.  A query with an update first  *)
(* updates and then waits again, to read.  A caller's own deadline is part *)
(* of every wait and of the work.                                          *)
(*                                                                         *)
(* One Tick is a second, or whatever WaitLimit is counted in.  A lock is   *)
(* polled every 25 ms: one that is free is not left alone for a whole tick *)
(* by a caller that waits for it, and no wait outlasts its timer.          *)
(***************************************************************************)
EXTENDS Integers, FiniteSetsExt

CONSTANTS
  Caller,
  Service,     \* one in a process
  Home,        \* [Caller -> Service]
  WaitLimit,   \* waitLimit: five seconds
  OwnLimits,   \* the deadlines callers bring along
  Forever,     \* no deadline
  Upgrading    \* services whose store may have an upgrade pending at first

ASSUME LimitAssumption ==
  /\ WaitLimit \in Nat \ {0}
  /\ Forever \in Nat /\ Forever > WaitLimit
  /\ OwnLimits \subseteq 1 .. Forever - 1
  /\ Home \in [Caller -> Service]
  /\ Upgrading \subseteq Service

VARIABLES
  pc,        \* the step of each caller
  call,      \* what it does: an update, a read, both; its own deadline
  own,       \* time to the caller's own deadline
  budget,    \* time to the wait deadline of the context
  left,      \* time to the deadline of the wait under way
  gate,      \* [Service -> BOOLEAN]: indexGate is full
  writer,    \* who holds the writer lock exclusively, and who shared
  store,     \* the store of each service; "absent": it is not open yet
  taken,     \* another session has the lifecycle lock exclusively
  waited,    \* time spent waiting: for the update, to read (history)
  result     \* of the last call

vars == <<pc, call, own, budget, left, gate, writer, store, taken, waited, result>>

Waiting == {"gate", "writer", "reopen", "reader"}
Steps == Waiting \cup {"idle", "work", "ungate", "read"}

Deadline == 0 .. Forever
NotWaited == [update |-> 0, read |-> 0]

Goto(c, to) == pc' = [pc EXCEPT ![c] = to]

Init ==
  /\ pc = [c \in Caller |-> "idle"]
  /\ call = [c \in Caller |-> [update |-> FALSE, read |-> FALSE, limit |-> Forever]]
  /\ own = [c \in Caller |-> Forever]
  /\ budget = [c \in Caller |-> Forever]
  /\ left = [c \in Caller |-> Forever]
  /\ gate = [s \in Service |-> FALSE]
  /\ writer = [exclusive |-> {}, shared |-> {}]
  /\ \/ store = [s \in Service |-> "open"]
     \/ \E u \in Upgrading :
          store = [s \in Service |-> IF s = u THEN "upgrading" ELSE "absent"]
  /\ taken = FALSE
  /\ waited = [c \in Caller |-> NotWaited]
  /\ result = [c \in Caller |-> "none"]

-----------------------------------------------------------------------------
(* Deadlines                                                               *)

\* WithWaitDeadline: a nested budget shortens, and never extends.
WithWaitDeadline(inherited, deadline) == IF inherited < deadline THEN inherited ELSE deadline

\* Faulty variant: every stage gets the full limit.
WaitContextFresh(inherited, caller) == Min({WaitLimit, caller})

\* WaitContext, under the caller's own context.
WaitContext(inherited, caller) == Min({WaitLimit, inherited, caller})

-----------------------------------------------------------------------------
(* Calls                                                                   *)

\* The wait that begins with the call.
Begin(c, u, r, limit) ==
  /\ pc[c] = "idle"
  /\ store[Home[c]] # "absent"
  /\ u \/ r
  /\ call' = [call EXCEPT ![c] = [update |-> u, read |-> r, limit |-> limit]]
  /\ own' = [own EXCEPT ![c] = limit]
  /\ LET b == IF u THEN WithWaitDeadline(Forever, WaitLimit) ELSE Forever
     IN /\ budget' = [budget EXCEPT ![c] = b]
        /\ left' = [left EXCEPT ![c] = WaitContext(b, limit)]
  /\ Goto(c, IF u THEN "gate" ELSE "reader")
  /\ waited' = [waited EXCEPT ![c] = NotWaited]
  /\ result' = [result EXCEPT ![c] = "none"]
  /\ UNCHANGED <<gate, writer, store, taken>>

\* What each wait is for.
Available(c) ==
  CASE pc[c] = "gate" -> ~gate[Home[c]]
    [] pc[c] = "writer" -> writer.exclusive = {} /\ writer.shared = {}
    [] pc[c] = "reader" -> writer.exclusive = {}
    [] pc[c] = "reopen" -> ~taken
    [] OTHER -> FALSE

\* acquireFile looks at its deadline first; a select on the gate does not.
MayAcquire(c) == Available(c) /\ (left[c] > 0 \/ pc[c] = "gate")

StartWait(c, to) ==
  /\ Goto(c, to)
  /\ left' = [left EXCEPT ![c] = WaitContext(budget[c], own[c])]

\* The cancelled context of a caller ends the call behind the gate.
EnterGate(c) ==
  /\ pc[c] = "gate" /\ MayAcquire(c)
  /\ gate' = [gate EXCEPT ![Home[c]] = TRUE]
  /\ StartWait(c, "writer")
  /\ UNCHANGED <<call, own, budget, writer, store, taken, waited, result>>

AcquireWriter(c) ==
  /\ pc[c] = "writer" /\ MayAcquire(c)
  /\ writer' = [writer EXCEPT !.exclusive = {c}]
  /\ Goto(c, "work")
  /\ UNCHANGED <<call, own, budget, left, gate, store, taken, waited, result>>

Failed(c) == result' = [result EXCEPT ![c] = "failed"]

\* The run of the indexer; an error, or the caller's deadline, ends it too.
EndWork(c) ==
  /\ pc[c] = "work"
  /\ writer' = [writer EXCEPT !.exclusive = {}]
  /\ \/ Goto(c, "ungate") /\ Failed(c) /\ UNCHANGED left
     \/ /\ own[c] > 0
        /\ CASE store[Home[c]] = "upgrading" -> StartWait(c, "reopen")
             [] store[Home[c]] = "open" -> Goto(c, "ungate") /\ UNCHANGED left
             [] OTHER -> FALSE
        /\ UNCHANGED result
  /\ UNCHANGED <<call, own, budget, gate, store, taken, waited>>

\* FinalizeUpgrade has released its exclusive lease and opens again, shared.
Reopen(c) ==
  /\ pc[c] = "reopen" /\ MayAcquire(c)
  /\ store' = [store EXCEPT ![Home[c]] = "open"]
  /\ Goto(c, "ungate")
  /\ UNCHANGED <<call, own, budget, left, gate, writer, taken, waited, result>>

\* Faulty variant: the read waits within the budget of the update.
ReadBudgetKept(b) == b

\* The budget is in a context of the update only.
ReadBudget(b) == Forever

\* The gate is opened in any case; a query goes on to read.
LeaveGate(c) ==
  /\ pc[c] = "ungate"
  /\ gate' = [gate EXCEPT ![Home[c]] = FALSE]
  /\ budget' = [budget EXCEPT ![c] = ReadBudget(@)]
  /\ IF call[c].read /\ result[c] = "none"
     THEN /\ left' = [left EXCEPT ![c] = WaitContext(ReadBudget(budget[c]), own[c])]
          /\ Goto(c, "reader")
          /\ UNCHANGED result
     ELSE /\ Goto(c, "idle")
          /\ result' = [result EXCEPT ![c] = IF @ = "none" THEN "ok" ELSE @]
          /\ UNCHANGED left
  /\ UNCHANGED <<call, own, writer, store, taken, waited>>

AcquireReader(c) ==
  /\ pc[c] = "reader" /\ MayAcquire(c)
  /\ writer' = [writer EXCEPT !.shared = @ \cup {c}]
  /\ Goto(c, "read")
  /\ UNCHANGED <<call, own, budget, left, gate, store, taken, waited, result>>

EndRead(c) ==
  /\ pc[c] = "read"
  /\ writer' = [writer EXCEPT !.shared = @ \ {c}]
  /\ Goto(c, "idle")
  /\ result' = [result EXCEPT ![c] =
                  IF own[c] > 0 /\ store[Home[c]] # "closed" THEN "ok" ELSE "failed"]
  /\ UNCHANGED <<call, own, budget, left, gate, store, taken, waited>>

\* BusyError, or the caller's own deadline.  An upgrade whose database cannot be
\* opened again leaves the store without one.
Expire(c) ==
  /\ pc[c] \in Waiting
  /\ left[c] = 0
  /\ result' = [result EXCEPT ![c] = IF own[c] = 0 THEN "failed" ELSE "busy"]
  /\ Goto(c, IF pc[c] \in {"writer", "reopen"} THEN "ungate" ELSE "idle")
  /\ store' = IF pc[c] = "reopen" THEN [store EXCEPT ![Home[c]] = "closed"] ELSE store
  /\ UNCHANGED <<call, own, budget, left, gate, writer, taken, waited>>

-----------------------------------------------------------------------------
(* Other sessions, and time                                                *)

\* A pending upgrade has the lifecycle lock exclusively, but for the moment
\* before its database is opened again.
LifecycleFree(s) == store[s] = "upgrading" => \E c \in Caller : Home[c] = s /\ pc[c] = "reopen"

OpenService(s) ==
  /\ store[s] = "absent"
  /\ ~taken /\ \A t \in Service : LifecycleFree(t)
  /\ store' = [store EXCEPT ![s] = "open"]
  /\ UNCHANGED <<pc, call, own, budget, left, gate, writer, taken, waited, result>>

\* Another session takes it exclusively in that moment, and gives it back.
OtherSession ==
  /\ taken \/ (\A s \in Service : LifecycleFree(s) /\ store[s] # "open")
  /\ taken' = ~taken
  /\ UNCHANGED <<pc, call, own, budget, left, gate, writer, store, waited, result>>

Sooner(d) == IF d \in {0, Forever} THEN d ELSE d - 1

Waits(c) == pc[c] \in Waiting

Tick ==
  /\ \A c \in Caller : Waits(c) => left[c] > 0 /\ ~Available(c)
  /\ own' = [c \in Caller |-> IF pc[c] = "idle" THEN own[c] ELSE Sooner(own[c])]
  /\ budget' = [c \in Caller |-> IF pc[c] = "idle" THEN budget[c] ELSE Sooner(budget[c])]
  /\ left' = [c \in Caller |-> IF Waits(c) THEN left[c] - 1 ELSE left[c]]
  /\ waited' = [c \in Caller |->
                  CASE ~Waits(c) -> waited[c]
                    [] pc[c] = "reader" -> [waited[c] EXCEPT !.read = @ + 1]
                    [] OTHER -> [waited[c] EXCEPT !.update = @ + 1]]
  /\ UNCHANGED <<pc, call, gate, writer, store, taken, result>>

Step(c) ==
  \/ \E u, r \in BOOLEAN, limit \in OwnLimits \cup {Forever} : Begin(c, u, r, limit)
  \/ EnterGate(c) \/ AcquireWriter(c) \/ EndWork(c) \/ Reopen(c) \/ LeaveGate(c)
  \/ AcquireReader(c) \/ EndRead(c) \/ Expire(c)

Next ==
  \/ \E c \in Caller : Step(c)
  \/ \E s \in Service : OpenService(s)
  \/ OtherSession
  \/ Tick

Spec == Init /\ [][Next]_vars

-----------------------------------------------------------------------------
(* Properties                                                              *)

Result == {"none", "ok", "failed", "busy"}

\* How a lock file can be held.
Exclusively == {[exclusive |-> {c}, shared |-> {}] : c \in Caller}
Shared == {[exclusive |-> {}, shared |-> cs] : cs \in SUBSET Caller}

TypeOK ==
  /\ pc \in [Caller -> Steps]
  /\ call \in [Caller -> [update: BOOLEAN, read: BOOLEAN, limit: OwnLimits \cup {Forever}]]
  /\ own \in [Caller -> Deadline]
  /\ budget \in [Caller -> Deadline]
  /\ left \in [Caller -> Deadline]
  /\ gate \in [Service -> BOOLEAN]
  /\ writer \in Exclusively \cup Shared
  /\ store \in [Service -> {"upgrading", "open", "closed", "absent"}]
  /\ taken \in BOOLEAN
  /\ waited \in [Caller -> [update: Nat, read: Nat]]
  /\ result \in [Caller -> Result]

Waited(c) == waited[c].update + waited[c].read

(* The waits of one update, for gate, writer lock and reopened database,   *)
(* take no longer than one wait may, however they follow one another.      *)
OneBudget == \A c \in Caller : waited[c].update <= WaitLimit /\ waited[c].read <= WaitLimit

(* No call waits beyond the deadline its caller gave it.                   *)
OwnDeadlineFirst ==
  \A c \in Caller : call[c].limit # Forever => Waited(c) <= call[c].limit

Busy(c) == result[c] = "busy"

(* A call that is told that the index is in use has waited for somebody,   *)
(* unless it is an upgrade that cannot open its database again: no budget  *)
(* of one call or of one stage is spent by another.                        *)
BusyMeansContended ==
  \A c \in Caller : Busy(c) /\ store[Home[c]] # "closed" => Waited(c) > 0

(* The budget "does not cancel the operation itself after the locks have   *)
(* been acquired" (indexlock/lock.go:32): an upgrade, too, is told that    *)
(* the index is in use only after it has waited.  TLC refutes it.          *)
BudgetBoundsWaits == \A c \in Caller : Busy(c) => Waited(c) > 0

=============================================================================

---------------------------- MODULE ServiceReload ---------------------------
(***************************************************************************)
(* mcpserver.Server: tool calls share one app.Service under a read lock;   *)
(* code_restart opens a replacement, waits for the calls under way, swaps  *)
(* and closes the previous one; Close ends it.  Locks are waited for       *)
(* without a limit.  Every service holds the index database open.          *)
(***************************************************************************)
EXTENDS Naturals, RWMutex

CONSTANTS
  Caller,       \* goroutines: one tool call, restart or close each at a time
  MaxServices,  \* bound: services opened
  NoService,    \* nil
  Nobody        \* restartMu is free

Service == 1 .. MaxServices

ASSUME ReloadAssumption ==
  /\ MaxServices \in Nat \ {0}
  /\ NoService \notin Service
  /\ Nobody \notin Caller

VARIABLES
  service,     \* Server.service
  open,        \* services whose database is open
  opened,      \* services opened so far
  mu,          \* Server.mu
  restartMu,   \* Server.restartMu
  pc, using,   \* the step of each caller, the service its call uses
  mine,        \* the replacement of a restart
  retired      \* the services before (history)

locks == <<mu, restartMu>>
services == <<service, open, opened, retired>>
vars == <<service, open, opened, mu, restartMu, pc, using, mine, retired>>

Ops == {"call", "restart", "close"}
Steps == {"idle", "inCall", "look", "open", "announce", "swap", "unlock", "unlockSwapped",
          "answer", "announceClose", "closeService"} \cup Ops

Goto(c, to) == pc' = [pc EXCEPT ![c] = to]

Init ==
  /\ service = 1
  /\ open = {1}
  /\ opened = 1
  /\ mu = Unlocked
  /\ restartMu = Nobody
  /\ pc = [c \in Caller |-> "idle"]
  /\ using = [c \in Caller |-> NoService]
  /\ mine = [c \in Caller |-> NoService]
  /\ retired = {}

Begin(c, op) ==
  /\ pc[c] = "idle"
  /\ Goto(c, op)
  /\ UNCHANGED <<services, locks, using, mine>>

-----------------------------------------------------------------------------
(* codeContext, codeExpand, codeImpact, codeStatus                         *)

\* A closed server answers with an error.
EnterCall(c) ==
  /\ pc[c] = "call"
  /\ MayRead(mu)
  /\ IF service = NoService
     THEN Goto(c, "idle") /\ UNCHANGED <<mu, using>>
     ELSE /\ mu' = RLocked(mu, c)
          /\ using' = [using EXCEPT ![c] = service]
          /\ Goto(c, "inCall")
  /\ UNCHANGED <<services, restartMu, mine>>

EndCall(c) ==
  /\ pc[c] = "inCall"
  /\ mu' = RUnlocked(mu, c)
  /\ using' = [using EXCEPT ![c] = NoService]
  /\ Goto(c, "idle")
  /\ UNCHANGED <<services, restartMu, mine>>

-----------------------------------------------------------------------------
(* Restart, called by codeRestart                                          *)

\* A restart that is cancelled before it begins does nothing.
EnterRestart(c) ==
  /\ pc[c] = "restart"
  /\ restartMu = Nobody
  /\ restartMu' = c
  /\ Goto(c, "look")
  /\ UNCHANGED <<services, mu, using, mine>>

\* A closed server cannot be restarted.
AfterLook == IF service = NoService THEN "unlock" ELSE "open"

\* Under a read lock that is released at once.
Look(c) ==
  /\ pc[c] = "look"
  /\ MayRead(mu)
  /\ Goto(c, AfterLook)
  /\ UNCHANGED <<services, locks, using, mine>>

\* app.New opens the index beside the service in use; a replacement that
\* cannot be opened, or whose restart was cancelled, is closed.
OpenReplacement(c) ==
  /\ pc[c] = "open"
  /\ \/ /\ opened < MaxServices
        /\ opened' = opened + 1
        /\ open' = open \cup {opened + 1}
        /\ mine' = [mine EXCEPT ![c] = opened + 1]
        /\ Goto(c, "announce")
     \/ /\ Goto(c, "unlock")
        /\ UNCHANGED <<open, opened, mine>>
  /\ UNCHANGED <<service, retired, locks, using>>

CancelRestart(c) ==
  /\ pc[c] = "announce"
  /\ open' = open \ {mine[c]}
  /\ mine' = [mine EXCEPT ![c] = NoService]
  /\ Goto(c, "unlock")
  /\ UNCHANGED <<service, opened, retired, locks, using>>

AnnounceRestart(c) ==
  /\ pc[c] = "announce"
  /\ mu' = Announced(mu)
  /\ Goto(c, "swap")
  /\ UNCHANGED <<services, restartMu, using, mine>>

\* Faulty variant: the previous service stays open.
WithoutPreviousLeaking == open

\* Faulty variant: the swap does not wait for calls under way.
SwapUnderCalls == ~mu.writer

\* Lock has been granted.
SwapMayGo == MayWrite(mu)

WithoutPrevious == open \ {service}

\* Under the lock; a previous service that does not close well is an error of
\* the restart, but it has been replaced.
Swap(c) ==
  /\ pc[c] = "swap"
  /\ SwapMayGo
  /\ service' = mine[c]
  /\ open' = WithoutPrevious
  /\ retired' = retired \cup {service}
  /\ mine' = [mine EXCEPT ![c] = NoService]
  /\ mu' = WUnlocked(Locked(mu))
  /\ Goto(c, "unlock") \/ Goto(c, "unlockSwapped")
  /\ UNCHANGED <<opened, restartMu, using>>

\* An error of the restart is the answer; otherwise codeRestart looks again.
UnlockRestart(c) ==
  /\ pc[c] \in {"unlock", "unlockSwapped"}
  /\ restartMu' = Nobody
  /\ Goto(c, IF pc[c] = "unlock" THEN "idle" ELSE "answer")
  /\ UNCHANGED <<services, mu, using, mine>>

\* The root of the service that is there now, or an error when it is closed.
AnswerRestart(c) ==
  /\ pc[c] = "answer"
  /\ MayRead(mu)
  /\ Goto(c, "idle")
  /\ UNCHANGED <<services, locks, using, mine>>

-----------------------------------------------------------------------------
(* Close                                                                   *)

EnterClose(c) ==
  /\ pc[c] = "close"
  /\ restartMu = Nobody
  /\ restartMu' = c
  /\ Goto(c, "announceClose")
  /\ UNCHANGED <<services, mu, using, mine>>

\* Faulty variant: Close waits for a quiet moment without keeping calls out.
AnnounceCloseSilently(c) ==
  /\ pc[c] = "announceClose"
  /\ Goto(c, "closeService")
  /\ UNCHANGED <<services, locks, using, mine>>

AnnounceClose(c) ==
  /\ pc[c] = "announceClose"
  /\ mu' = Announced(mu)
  /\ Goto(c, "closeService")
  /\ UNCHANGED <<services, restartMu, using, mine>>

CloseService(c) ==
  /\ pc[c] = "closeService"
  /\ MayWrite(mu)
  /\ service' = NoService
  /\ open' = WithoutPrevious
  /\ retired' = IF service = NoService THEN retired ELSE retired \cup {service}
  /\ mu' = WUnlocked(Locked(mu))
  /\ restartMu' = Nobody
  /\ Goto(c, "idle")
  /\ UNCHANGED <<opened, using, mine>>

-----------------------------------------------------------------------------
Proceed(c) ==
  \/ EnterCall(c) \/ EndCall(c)
  \/ EnterRestart(c) \/ Look(c) \/ OpenReplacement(c) \/ CancelRestart(c)
  \/ AnnounceRestart(c) \/ Swap(c) \/ UnlockRestart(c) \/ AnswerRestart(c)
  \/ EnterClose(c) \/ AnnounceClose(c) \/ CloseService(c)

Next == \E c \in Caller : Proceed(c) \/ \E op \in Ops : Begin(c, op)

Spec == Init /\ [][Next]_vars

\* The locks, of which a caller waits for one at a time.
EnterLock(c) == EnterCall(c) \/ AnswerRestart(c) \/ EnterRestart(c) \/ EnterClose(c)

\* Goroutines are scheduled and calls come to an end.  Unlock lets in the
\* readers that have waited before the next writer, and sync.Mutex hands itself
\* to a waiter that has waited for a millisecond.
FairSpec == Spec /\ \A c \in Caller : WF_vars(Proceed(c)) /\ SF_vars(EnterLock(c))

-----------------------------------------------------------------------------
(* Properties                                                              *)

TypeOK ==
  /\ service \in Service \cup {NoService}
  /\ open \subseteq Service
  /\ opened \in Service
  /\ mu \in Mutex(Caller)
  /\ restartMu \in Caller \cup {Nobody}
  /\ pc \in [Caller -> Steps]
  /\ using \in [Caller -> Service \cup {NoService}]
  /\ mine \in [Caller -> Service \cup {NoService}]
  /\ retired \subseteq Service

(* The service that calls find, and every service a call still uses, has   *)
(* its database open; any other open one is the replacement of the one     *)
(* restart under way.  A lease that a restart forgot would keep every      *)
(* later upgrade of the index out.                                         *)
OpenServices ==
  /\ service # NoService => service \in open
  /\ \A c \in Caller : using[c] # NoService => using[c] \in open
  /\ \A s \in open : s = service \/ (restartMu # Nobody /\ mine[restartMu] = s)

(* Calls under way keep their service; it is replaced between calls.       *)
Active == INSTANCE ActiveGeneration WITH
            Generation <- Service, Nothing <- NoService, active <- service

ImplementsActive == Active!Spec

(* Every request comes to an end, although no wait has a limit and calls   *)
(* never stop coming: restarts and Close keep new calls out for the time   *)
(* they wait, and nobody waits for a lock it holds.                        *)
EveryRequestReturns == \A c \in Caller : pc[c] # "idle" ~> pc[c] = "idle"

=============================================================================

-------------------------- MODULE WorkerSupervisor --------------------------
(***************************************************************************)
(* mcpserver.Supervisor: it keeps the host's MCP session and forwards tool *)
(* calls to a worker process.  A restart starts a candidate, checks it,    *)
(* waits until no call is under way, and puts it in the worker's place.    *)
(* Close ends the worker.  Calls, restarts and Close run concurrently;     *)
(* each wait for a lock in a call or a restart is a poll with a time limit *)
(* (waitSupervisorGate), Close waits without one.                          *)
(*                                                                         *)
(* Worker processes are numbered in the order they are started.  A worker  *)
(* may die at any time; its process is there until the supervisor closes   *)
(* the session to it, which waits for the process.                         *)
(***************************************************************************)
EXTENDS Naturals, RWMutex

CONSTANTS
  Caller,      \* goroutines: one tool call, restart or close each at a time
  MaxStarts,   \* bound: worker processes
  Contract,    \* tools, capabilities, instructions and root of an executable
  NoWorker,    \* nil
  Nobody       \* restartMu is free

Process == 1 .. MaxStarts

ASSUME SupervisorAssumption ==
  /\ MaxStarts \in Nat \ {0}
  /\ NoWorker \notin Process
  /\ Nobody \notin Caller

VARIABLES
  worker,      \* Supervisor.worker
  contract,    \* [Process -> Contract]: supervisedWorker.contract
  process,     \* [Process -> {"none", "running", "dead", "reaped"}]
  starts,      \* processes started so far
  mu,          \* Supervisor.mu
  restartMu,   \* Supervisor.restartMu
  pc, target,  \* the step of each caller, the worker a call was sent to
  mine,        \* the candidate, and after the swap the previous worker
  retired      \* the workers before (history)

locks == <<mu, restartMu>>
workers == <<worker, contract, process, starts, retired>>
vars == <<worker, contract, process, starts, mu, restartMu, pc, target, mine, retired>>

RestartSteps == {"look", "start", "check", "swapGate", "swap", "discard", "unlockDiscard",
                 "closePrevious"}
CloseSteps == {"announce", "lock", "close"}
Steps == {"idle", "callGate", "call", "forwarded", "restartGate", "unlock", "closing"}
         \cup RestartSteps \cup CloseSteps

Goto(c, to) == pc' = [pc EXCEPT ![c] = to]

\* NewSupervisor has started and checked the first worker.
Init ==
  /\ worker = 1
  /\ contract \in [Process -> Contract]
  /\ process = [w \in Process |-> IF w = 1 THEN "running" ELSE "none"]
  /\ starts = 1
  /\ mu = Unlocked
  /\ restartMu = Nobody
  /\ pc = [c \in Caller |-> "idle"]
  /\ target = [c \in Caller |-> NoWorker]
  /\ mine = [c \in Caller |-> NoWorker]
  /\ retired = {}

\* Session.Close: stdin is closed, and the process waited for or killed.
Reaped(w) == IF w = NoWorker THEN process ELSE [process EXCEPT ![w] = "reaped"]

Begin(c, op) ==
  /\ pc[c] = "idle"
  /\ Goto(c, op)
  /\ UNCHANGED <<workers, locks, target, mine>>

-----------------------------------------------------------------------------
(* forward                                                                 *)

EnterCall(c) ==
  /\ pc[c] = "callGate"
  /\ MayRead(mu)
  /\ mu' = RLocked(mu, c)
  /\ Goto(c, "call")
  /\ UNCHANGED <<workers, restartMu, target, mine>>

\* A closed supervisor answers with an error.
Forward(c) ==
  /\ pc[c] = "call"
  /\ target' = [target EXCEPT ![c] = worker]
  /\ Goto(c, "forwarded")
  /\ UNCHANGED <<workers, locks, mine>>

\* The worker's answer, or the error of a worker that died, of a cancelled
\* call or of a closed supervisor.  Nothing is sent twice.
Answer(c) ==
  /\ pc[c] = "forwarded"
  /\ target' = [target EXCEPT ![c] = NoWorker]
  /\ mu' = RUnlocked(mu, c)
  /\ Goto(c, "idle")
  /\ UNCHANGED <<workers, restartMu, mine>>

-----------------------------------------------------------------------------
(* Restart                                                                 *)

EnterRestart(c) ==
  /\ pc[c] = "restartGate"
  /\ restartMu = Nobody
  /\ restartMu' = c
  /\ Goto(c, "look")
  /\ UNCHANGED <<workers, mu, target, mine>>

\* Under a read lock that is released at once.
Look(c) ==
  /\ pc[c] = "look"
  /\ MayRead(mu)
  /\ Goto(c, IF worker = NoWorker THEN "unlock" ELSE "start")
  /\ UNCHANGED <<workers, locks, target, mine>>

\* The command is started; a command that cannot be is an error.
StartCandidate(c) ==
  /\ pc[c] = "start"
  /\ \/ /\ starts < MaxStarts
        /\ starts' = starts + 1
        /\ process' = [process EXCEPT ![starts + 1] = "running"]
        /\ mine' = [mine EXCEPT ![c] = starts + 1]
        /\ Goto(c, "check")
     \/ /\ Goto(c, "unlock")
        /\ UNCHANGED <<starts, process, mine>>
  /\ UNCHANGED <<worker, contract, retired, locks, target>>

\* Faulty variant: the contract of the candidate is not compared.
CompatibleAny(w) == TRUE

\* Catalog, capabilities, instructions and root are those the host has seen.
Compatible(w) == contract[w] = contract[1]

\* Tools, ping and health; a dead candidate, the startup limit or a cancelled
\* restart are errors.
CheckCandidate(c) ==
  /\ pc[c] = "check"
  /\ Goto(c, "discard") \/ (process[mine[c]] = "running" /\ Compatible(mine[c]) /\ Goto(c, "swapGate"))
  /\ UNCHANGED <<workers, locks, target, mine>>

\* Faulty variant: calls under way do not keep the restart out.
QuietIgnoringCalls(m) == ~m.writer /\ ~m.announced

\* No call is under way.
QuietForSwap(m) == MayTryWrite(m)

EnterSwap(c) ==
  /\ pc[c] = "swapGate"
  /\ QuietForSwap(mu)
  /\ mu' = Locked(mu)
  /\ Goto(c, "swap")
  /\ UNCHANGED <<workers, restartMu, target, mine>>

\* Cancelled at the last moment, or the candidate takes the worker's place.
Swap(c) ==
  /\ pc[c] = "swap"
  /\ \/ /\ Goto(c, "unlockDiscard")
        /\ UNCHANGED <<worker, mine, retired>>
     \/ /\ worker' = mine[c]
        /\ mine' = [mine EXCEPT ![c] = worker]
        /\ retired' = retired \cup {worker}
        /\ Goto(c, "closePrevious")
  /\ UNCHANGED <<contract, process, starts, locks, target>>

ClosePrevious(c) ==
  /\ pc[c] = "closePrevious"
  /\ process' = Reaped(mine[c])
  /\ mine' = [mine EXCEPT ![c] = NoWorker]
  /\ mu' = WUnlocked(mu)
  /\ Goto(c, "unlock")
  /\ UNCHANGED <<worker, contract, starts, retired, restartMu, target>>

\* A restart that fails closes its candidate before it gives up its locks.
Discard(c) ==
  /\ pc[c] \in {"discard", "unlockDiscard"}
  /\ process' = Reaped(mine[c])
  /\ mine' = [mine EXCEPT ![c] = NoWorker]
  /\ mu' = IF pc[c] = "unlockDiscard" THEN WUnlocked(mu) ELSE mu
  /\ Goto(c, "unlock")
  /\ UNCHANGED <<worker, contract, starts, retired, restartMu, target>>

UnlockRestart(c) ==
  /\ pc[c] = "unlock"
  /\ restartMu' = Nobody
  /\ Goto(c, "idle")
  /\ UNCHANGED <<workers, mu, target, mine>>

\* Faulty variant: a restart that gives up its wait leaves its candidate behind.
AfterWaitLeaving(step) == IF step \in {"swapGate", "look"} THEN "unlock" ELSE "idle"

\* Where waitSupervisorGate returns its error to.
AfterWait(step) ==
  CASE step = "swapGate" -> "discard" [] step = "look" -> "unlock" [] OTHER -> "idle"

\* Five seconds have passed, or the host has cancelled the request.
WaitExpires(c) ==
  /\ pc[c] \in {"callGate", "restartGate", "look", "swapGate"}
  /\ Goto(c, AfterWait(pc[c]))
  /\ UNCHANGED <<workers, locks, target, mine>>

-----------------------------------------------------------------------------
(* Close                                                                   *)

EnterClose(c) ==
  /\ pc[c] = "closing"
  /\ restartMu = Nobody
  /\ restartMu' = c
  /\ Goto(c, "announce")
  /\ UNCHANGED <<workers, mu, target, mine>>

\* Faulty variant: Close waits for a quiet moment without keeping calls out.
AnnounceCloseSilently(c) ==
  /\ pc[c] = "announce"
  /\ Goto(c, "lock")
  /\ UNCHANGED <<workers, locks, target, mine>>

\* The first half of Lock.
AnnounceClose(c) ==
  /\ pc[c] = "announce"
  /\ mu' = Announced(mu)
  /\ Goto(c, "lock")
  /\ UNCHANGED <<workers, restartMu, target, mine>>

LockForClose(c) ==
  /\ pc[c] = "lock"
  /\ MayWrite(mu)
  /\ mu' = Locked(mu)
  /\ mine' = [mine EXCEPT ![c] = worker]
  /\ worker' = NoWorker
  /\ retired' = IF worker = NoWorker THEN retired ELSE retired \cup {worker}
  /\ Goto(c, "close")
  /\ UNCHANGED <<contract, process, starts, restartMu, target>>

CloseWorker(c) ==
  /\ pc[c] = "close"
  /\ process' = Reaped(mine[c])
  /\ mine' = [mine EXCEPT ![c] = NoWorker]
  /\ mu' = WUnlocked(mu)
  /\ Goto(c, "unlock")
  /\ UNCHANGED <<worker, contract, starts, retired, restartMu, target>>

-----------------------------------------------------------------------------
WorkerDies(w) ==
  /\ process[w] = "running"
  /\ process' = [process EXCEPT ![w] = "dead"]
  /\ UNCHANGED <<worker, contract, starts, retired, locks, pc, target, mine>>

\* A step of a caller that is not idle.
Proceed(c) ==
  \/ EnterCall(c) \/ Forward(c) \/ Answer(c)
  \/ EnterRestart(c) \/ Look(c) \/ StartCandidate(c) \/ CheckCandidate(c)
  \/ EnterSwap(c) \/ Swap(c) \/ ClosePrevious(c) \/ Discard(c) \/ UnlockRestart(c)
  \/ WaitExpires(c)
  \/ EnterClose(c) \/ AnnounceClose(c) \/ LockForClose(c) \/ CloseWorker(c)

Next ==
  \/ \E c \in Caller : Proceed(c) \/ \E op \in {"callGate", "restartGate", "closing"} : Begin(c, op)
  \/ \E w \in Process : WorkerDies(w)

Spec == Init /\ [][Next]_vars

\* Goroutines are scheduled, sessions answer or fail, processes end when they
\* are closed, and poll timers fire.  sync.Mutex hands itself to a waiter of
\* Lock that has waited for a millisecond, so that TryLock cannot starve Close.
FairSpec ==
  Spec /\ \A c \in Caller : WF_vars(Proceed(c)) /\ SF_vars(EnterClose(c))

-----------------------------------------------------------------------------
(* Properties                                                              *)

TypeOK ==
  /\ worker \in Process \cup {NoWorker}
  /\ contract \in [Process -> Contract]
  /\ process \in [Process -> {"none", "running", "dead", "reaped"}]
  /\ starts \in Process
  /\ mu \in Mutex(Caller)
  /\ restartMu \in Caller \cup {Nobody}
  /\ pc \in [Caller -> Steps]
  /\ target \in [Caller -> Process \cup {NoWorker}]
  /\ mine \in [Caller -> Process \cup {NoWorker}]
  /\ retired \subseteq Process

(* Every worker process that has not been waited for is the worker or is   *)
(* in the hands of the one restart or close that will wait for it: no      *)
(* failed, cancelled or superseded restart leaves a process behind.        *)
NoOrphans ==
  \A w \in Process :
    process[w] \in {"running", "dead"} =>
      \/ w = worker
      \/ restartMu # Nobody /\ mine[restartMu] = w

(* The worker is never one the supervisor has closed, and keeps the        *)
(* contract the host was told at the beginning.                            *)
WorkerIsUsable ==
  worker # NoWorker => process[worker] \in {"running", "dead"} /\ contract[worker] = contract[1]

(* Calls under way keep their worker; workers are replaced between calls.  *)
Active == INSTANCE ActiveGeneration WITH
            Generation <- Process, Nothing <- NoWorker,
            active <- worker, using <- target

ImplementsActive == Active!Spec

(* Every request comes to an end, Close as well although its wait has no   *)
(* limit and calls never stop coming: it keeps new calls out.              *)
EveryRequestReturns == \A c \in Caller : pc[c] # "idle" ~> pc[c] = "idle"

=============================================================================

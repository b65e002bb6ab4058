----------------------- MODULE WorkerSupervisorProofs -----------------------
(***************************************************************************)
(* Proofs about WorkerSupervisor, for any number of callers, worker        *)
(* processes and contracts: no process is left behind, the worker is       *)
(* usable, and a call keeps its worker.                                    *)
(***************************************************************************)
EXTENDS WorkerSupervisor, TLAPS

-----------------------------------------------------------------------------
(* The inductive invariant                                                 *)

\* Steps at which a caller has restartMu, and those at which it has mu as a
\* writer.
Excluding == RestartSteps \cup CloseSteps \cup {"unlock"}
Writing == {"swap", "closePrevious", "unlockDiscard", "close"}

\* Who has which lock.  A caller that has restartMu knows that no other restart
\* or close is under way.
LockInv ==
  /\ \A c \in Caller : restartMu = c <=> pc[c] \in Excluding
  /\ \A c \in Caller : c \in mu.readers <=> pc[c] \in {"call", "forwarded"}
  /\ mu.writer <=> restartMu \in Caller /\ pc[restartMu] \in Writing
  /\ mu.announced <=> restartMu \in Caller /\ pc[restartMu] = "lock"
  /\ mu.writer => mu.readers = {}

\* A call that has been forwarded was sent to the worker that is there.
TargetInv ==
  \A c \in Caller : target[c] # NoWorker => pc[c] = "forwarded" /\ target[c] = worker

\* A process that has not been waited for.
There(w) == process[w] \in {"running", "dead"}

\* Steps at which a restart has a candidate.
Candidate == {"check", "swapGate", "swap", "discard", "unlockDiscard"}

\* What a restart or a close has in its hands at each step.
MineInv ==
  \A c \in Caller :
    /\ mine[c] # NoWorker => pc[c] \in Candidate \cup {"closePrevious", "close"}
    /\ pc[c] \in Candidate =>
         /\ mine[c] \in Process /\ There(mine[c])
         /\ mine[c] # worker /\ mine[c] \notin retired
    /\ pc[c] \in {"swapGate", "swap"} => Compatible(mine[c])
    /\ pc[c] \in Candidate \cup {"start", "closePrevious"} => worker # NoWorker
    /\ pc[c] \in {"closePrevious", "close"} /\ mine[c] # NoWorker =>
         There(mine[c]) /\ mine[c] # worker

\* Processes are numbered as they are started.
ProcessInv ==
  /\ \A w \in Process : w > starts <=> process[w] = "none"
  /\ \A w \in retired : w <= starts
  /\ worker \notin retired

IInv == TypeOK /\ LockInv /\ TargetInv /\ MineInv /\ ProcessInv /\ NoOrphans /\ WorkerIsUsable

-----------------------------------------------------------------------------
(* Its proof                                                               *)

\* Only one caller at a time restarts or closes; the others have no worker in
\* their hands.
LEMMA OthersKeepOut ==
  ASSUME TypeOK, LockInv, MineInv, NEW c \in Caller, pc[c] \in Excluding
  PROVE  /\ restartMu = c
         /\ \A d \in Caller \ {c} : pc[d] \notin Excluding /\ mine[d] = NoWorker
  <1>1. restartMu = c /\ \A d \in Caller \ {c} : pc[d] \notin Excluding
    BY DEF LockInv
  <1>2. Candidate \cup {"closePrevious", "close"} \subseteq Excluding
    BY DEF Candidate, Excluding, RestartSteps, CloseSteps
  <1> QED BY <1>1, <1>2 DEF MineInv

\* What holds of the hands of all callers follows from what holds of the one
\* that restarts or closes.
LEMMA OneRestart ==
  ASSUME NEW c \in Caller,
         \A d \in Caller \ {c} : pc'[d] \notin Excluding /\ mine'[d] = NoWorker,
         mine'[c] = NoWorker,
         pc'[c] \notin Candidate \cup {"start", "closePrevious"}
  PROVE  MineInv'
  <1>1. Candidate \cup {"start", "closePrevious", "close"} \subseteq Excluding
    BY DEF Candidate, Excluding, RestartSteps, CloseSteps
  <1>2. {"swapGate", "swap"} \subseteq Candidate
    BY DEF Candidate
  <1> SUFFICES ASSUME NEW d \in Caller
               PROVE  /\ mine'[d] = NoWorker
                      /\ pc'[d] \notin Candidate \cup {"start", "closePrevious"}
    BY <1>2 DEF MineInv
  <1> QED BY <1>1

\* The end of a restart or a close: the process in its hands has been waited for.
Closed(c) ==
  /\ pc[c] \in Excluding
  /\ mine[c] \in Process => mine[c] # worker /\ process[mine[c]] # "none"
  /\ process' = Reaped(mine[c])
  /\ mine' = [mine EXCEPT ![c] = NoWorker]
  /\ pc' = [pc EXCEPT ![c] = "unlock"]
  /\ UNCHANGED <<worker, contract, starts, retired, restartMu, target>>

LEMMA ClosedKeeps ==
  ASSUME IInv, NEW c \in Caller, Closed(c)
  PROVE  MineInv' /\ ProcessInv' /\ NoOrphans' /\ WorkerIsUsable'
  <1> USE SupervisorAssumption
  <1>1. TypeOK /\ LockInv /\ MineInv /\ ProcessInv /\ NoOrphans /\ WorkerIsUsable
    BY DEF IInv
  <1>2. restartMu = c /\ \A d \in Caller \ {c} : pc[d] \notin Excluding /\ mine[d] = NoWorker
    BY <1>1, OthersKeepOut DEF Closed
  <1>3. /\ mine'[c] = NoWorker /\ pc'[c] = "unlock"
        /\ \A d \in Caller \ {c} : mine'[d] = mine[d] /\ pc'[d] = pc[d]
    BY <1>1 DEF Closed, TypeOK
  <1>4. /\ \A w \in Process \ {mine[c]} : process'[w] = process[w]
        /\ mine[c] \in Process => process'[mine[c]] = "reaped" /\ process[mine[c]] # "none"
                                  /\ mine[c] # worker
    BY <1>1 DEF Closed, TypeOK, Reaped
  <1>5. MineInv'
    BY <1>2, <1>3, OneRestart DEF Candidate
  <1>6. ProcessInv'
    BY <1>1, <1>4 DEF Closed, ProcessInv
  <1>7. NoOrphans'
    BY <1>1, <1>2, <1>4 DEF Closed, NoOrphans, TypeOK
  <1>8. WorkerIsUsable'
    BY <1>1, <1>4 DEF Closed, WorkerIsUsable, TypeOK, Compatible
  <1> QED BY <1>5, <1>6, <1>7, <1>8

LEMMA SwapKeeps ==
  ASSUME IInv, NEW c \in Caller, Swap(c)
  PROVE  IInv'
  <1> USE SupervisorAssumption
  <1>1. TypeOK /\ LockInv /\ TargetInv /\ MineInv /\ ProcessInv /\ NoOrphans /\ WorkerIsUsable
    BY DEF IInv
  <1>2. restartMu = c /\ \A d \in Caller \ {c} : pc[d] \notin Excluding /\ mine[d] = NoWorker
    BY <1>1, OthersKeepOut DEF Swap, Excluding, RestartSteps
  <1>3. pc[c] = "swap" /\ mine[c] \in Process /\ There(mine[c]) /\ Compatible(mine[c])
        /\ mine[c] # worker /\ mine[c] \notin retired /\ worker \in Process /\ mine[c] # NoWorker
    BY <1>1 DEF Swap, MineInv, Candidate, TypeOK
  <1>4. mu.writer /\ mu.readers = {} /\ \A d \in Caller : target[d] = NoWorker
    BY <1>1, <1>2, <1>3 DEF LockInv, TargetInv, Writing
  <1>5. CASE Goto(c, "unlockDiscard") /\ UNCHANGED <<worker, mine, retired>>
    <2>1. pc'[c] = "unlockDiscard" /\ \A d \in Caller \ {c} : pc'[d] = pc[d]
      BY <1>1, <1>5 DEF Goto, TypeOK
    <2>2. UNCHANGED <<worker, contract, process, starts, mu, restartMu, target, mine, retired>>
      BY <1>5 DEF Swap, locks
    <2>3. TypeOK'
      BY <1>1, <1>5, <2>2 DEF Goto, TypeOK, Steps, RestartSteps
    <2>4. LockInv'
      BY <1>1, <1>2, <1>3, <1>4, <2>1, <2>2 DEF LockInv, Excluding, RestartSteps, Writing
    <2>5. TargetInv'
      BY <1>4, <2>2 DEF TargetInv
    <2>6. MineInv'
      BY <1>1, <1>3, <2>1, <2>2 DEF MineInv, Candidate, There, Compatible
    <2>7. ProcessInv' /\ NoOrphans' /\ WorkerIsUsable'
      BY <1>1, <2>2 DEF ProcessInv, NoOrphans, WorkerIsUsable
    <2> QED BY <2>3, <2>4, <2>5, <2>6, <2>7 DEF IInv
  <1>6. CASE /\ worker' = mine[c]
             /\ mine' = [mine EXCEPT ![c] = worker]
             /\ retired' = retired \cup {worker}
             /\ Goto(c, "closePrevious")
    <2>1. /\ pc'[c] = "closePrevious" /\ mine'[c] = worker
          /\ \A d \in Caller \ {c} : pc'[d] = pc[d] /\ mine'[d] = mine[d]
      BY <1>1, <1>6 DEF Goto, TypeOK
    <2>2. UNCHANGED <<contract, process, starts, mu, restartMu, target>>
      BY DEF Swap, locks
    <2>3. TypeOK'
      BY <1>1, <1>3, <1>6, <2>2 DEF Goto, TypeOK, Steps, RestartSteps
    <2>4. LockInv'
      BY <1>1, <1>2, <1>3, <1>4, <2>1, <2>2 DEF LockInv, Excluding, RestartSteps, Writing
    <2>5. TargetInv'
      BY <1>4, <2>2 DEF TargetInv
    <2>6. MineInv'
      <3>1. ASSUME NEW d \in Caller \ {c}
            PROVE  mine'[d] = NoWorker /\ pc'[d] \notin Excluding
        BY <1>2, <2>1
      <3>2. There(worker) /\ There(mine[c])'
        BY <1>1, <1>3, <2>1, <2>2 DEF WorkerIsUsable, There
      <3> QED
        BY <1>3, <1>6, <2>1, <3>1, <3>2
           DEF MineInv, Candidate, Excluding, RestartSteps, CloseSteps
    <2>7. ProcessInv'
      <3>1. mine[c] <= starts /\ worker <= starts /\ \A w \in Process : w <= starts <=> process[w] # "none"
        BY <1>1, <1>3 DEF ProcessInv, There, WorkerIsUsable, TypeOK, Process
      <3> QED BY <1>1, <1>3, <1>6, <2>2, <3>1 DEF ProcessInv
    <2>8. NoOrphans'
      BY <1>1, <1>2, <1>6, <2>1, <2>2 DEF NoOrphans
    <2>9. WorkerIsUsable'
      BY <1>3, <1>6, <2>2 DEF WorkerIsUsable, There, Compatible
    <2> QED BY <2>3, <2>4, <2>5, <2>6, <2>7, <2>8, <2>9 DEF IInv
  <1> QED BY <1>5, <1>6 DEF Swap

LEMMA StartKeeps ==
  ASSUME IInv, NEW c \in Caller, StartCandidate(c)
  PROVE  IInv'
  <1> USE SupervisorAssumption DEF Process
  <1>1. TypeOK /\ LockInv /\ TargetInv /\ MineInv /\ ProcessInv /\ NoOrphans /\ WorkerIsUsable
    BY DEF IInv
  <1>2. restartMu = c /\ \A d \in Caller \ {c} : pc[d] \notin Excluding /\ mine[d] = NoWorker
    BY <1>1, OthersKeepOut DEF StartCandidate, Excluding, RestartSteps
  <1>3. pc[c] = "start" /\ mine[c] = NoWorker /\ worker \in Process
    BY <1>1 DEF StartCandidate, MineInv, Candidate, TypeOK
  <1>4. UNCHANGED <<worker, contract, retired, mu, restartMu, target>>
    BY DEF StartCandidate, locks
  <1>5. CASE Goto(c, "unlock") /\ UNCHANGED <<starts, process, mine>>
    <2>1. pc'[c] = "unlock" /\ \A d \in Caller \ {c} : pc'[d] = pc[d]
      BY <1>1, <1>5 DEF Goto, TypeOK
    <2>2. TypeOK'
      BY <1>1, <1>4, <1>5 DEF Goto, TypeOK, Steps
    <2>3. LockInv'
      BY <1>1, <1>2, <1>3, <1>4, <2>1 DEF LockInv, Excluding, RestartSteps, Writing
    <2>4. TargetInv'
      BY <1>1, <1>3, <1>4, <2>1 DEF TargetInv
    <2>5. MineInv'
      BY <1>2, <1>3, <1>5, <2>1, OneRestart DEF Candidate
    <2>6. ProcessInv' /\ NoOrphans' /\ WorkerIsUsable'
      BY <1>1, <1>4, <1>5 DEF ProcessInv, NoOrphans, WorkerIsUsable, Compatible
    <2> QED BY <2>2, <2>3, <2>4, <2>5, <2>6 DEF IInv
  <1>6. CASE /\ starts < MaxStarts
             /\ starts' = starts + 1
             /\ process' = [process EXCEPT ![starts + 1] = "running"]
             /\ mine' = [mine EXCEPT ![c] = starts + 1]
             /\ Goto(c, "check")
    <2>1. /\ pc'[c] = "check" /\ mine'[c] = starts + 1 /\ starts + 1 \in Process
          /\ \A d \in Caller \ {c} : pc'[d] = pc[d] /\ mine'[d] = mine[d]
      BY <1>1, <1>6 DEF Goto, TypeOK
    <2>2. /\ process'[starts + 1] = "running" /\ process[starts + 1] = "none"
          /\ \A w \in Process \ {starts + 1} : process'[w] = process[w]
      BY <1>1, <1>6, <2>1 DEF TypeOK, ProcessInv
    <2>3. starts + 1 # worker /\ starts + 1 \notin retired
      BY <1>1, <1>3, <2>2 DEF ProcessInv, WorkerIsUsable, TypeOK
    <2>4. TypeOK'
      BY <1>1, <1>4, <1>6, <2>1 DEF Goto, TypeOK, Steps, RestartSteps
    <2>5. LockInv'
      BY <1>1, <1>2, <1>3, <1>4, <2>1 DEF LockInv, Excluding, RestartSteps, Writing
    <2>6. TargetInv'
      BY <1>1, <1>3, <1>4, <2>1 DEF TargetInv
    <2>7. MineInv'
      <3>1. ASSUME NEW d \in Caller \ {c}
            PROVE  mine'[d] = NoWorker /\ pc'[d] \notin Excluding
        BY <1>2, <2>1
      <3>2. There(mine[c])' /\ worker' # NoWorker
        BY <1>3, <1>4, <2>1, <2>2 DEF There
      <3> QED
        BY <1>4, <2>1, <2>3, <3>1, <3>2
           DEF MineInv, Candidate, Excluding, RestartSteps, CloseSteps
    <2>8. ProcessInv'
      BY <1>1, <1>4, <1>6, <2>2 DEF ProcessInv, TypeOK
    <2>9. NoOrphans'
      BY <1>1, <1>2, <1>3, <1>4, <2>1, <2>2 DEF NoOrphans
    <2>10. WorkerIsUsable'
      BY <1>1, <1>3, <1>4, <2>2, <2>3 DEF WorkerIsUsable
    <2> QED BY <2>4, <2>5, <2>6, <2>7, <2>8, <2>9, <2>10 DEF IInv
  <1> QED BY <1>5, <1>6 DEF StartCandidate

LEMMA LockForCloseKeeps ==
  ASSUME IInv, NEW c \in Caller, LockForClose(c)
  PROVE  IInv'
  <1> USE SupervisorAssumption
  <1>1. TypeOK /\ LockInv /\ TargetInv /\ MineInv /\ ProcessInv /\ NoOrphans /\ WorkerIsUsable
    BY DEF IInv
  <1>2. restartMu = c /\ \A d \in Caller \ {c} : pc[d] \notin Excluding /\ mine[d] = NoWorker
    BY <1>1, OthersKeepOut DEF LockForClose, Excluding, CloseSteps
  <1>3. pc[c] = "lock" /\ mine[c] = NoWorker
    BY <1>1 DEF LockForClose, MineInv, Candidate
  <1>4. mu.readers = {} /\ \A d \in Caller : target[d] = NoWorker
    BY <1>1 DEF LockForClose, MayWrite, LockInv, TargetInv
  <1>5. /\ pc'[c] = "close" /\ mine'[c] = worker
        /\ \A d \in Caller \ {c} : pc'[d] = pc[d] /\ mine'[d] = mine[d]
    BY <1>1 DEF LockForClose, Goto, TypeOK
  <1>6. /\ mu'.readers = {} /\ mu'.writer = TRUE /\ mu'.announced = FALSE
        /\ mu' \in Mutex(Caller)
    BY <1>1, <1>4 DEF LockForClose, Locked, TypeOK, Mutex
  <1>7. /\ worker' = NoWorker /\ UNCHANGED <<contract, process, starts, restartMu, target>>
        /\ retired' = IF worker = NoWorker THEN retired ELSE retired \cup {worker}
    BY DEF LockForClose
  <1>8. TypeOK'
    BY <1>1, <1>6, <1>7 DEF LockForClose, Goto, TypeOK, Steps, CloseSteps
  <1>9. LockInv'
    BY <1>1, <1>2, <1>3, <1>4, <1>5, <1>6, <1>7 DEF LockInv, Excluding, CloseSteps, RestartSteps, Writing
  <1>10. TargetInv'
    BY <1>4, <1>7 DEF TargetInv
  <1>11. MineInv'
    <2>1. ASSUME NEW d \in Caller \ {c}
          PROVE  mine'[d] = NoWorker /\ pc'[d] \notin Excluding
      BY <1>2, <1>5
    <2>2. mine'[c] # NoWorker => There(mine[c])' /\ mine'[c] # worker'
      BY <1>1, <1>5, <1>7 DEF There, WorkerIsUsable
    <2> QED
      BY <1>5, <2>1, <2>2 DEF MineInv, Candidate, Excluding, RestartSteps, CloseSteps
  <1>12. ProcessInv'
    <2>1. worker # NoWorker => worker <= starts
      BY <1>1 DEF ProcessInv, WorkerIsUsable, TypeOK, Process
    <2>2. NoWorker \notin retired
      BY <1>1 DEF TypeOK
    <2> QED BY <1>1, <1>7, <2>1, <2>2 DEF ProcessInv
  <1>13. NoOrphans'
    BY <1>1, <1>2, <1>3, <1>5, <1>7 DEF NoOrphans
  <1>14. WorkerIsUsable'
    BY <1>7 DEF WorkerIsUsable
  <1> QED BY <1>8, <1>9, <1>10, <1>11, <1>12, <1>13, <1>14 DEF IInv

LEMMA CloseKeeps ==
  ASSUME IInv, NEW c \in Caller, ClosePrevious(c) \/ Discard(c) \/ CloseWorker(c)
  PROVE  IInv'
  <1> USE SupervisorAssumption
  <1>1. TypeOK /\ LockInv /\ TargetInv /\ MineInv /\ ProcessInv /\ NoOrphans /\ WorkerIsUsable
    BY DEF IInv
  <1>2. pc[c] \in {"closePrevious", "discard", "unlockDiscard", "close"}
    BY DEF ClosePrevious, Discard, CloseWorker
  <1>3. restartMu = c
    BY <1>1, <1>2, OthersKeepOut DEF Excluding, RestartSteps, CloseSteps
  <1>4. mine[c] \in Process => mine[c] # worker /\ process[mine[c]] # "none"
    <2>1. CASE pc[c] \in {"discard", "unlockDiscard"}
      BY <1>1, <2>1 DEF MineInv, Candidate, There
    <2>2. CASE pc[c] \in {"closePrevious", "close"}
      BY <1>1, <2>2 DEF MineInv, There
    <2> QED BY <1>2, <2>1, <2>2
  <1>5. mu' = IF pc[c] = "discard" THEN mu ELSE WUnlocked(mu)
    BY DEF ClosePrevious, Discard, CloseWorker
  <1>6. Closed(c)
    BY <1>2, <1>4 DEF ClosePrevious, Discard, CloseWorker, Closed, Goto, Excluding, RestartSteps, CloseSteps
  <1>7. pc'[c] = "unlock" /\ \A d \in Caller \ {c} : pc'[d] = pc[d]
    BY <1>1, <1>6 DEF Closed, TypeOK
  <1>8. /\ mu' \in Mutex(Caller) /\ mu'.readers = mu.readers /\ mu'.announced = mu.announced
        /\ mu'.writer = (mu.writer /\ pc[c] = "discard")
    BY <1>1, <1>5 DEF WUnlocked, TypeOK, Mutex
  <1>9. TypeOK'
    BY <1>1, <1>6, <1>8 DEF Closed, Reaped, TypeOK, Steps
  <1>10. LockInv'
    BY <1>1, <1>2, <1>3, <1>6, <1>7, <1>8
       DEF Closed, LockInv, Excluding, CloseSteps, RestartSteps, Writing
  <1>11. TargetInv'
    BY <1>1, <1>2, <1>6, <1>7 DEF Closed, TargetInv
  <1> QED BY <1>6, <1>9, <1>10, <1>11, ClosedKeeps DEF IInv

LEMMA StepInv == IInv /\ [Next]_vars => IInv'
  <1> SUFFICES ASSUME IInv, [Next]_vars PROVE IInv'
    OBVIOUS
  <1> USE SupervisorAssumption DEF Process
  <1>1. ASSUME NEW c \in Caller, EnterCall(c) PROVE IInv'
    <2>1. TypeOK'
      BY <1>1 DEF IInv, TypeOK, Mutex, Steps, EnterCall, RLocked, Goto, workers
    <2>2. LockInv'
      BY <1>1 DEF IInv, TypeOK, LockInv, Excluding, RestartSteps, CloseSteps, EnterCall,
         MayRead, RLocked, Goto
    <2>3. TargetInv'
      BY <1>1 DEF IInv, TargetInv, EnterCall, Goto, workers
    <2>4. MineInv'
      BY <1>1 DEF IInv, MineInv, Candidate, There, Compatible, EnterCall, Goto, workers
    <2>5. ProcessInv' /\ NoOrphans' /\ WorkerIsUsable'
      BY <1>1 DEF IInv, ProcessInv, NoOrphans, WorkerIsUsable, EnterCall, workers
    <2> QED BY <2>1, <2>2, <2>3, <2>4, <2>5 DEF IInv
  <1>2. ASSUME NEW c \in Caller, Forward(c) PROVE IInv'
    <2>1. TypeOK'
      BY <1>2 DEF IInv, TypeOK, Steps, Forward, Goto, workers, locks
    <2>2. LockInv'
      BY <1>2 DEF IInv, LockInv, Excluding, RestartSteps, CloseSteps, Forward, Goto, locks
    <2>3. TargetInv'
      BY <1>2 DEF IInv, TypeOK, TargetInv, Forward, Goto, workers
    <2>4. MineInv'
      BY <1>2 DEF IInv, MineInv, Candidate, There, Compatible, Forward, Goto, workers
    <2>5. ProcessInv' /\ NoOrphans' /\ WorkerIsUsable'
      BY <1>2 DEF IInv, ProcessInv, NoOrphans, WorkerIsUsable, Forward, workers, locks
    <2> QED BY <2>1, <2>2, <2>3, <2>4, <2>5 DEF IInv
  <1>3. ASSUME NEW c \in Caller, Answer(c) PROVE IInv'
    <2>1. TypeOK'
      BY <1>3 DEF IInv, TypeOK, Mutex, Steps, Answer, RUnlocked, Goto, workers
    <2>2. LockInv'
      BY <1>3 DEF IInv, TypeOK, LockInv, Excluding, RestartSteps, CloseSteps, Answer,
         RUnlocked, Goto
    <2>3. TargetInv'
      BY <1>3 DEF IInv, TypeOK, TargetInv, Answer, Goto, workers
    <2>4. MineInv'
      BY <1>3 DEF IInv, MineInv, Candidate, There, Compatible, Answer, Goto, workers
    <2>5. ProcessInv' /\ NoOrphans' /\ WorkerIsUsable'
      BY <1>3 DEF IInv, ProcessInv, NoOrphans, WorkerIsUsable, Answer, workers
    <2> QED BY <2>1, <2>2, <2>3, <2>4, <2>5 DEF IInv
  <1>4. ASSUME NEW c \in Caller, EnterRestart(c) PROVE IInv'
    <2>1. TypeOK'
      BY <1>4 DEF IInv, TypeOK, Steps, RestartSteps, EnterRestart, Goto, workers
    <2>2. LockInv'
      BY <1>4 DEF IInv, TypeOK, LockInv, Excluding, RestartSteps, Writing, EnterRestart, Goto
    <2>3. TargetInv'
      BY <1>4 DEF IInv, TargetInv, EnterRestart, Goto, workers
    <2>4. MineInv'
      BY <1>4 DEF IInv, MineInv, Candidate, There, Compatible, EnterRestart, Goto, workers
    <2>5. NoOrphans'
      BY <1>4 DEF IInv, NoOrphans, EnterRestart, workers
    <2>6. ProcessInv' /\ WorkerIsUsable'
      BY <1>4 DEF IInv, ProcessInv, WorkerIsUsable, EnterRestart, workers
    <2> QED BY <2>1, <2>2, <2>3, <2>4, <2>5, <2>6 DEF IInv
  <1>5. ASSUME NEW c \in Caller, Look(c) PROVE IInv'
    <2>1. TypeOK'
      BY <1>5 DEF IInv, TypeOK, Steps, RestartSteps, Look, Goto, workers, locks
    <2>2. LockInv'
      BY <1>5 DEF IInv, LockInv, Excluding, RestartSteps, Writing, Look, Goto, locks
    <2>3. TargetInv'
      BY <1>5 DEF IInv, TargetInv, Look, Goto, workers
    <2>4. MineInv'
      BY <1>5 DEF IInv, MineInv, Candidate, There, Compatible, Look, Goto, workers
    <2>5. ProcessInv' /\ NoOrphans' /\ WorkerIsUsable'
      BY <1>5 DEF IInv, ProcessInv, NoOrphans, WorkerIsUsable, Look, workers, locks
    <2> QED BY <2>1, <2>2, <2>3, <2>4, <2>5 DEF IInv
  <1>6. ASSUME NEW c \in Caller, CheckCandidate(c) PROVE IInv'
    <2>1. TypeOK'
      BY <1>6 DEF IInv, TypeOK, Steps, RestartSteps, CheckCandidate, Goto, workers, locks
    <2>2. LockInv'
      BY <1>6 DEF IInv, TypeOK, LockInv, Excluding, RestartSteps, CloseSteps, Writing,
         CheckCandidate, Goto, locks
    <2>3. TargetInv'
      BY <1>6 DEF IInv, TypeOK, TargetInv, CheckCandidate, Goto, workers
    <2>4. MineInv'
      BY <1>6 DEF IInv, TypeOK, MineInv, Candidate, There, Compatible, CheckCandidate, Goto,
         workers
    <2>5. ProcessInv' /\ NoOrphans' /\ WorkerIsUsable'
      BY <1>6 DEF IInv, ProcessInv, NoOrphans, WorkerIsUsable, CheckCandidate, workers, locks
    <2> QED BY <2>1, <2>2, <2>3, <2>4, <2>5 DEF IInv
  <1>7. ASSUME NEW c \in Caller, EnterSwap(c) PROVE IInv'
    <2>1. TypeOK'
      BY <1>7 DEF IInv, TypeOK, Mutex, Steps, RestartSteps, EnterSwap, Locked, Goto, workers
    <2>2. LockInv'
      BY <1>7 DEF IInv, TypeOK, LockInv, Excluding, RestartSteps, Writing, EnterSwap,
         QuietForSwap, MayTryWrite, MayWrite, Locked, Goto
    <2>3. TargetInv'
      BY <1>7 DEF IInv, TargetInv, EnterSwap, Goto, workers
    <2>4. MineInv'
      BY <1>7 DEF IInv, MineInv, Candidate, There, Compatible, EnterSwap, Goto, workers
    <2>5. ProcessInv' /\ NoOrphans' /\ WorkerIsUsable'
      BY <1>7 DEF IInv, ProcessInv, NoOrphans, WorkerIsUsable, EnterSwap, workers
    <2> QED BY <2>1, <2>2, <2>3, <2>4, <2>5 DEF IInv
  <1>8. ASSUME NEW c \in Caller, UnlockRestart(c) PROVE IInv'
    <2>1. TypeOK'
      BY <1>8 DEF IInv, TypeOK, Steps, UnlockRestart, Goto, workers
    <2>2. LockInv'
      BY <1>8 DEF IInv, TypeOK, LockInv, Excluding, RestartSteps, CloseSteps, Writing,
         UnlockRestart, Goto
    <2>3. TargetInv'
      BY <1>8 DEF IInv, TargetInv, UnlockRestart, Goto, workers
    <2>4. MineInv'
      BY <1>8 DEF IInv, MineInv, Candidate, There, Compatible, UnlockRestart, Goto, workers
    <2>5. NoOrphans'
      <3>1. restartMu = c /\ mine[c] = NoWorker
        BY <1>8 DEF IInv, LockInv, MineInv, UnlockRestart, Excluding, Candidate
      <3> QED BY <1>8, <3>1 DEF IInv, NoOrphans, UnlockRestart, workers
    <2>6. ProcessInv' /\ WorkerIsUsable'
      BY <1>8 DEF IInv, ProcessInv, WorkerIsUsable, UnlockRestart, workers
    <2> QED BY <2>1, <2>2, <2>3, <2>4, <2>5, <2>6 DEF IInv
  <1>9. ASSUME NEW c \in Caller, WaitExpires(c) PROVE IInv'
    <2>1. TypeOK'
      BY <1>9 DEF IInv, TypeOK, Steps, RestartSteps, WaitExpires, Goto, AfterWait, workers,
         locks
    <2>2. LockInv'
      BY <1>9 DEF IInv, LockInv, Excluding, RestartSteps, CloseSteps, Writing, WaitExpires,
         Goto, AfterWait, locks
    <2>3. TargetInv'
      BY <1>9 DEF IInv, TargetInv, WaitExpires, Goto, workers
    <2>4. MineInv'
      BY <1>9 DEF IInv, MineInv, Candidate, There, Compatible, WaitExpires, Goto, AfterWait,
         workers
    <2>5. ProcessInv' /\ NoOrphans' /\ WorkerIsUsable'
      BY <1>9 DEF IInv, ProcessInv, NoOrphans, WorkerIsUsable, WaitExpires, workers, locks
    <2> QED BY <2>1, <2>2, <2>3, <2>4, <2>5 DEF IInv
  <1>10. ASSUME NEW c \in Caller, EnterClose(c) PROVE IInv'
    <2>1. TypeOK'
      BY <1>10 DEF IInv, TypeOK, Steps, CloseSteps, EnterClose, Goto, workers
    <2>2. LockInv'
      BY <1>10 DEF IInv, TypeOK, LockInv, Excluding, CloseSteps, Writing, EnterClose, Goto
    <2>3. TargetInv'
      BY <1>10 DEF IInv, TargetInv, EnterClose, Goto, workers
    <2>4. MineInv'
      BY <1>10 DEF IInv, MineInv, Candidate, There, Compatible, EnterClose, Goto, workers
    <2>5. NoOrphans'
      BY <1>10 DEF IInv, NoOrphans, EnterClose, workers
    <2>6. ProcessInv' /\ WorkerIsUsable'
      BY <1>10 DEF IInv, ProcessInv, WorkerIsUsable, EnterClose, workers
    <2> QED BY <2>1, <2>2, <2>3, <2>4, <2>5, <2>6 DEF IInv
  <1>11. ASSUME NEW c \in Caller, AnnounceClose(c) PROVE IInv'
    <2>1. TypeOK'
      BY <1>11 DEF IInv, TypeOK, Mutex, Steps, CloseSteps, AnnounceClose, Announced, Goto,
         workers
    <2>2. LockInv'
      BY <1>11 DEF IInv, TypeOK, LockInv, Excluding, CloseSteps, Writing, AnnounceClose,
         Announced, Goto
    <2>3. TargetInv'
      BY <1>11 DEF IInv, TargetInv, AnnounceClose, Goto, workers
    <2>4. MineInv'
      BY <1>11 DEF IInv, MineInv, Candidate, There, Compatible, AnnounceClose, Goto, workers
    <2>5. ProcessInv' /\ NoOrphans' /\ WorkerIsUsable'
      BY <1>11 DEF IInv, ProcessInv, NoOrphans, WorkerIsUsable, AnnounceClose, workers
    <2> QED BY <2>1, <2>2, <2>3, <2>4, <2>5 DEF IInv
  <1>12. ASSUME NEW c \in Caller, NEW op \in {"callGate", "restartGate", "closing"}, Begin(c, op)
        PROVE  IInv'
    <2>1. TypeOK'
      BY <1>12 DEF IInv, TypeOK, Steps, Begin, Goto, workers, locks
    <2>2. LockInv'
      BY <1>12 DEF IInv, LockInv, Excluding, RestartSteps, CloseSteps, Begin, Goto, locks
    <2>3. TargetInv'
      BY <1>12 DEF IInv, TargetInv, Begin, Goto, workers
    <2>4. MineInv'
      BY <1>12 DEF IInv, MineInv, Candidate, There, Compatible, Begin, Goto, workers
    <2>5. ProcessInv' /\ NoOrphans' /\ WorkerIsUsable'
      BY <1>12 DEF IInv, ProcessInv, NoOrphans, WorkerIsUsable, Begin, workers, locks
    <2> QED BY <2>1, <2>2, <2>3, <2>4, <2>5 DEF IInv
  <1>13. ASSUME NEW w \in Process, WorkerDies(w) PROVE IInv'
    <2>1. TypeOK'
      BY <1>13 DEF IInv, TypeOK, WorkerDies, locks
    <2>2. MineInv'
      BY <1>13 DEF IInv, MineInv, There, Compatible, WorkerDies
    <2>3. ProcessInv'
      BY <1>13 DEF IInv, ProcessInv, WorkerDies
    <2>4. NoOrphans'
      BY <1>13 DEF IInv, NoOrphans, WorkerDies, locks
    <2>5. WorkerIsUsable'
      BY <1>13 DEF IInv, WorkerIsUsable, WorkerDies
    <2>6. LockInv' /\ TargetInv'
      BY <1>13 DEF IInv, LockInv, TargetInv, WorkerDies, locks
    <2> QED BY <2>1, <2>2, <2>3, <2>4, <2>5, <2>6 DEF IInv
  <1>14. CASE UNCHANGED vars
    BY <1>14 DEF IInv, TypeOK, LockInv, TargetInv, MineInv, ProcessInv, NoOrphans,
       WorkerIsUsable, There, Compatible, vars
  <1>15. ASSUME NEW c \in Caller, StartCandidate(c) PROVE IInv'
    BY <1>15, StartKeeps
  <1>16. ASSUME NEW c \in Caller, Swap(c) PROVE IInv'
    BY <1>16, SwapKeeps
  <1>17. ASSUME NEW c \in Caller, LockForClose(c) PROVE IInv'
    BY <1>17, LockForCloseKeeps
  <1>18. ASSUME NEW c \in Caller, ClosePrevious(c) \/ Discard(c) \/ CloseWorker(c) PROVE IInv'
    BY <1>18, CloseKeeps
  <1> QED BY <1>1, <1>2, <1>3, <1>4, <1>5, <1>6, <1>7, <1>8, <1>9, <1>10, <1>11, <1>12,
     <1>13, <1>14, <1>15, <1>16, <1>17, <1>18 DEF Next, Proceed

LEMMA InitInv == Init => IInv
  <1> SUFFICES ASSUME Init PROVE IInv
    OBVIOUS
  <1> USE SupervisorAssumption DEF Init, Process
  <1>1. TypeOK
    BY DEF TypeOK, Unlocked, Mutex, Steps
  <1>2. LockInv
    BY DEF LockInv, Unlocked, Excluding, RestartSteps, CloseSteps
  <1>3. TargetInv /\ MineInv
    BY DEF TargetInv, MineInv, Candidate
  <1>4. ProcessInv /\ NoOrphans /\ WorkerIsUsable
    BY DEF ProcessInv, NoOrphans, WorkerIsUsable
  <1> QED BY <1>1, <1>2, <1>3, <1>4 DEF IInv

-----------------------------------------------------------------------------
(* Theorems                                                                *)

\* The inductive invariant holds in every reachable state: it says who has
\* which lock, and what each restart and close has in its hands.
THEOREM InvCorrect == Spec => []IInv
  BY InitInv, StepInv, PTL DEF Spec

\* The variables of the supervisor have their types.
THEOREM TypeCorrect == Spec => []TypeOK
  <1>1. IInv => TypeOK
    BY DEF IInv
  <1> QED BY <1>1, InvCorrect, PTL

(* However restarts fail, are cancelled or race with Close and with the    *)
(* death of workers: a process that is not waited for yet is the worker,   *)
(* or in the hands of the restart or close under way.                      *)
THEOREM NoOrphansCorrect == Spec => []NoOrphans
  <1>1. IInv => NoOrphans
    BY DEF IInv
  <1> QED BY <1>1, InvCorrect, PTL

(* The worker calls are forwarded to has not been closed, and its contract *)
(* is the one the host has seen at first.                                  *)
THEOREM WorkerIsUsableCorrect == Spec => []WorkerIsUsable
  <1>1. IInv => WorkerIsUsable
    BY DEF IInv
  <1> QED BY <1>1, InvCorrect, PTL

-----------------------------------------------------------------------------
(* Refinement                                                              *)

\* A step of a caller that neither begins nor ends a call, nor changes the
\* worker, is none of the abstract service.
LEMMA ActiveStutter ==
  ASSUME NEW c \in Caller,
         \/ EnterCall(c) \/ EnterRestart(c) \/ Look(c) \/ StartCandidate(c) \/ CheckCandidate(c)
         \/ EnterSwap(c) \/ ClosePrevious(c) \/ Discard(c) \/ UnlockRestart(c) \/ WaitExpires(c)
         \/ EnterClose(c) \/ AnnounceClose(c) \/ CloseWorker(c)
  PROVE  UNCHANGED Active!vars
  <1>1. CASE EnterCall(c) \/ EnterRestart(c) \/ Look(c) \/ StartCandidate(c) \/ CheckCandidate(c)
    BY <1>1 DEF EnterCall, EnterRestart, Look, StartCandidate, CheckCandidate, workers, Active!vars
  <1>2. CASE EnterSwap(c) \/ ClosePrevious(c) \/ Discard(c) \/ UnlockRestart(c) \/ WaitExpires(c)
    BY <1>2 DEF EnterSwap, ClosePrevious, Discard, UnlockRestart, WaitExpires, workers, Active!vars
  <1>3. CASE EnterClose(c) \/ AnnounceClose(c) \/ CloseWorker(c)
    BY <1>3 DEF EnterClose, AnnounceClose, CloseWorker, workers, Active!vars
  <1> QED BY <1>1, <1>2, <1>3

LEMMA ActiveStep ==
  ASSUME IInv, [Next]_vars
  PROVE  [Active!Next]_(Active!vars)
  <1> USE SupervisorAssumption
  <1>1. TypeOK /\ LockInv /\ TargetInv /\ MineInv /\ ProcessInv
    BY DEF IInv
  <1>2. ASSUME NEW c \in Caller, Forward(c) PROVE [Active!Next]_(Active!vars)
    <2>1. target[c] = NoWorker
      BY <1>1, <1>2 DEF Forward, TargetInv
    <2>2. target' = [target EXCEPT ![c] = worker] /\ UNCHANGED <<worker, retired>>
      BY <1>2 DEF Forward, workers
    <2>3. CASE worker = NoWorker
      <3>1. target' = target
        BY <1>1, <2>1, <2>2, <2>3 DEF TypeOK
      <3> QED BY <2>2, <3>1 DEF Active!vars
    <2>4. CASE worker # NoWorker
      BY <2>1, <2>2, <2>4 DEF Active!Next, Active!Begin
    <2> QED BY <2>3, <2>4
  <1>3. ASSUME NEW c \in Caller, Answer(c) PROVE [Active!Next]_(Active!vars)
    BY <1>3 DEF Answer, workers, Active!Next, Active!End
  <1>4. ASSUME NEW c \in Caller, Swap(c) PROVE [Active!Next]_(Active!vars)
    <2>1. CASE UNCHANGED <<worker, retired>>
      BY <1>4, <2>1 DEF Swap, Active!vars
    <2>2. CASE worker' = mine[c] /\ retired' = retired \cup {worker}
      <3>1. /\ mine[c] \in Process /\ mine[c] \notin retired \cup {worker}
            /\ worker # NoWorker
        BY <1>1, <1>4 DEF Swap, MineInv, Candidate
      <3>2. mu.readers = {} /\ \A d \in Caller : target[d] = NoWorker
        BY <1>1, <1>4 DEF Swap, LockInv, TargetInv, Writing, Excluding, RestartSteps
      <3> QED BY <1>4, <2>2, <3>1, <3>2 DEF Swap, Active!Next, Active!Replace, Active!Quiet
    <2> QED BY <1>4, <2>1, <2>2 DEF Swap
  <1>5. ASSUME NEW c \in Caller, LockForClose(c) PROVE [Active!Next]_(Active!vars)
    <2>1. \A d \in Caller : target[d] = NoWorker
      BY <1>1, <1>5 DEF LockForClose, MayWrite, LockInv, TargetInv
    <2>2. CASE worker = NoWorker
      BY <1>5, <2>2 DEF LockForClose, Active!vars
    <2>3. CASE worker # NoWorker
      BY <1>5, <2>1, <2>3 DEF LockForClose, Active!Next, Active!Close, Active!Quiet
    <2> QED BY <2>2, <2>3
  <1>6. ASSUME NEW c \in Caller, NEW op \in {"callGate", "restartGate", "closing"}, Begin(c, op)
        PROVE  [Active!Next]_(Active!vars)
    BY <1>6 DEF Begin, workers, Active!vars
  <1>7. ASSUME NEW w \in Process, WorkerDies(w) PROVE [Active!Next]_(Active!vars)
    BY <1>7 DEF WorkerDies, Active!vars
  <1>8. CASE UNCHANGED vars
    BY <1>8 DEF vars, Active!vars
  <1> QED
    BY <1>2, <1>3, <1>4, <1>5, <1>6, <1>7, <1>8, ActiveStutter DEF Next, Proceed

(* Calls under way keep their worker, and a worker is replaced or closed   *)
(* between calls only: the supervisor implements ActiveGeneration.         *)
THEOREM ImplementsActiveCorrect == Spec => ImplementsActive
  <1>1. Init => Active!Init
    BY SupervisorAssumption DEF Init, Active!Init, Process
  <1>2. IInv /\ [Next]_vars => [Active!Next]_(Active!vars)
    BY ActiveStep
  <1> QED BY <1>1, <1>2, InvCorrect, PTL DEF Spec, ImplementsActive, Active!Spec

=============================================================================

------------------------- MODULE ServiceReloadProofs ------------------------
(***************************************************************************)
(* Proofs about ServiceReload, for any number of callers and services:     *)
(* exactly the services in use are open, and a call keeps its service.     *)
(***************************************************************************)
EXTENDS ServiceReload, TLAPS

-----------------------------------------------------------------------------
(* The inductive invariant                                                 *)

\* Steps at which a caller has restartMu, those at which it waits for mu as an
\* announced writer, and those at which it has a replacement.
Excluding == {"look", "open", "announce", "swap", "unlock", "unlockSwapped",
              "announceClose", "closeService"}
Waiting == {"swap", "closeService"}
Replacing == {"announce", "swap"}

\* Who has which lock.  Swap and CloseService take mu and give it back in one
\* step, so that no state between two steps has a writer.
LockInv ==
  /\ \A c \in Caller : restartMu = c <=> pc[c] \in Excluding
  /\ \A c \in Caller : c \in mu.readers <=> pc[c] = "inCall"
  /\ ~mu.writer
  /\ mu.announced <=> restartMu \in Caller /\ pc[restartMu] \in Waiting

\* A call under way uses the service that is there.
UsingInv ==
  \A c \in Caller : using[c] # NoService => pc[c] = "inCall" /\ using[c] = service

\* The replacement of a restart is open, new, and in nobody else's hands.
MineInv ==
  \A c \in Caller :
    /\ mine[c] # NoService => pc[c] \in Replacing
    /\ pc[c] \in Replacing =>
         /\ mine[c] \in open
         /\ mine[c] # service /\ mine[c] \notin retired
    /\ pc[c] \in Replacing \cup {"open"} => service # NoService

\* Services are numbered as they are opened.
OpenedInv ==
  /\ \A s \in open \cup retired : s <= opened
  /\ service \notin retired

IInv == TypeOK /\ LockInv /\ UsingInv /\ MineInv /\ OpenedInv /\ OpenServices

-----------------------------------------------------------------------------
(* Its proof                                                               *)

\* Only one caller at a time restarts or closes; the others have no
\* replacement.
LEMMA OthersKeepOut ==
  ASSUME LockInv, MineInv, NEW c \in Caller, pc[c] \in Excluding
  PROVE  /\ restartMu = c
         /\ \A d \in Caller \ {c} : pc[d] \notin Excluding /\ mine[d] = NoService
  <1>1. restartMu = c /\ \A d \in Caller \ {c} : pc[d] \notin Excluding
    BY DEF LockInv
  <1>2. Replacing \subseteq Excluding
    BY DEF Replacing, Excluding
  <1> QED BY <1>1, <1>2 DEF MineInv

\* What holds of the replacements of all callers follows from what holds of
\* the one that restarts or closes.
LEMMA OneRestart ==
  ASSUME NEW c \in Caller,
         \A d \in Caller \ {c} : pc'[d] \notin Excluding /\ mine'[d] = NoService,
         \/ mine'[c] = NoService /\ pc'[c] \notin Replacing \cup {"open"}
         \/ /\ pc'[c] \in Replacing /\ service' # NoService
            /\ mine'[c] \in open' /\ mine'[c] # service' /\ mine'[c] \notin retired'
  PROVE  MineInv'
  <1>1. Replacing \cup {"open"} \subseteq Excluding
    BY DEF Replacing, Excluding
  <1> QED BY <1>1 DEF MineInv

\* A new service is open beside the one in use.
LEMMA OpenKeeps ==
  ASSUME IInv, NEW c \in Caller, OpenReplacement(c)
  PROVE  IInv'
  <1> USE ReloadAssumption DEF Service
  <1>1. TypeOK /\ LockInv /\ UsingInv /\ MineInv /\ OpenedInv /\ OpenServices
    BY DEF IInv
  <1>2. restartMu = c /\ \A d \in Caller \ {c} : pc[d] \notin Excluding /\ mine[d] = NoService
    BY <1>1, OthersKeepOut DEF OpenReplacement, Excluding
  <1>3. pc[c] = "open" /\ mine[c] = NoService /\ service \in Service
    BY <1>1 DEF OpenReplacement, MineInv, Replacing, TypeOK
  <1>4. UNCHANGED <<service, retired, mu, restartMu, using>>
    BY DEF OpenReplacement, locks
  <1>5. CASE Goto(c, "unlock") /\ UNCHANGED <<open, opened, mine>>
    <2>1. pc'[c] = "unlock" /\ \A d \in Caller \ {c} : pc'[d] = pc[d]
      BY <1>1, <1>5 DEF Goto, TypeOK
    <2>2. TypeOK'
      BY <1>1, <1>4, <1>5 DEF Goto, TypeOK, Steps
    <2>3. LockInv'
      BY <1>1, <1>2, <1>3, <1>4, <2>1 DEF LockInv, Excluding, Waiting
    <2>4. UsingInv'
      BY <1>1, <1>3, <1>4, <2>1 DEF UsingInv
    <2>5. MineInv'
      BY <1>2, <1>3, <1>5, <2>1, OneRestart DEF Replacing
    <2>6. OpenedInv' /\ OpenServices'
      BY <1>1, <1>4, <1>5 DEF OpenedInv, OpenServices
    <2> QED BY <2>2, <2>3, <2>4, <2>5, <2>6 DEF IInv
  <1>6. CASE /\ opened < MaxServices
             /\ opened' = opened + 1
             /\ open' = open \cup {opened + 1}
             /\ mine' = [mine EXCEPT ![c] = opened + 1]
             /\ Goto(c, "announce")
    <2>1. /\ pc'[c] = "announce" /\ mine'[c] = opened + 1 /\ opened + 1 \in Service
          /\ \A d \in Caller \ {c} : pc'[d] = pc[d] /\ mine'[d] = mine[d]
      BY <1>1, <1>6 DEF Goto, TypeOK
    <2>2. service \in open
      BY <1>1, <1>3 DEF OpenServices
    <2>3. opened + 1 # service /\ opened + 1 \notin retired /\ opened + 1 \notin open
      BY <1>1, <2>2 DEF OpenedInv, TypeOK
    <2>4. TypeOK'
      BY <1>1, <1>4, <1>6, <2>1 DEF Goto, TypeOK, Steps
    <2>5. LockInv'
      BY <1>1, <1>2, <1>3, <1>4, <2>1 DEF LockInv, Excluding, Waiting
    <2>6. UsingInv'
      BY <1>1, <1>3, <1>4, <2>1 DEF UsingInv
    <2>7. MineInv'
      BY <1>2, <1>3, <1>4, <1>6, <2>1, <2>3, OneRestart DEF Replacing
    <2>8. OpenedInv'
      BY <1>1, <1>4, <1>6, <2>1 DEF OpenedInv, TypeOK
    <2>9. OpenServices'
      <3>1. \A s \in open : s = service
        BY <1>1, <1>2, <1>3 DEF OpenServices, TypeOK
      <3>2. restartMu' # Nobody /\ mine'[restartMu'] = opened + 1
        BY <1>2, <1>4, <2>1
      <3> QED BY <1>1, <1>4, <1>6, <3>1, <3>2 DEF OpenServices
    <2> QED BY <2>4, <2>5, <2>6, <2>7, <2>8, <2>9 DEF IInv
  <1> QED BY <1>5, <1>6 DEF OpenReplacement

\* A replacement that is given up is closed, and nothing else is.
LEMMA CancelKeeps ==
  ASSUME IInv, NEW c \in Caller, CancelRestart(c)
  PROVE  IInv'
  <1> USE ReloadAssumption
  <1>1. TypeOK /\ LockInv /\ UsingInv /\ MineInv /\ OpenedInv /\ OpenServices
    BY DEF IInv
  <1>2. restartMu = c /\ \A d \in Caller \ {c} : pc[d] \notin Excluding /\ mine[d] = NoService
    BY <1>1, OthersKeepOut DEF CancelRestart, Excluding
  <1>3. pc[c] = "announce" /\ mine[c] \in open /\ mine[c] # service
    BY <1>1 DEF CancelRestart, MineInv, Replacing
  <1>4. /\ pc'[c] = "unlock" /\ mine'[c] = NoService
        /\ \A d \in Caller \ {c} : pc'[d] = pc[d] /\ mine'[d] = mine[d]
    BY <1>1 DEF CancelRestart, Goto, TypeOK
  <1>5. open' = open \ {mine[c]} /\ UNCHANGED <<service, opened, retired, mu, restartMu, using>>
    BY DEF CancelRestart, locks
  <1>6. TypeOK'
    BY <1>1, <1>5 DEF CancelRestart, Goto, TypeOK, Steps
  <1>7. LockInv'
    BY <1>1, <1>2, <1>3, <1>4, <1>5 DEF LockInv, Excluding, Waiting
  <1>8. UsingInv'
    BY <1>1, <1>3, <1>4, <1>5 DEF UsingInv
  <1>9. MineInv'
    BY <1>2, <1>4, OneRestart DEF Replacing
  <1>10. OpenedInv'
    BY <1>1, <1>5 DEF OpenedInv
  <1>11. OpenServices'
    <2>1. \A d \in Caller : using[d] # NoService => using[d] = service
      BY <1>1 DEF UsingInv
    <2> QED BY <1>1, <1>2, <1>3, <1>5, <2>1 DEF OpenServices
  <1> QED BY <1>6, <1>7, <1>8, <1>9, <1>10, <1>11 DEF IInv

\* Whoever may write finds no call under way.
LEMMA Quiet ==
  ASSUME LockInv, UsingInv, MayWrite(mu)
  PROVE  \A d \in Caller : using[d] = NoService
  BY DEF LockInv, UsingInv, MayWrite

\* The service that is replaced is closed when no call uses it.
LEMMA SwapKeeps ==
  ASSUME IInv, NEW c \in Caller, Swap(c)
  PROVE  IInv'
  <1> USE ReloadAssumption
  <1>1. TypeOK /\ LockInv /\ UsingInv /\ MineInv /\ OpenedInv /\ OpenServices
    BY DEF IInv
  <1>2. restartMu = c /\ \A d \in Caller \ {c} : pc[d] \notin Excluding /\ mine[d] = NoService
    BY <1>1, OthersKeepOut DEF Swap, Excluding
  <1>3. /\ pc[c] = "swap" /\ mine[c] \in open /\ mine[c] # service /\ mine[c] \notin retired
        /\ service \in Service /\ service \in open /\ mine[c] \in Service
    BY <1>1 DEF Swap, MineInv, Replacing, TypeOK, OpenServices
  <1>4. \A d \in Caller : using[d] = NoService
    BY <1>1, Quiet DEF Swap, SwapMayGo
  <1>5. /\ pc'[c] \in {"unlock", "unlockSwapped"} /\ mine'[c] = NoService
        /\ \A d \in Caller \ {c} : pc'[d] = pc[d] /\ mine'[d] = mine[d]
    BY <1>1 DEF Swap, Goto, TypeOK
  <1>6. /\ service' = mine[c] /\ open' = open \ {service} /\ retired' = retired \cup {service}
        /\ UNCHANGED <<opened, restartMu, using>>
    BY DEF Swap, WithoutPrevious
  <1>7. /\ mu' \in Mutex(Caller) /\ mu'.readers = mu.readers
        /\ mu'.writer = FALSE /\ mu'.announced = FALSE
    BY <1>1 DEF Swap, WUnlocked, Locked, TypeOK, Mutex
  <1>8. TypeOK'
    BY <1>1, <1>3, <1>6, <1>7 DEF Swap, Goto, TypeOK, Steps
  <1>9. LockInv'
    BY <1>1, <1>2, <1>3, <1>5, <1>6, <1>7 DEF LockInv, Excluding, Waiting
  <1>10. UsingInv'
    BY <1>4, <1>6 DEF UsingInv
  <1>11. MineInv'
    BY <1>2, <1>5, OneRestart DEF Replacing
  <1>12. OpenedInv'
    BY <1>1, <1>3, <1>6 DEF OpenedInv
  <1>13. OpenServices'
    BY <1>1, <1>2, <1>3, <1>4, <1>6 DEF OpenServices
  <1> QED BY <1>8, <1>9, <1>10, <1>11, <1>12, <1>13 DEF IInv

LEMMA CloseKeeps ==
  ASSUME IInv, NEW c \in Caller, CloseService(c)
  PROVE  IInv'
  <1> USE ReloadAssumption
  <1>1. TypeOK /\ LockInv /\ UsingInv /\ MineInv /\ OpenedInv /\ OpenServices
    BY DEF IInv
  <1>2. restartMu = c /\ \A d \in Caller \ {c} : pc[d] \notin Excluding /\ mine[d] = NoService
    BY <1>1, OthersKeepOut DEF CloseService, Excluding
  <1>3. pc[c] = "closeService" /\ mine[c] = NoService
    BY <1>1 DEF CloseService, MineInv, Replacing
  <1>4. \A d \in Caller : using[d] = NoService
    BY <1>1, Quiet DEF CloseService
  <1>5. pc'[c] = "idle" /\ \A d \in Caller \ {c} : pc'[d] = pc[d]
    BY <1>1 DEF CloseService, Goto, TypeOK
  <1>6. /\ service' = NoService /\ open' = open \ {service} /\ restartMu' = Nobody
        /\ retired' = IF service = NoService THEN retired ELSE retired \cup {service}
        /\ UNCHANGED <<opened, using, mine>>
    BY DEF CloseService, WithoutPrevious
  <1>7. /\ mu' \in Mutex(Caller) /\ mu'.readers = mu.readers
        /\ mu'.writer = FALSE /\ mu'.announced = FALSE
    BY <1>1 DEF CloseService, WUnlocked, Locked, TypeOK, Mutex
  <1>8. TypeOK'
    BY <1>1, <1>6, <1>7 DEF CloseService, Goto, TypeOK, Steps
  <1>9. LockInv'
    BY <1>1, <1>2, <1>3, <1>5, <1>6, <1>7 DEF LockInv, Excluding, Waiting
  <1>10. UsingInv'
    BY <1>4, <1>6 DEF UsingInv
  <1>11. MineInv'
    BY <1>2, <1>3, <1>5, <1>6, OneRestart DEF Replacing
  <1>12. OpenedInv'
    <2>1. service # NoService => service <= opened
      BY <1>1 DEF OpenedInv, OpenServices
    <2>2. NoService \notin retired
      BY <1>1 DEF TypeOK
    <2> QED BY <1>1, <1>6, <2>1, <2>2 DEF OpenedInv
  <1>13. OpenServices'
    BY <1>1, <1>2, <1>3, <1>4, <1>6 DEF OpenServices
  <1> QED BY <1>8, <1>9, <1>10, <1>11, <1>12, <1>13 DEF IInv

LEMMA StepInv == IInv /\ [Next]_vars => IInv'
  <1> SUFFICES ASSUME IInv, [Next]_vars PROVE IInv'
    OBVIOUS
  <1> USE ReloadAssumption DEF Service
  <1>1. ASSUME NEW c \in Caller, EnterCall(c) PROVE IInv'
    <2>1. TypeOK'
      BY <1>1 DEF IInv, TypeOK, Mutex, Steps, EnterCall, Goto, RLocked, services
    <2>2. LockInv'
      <3>1. CASE service = NoService
        BY <1>1, <3>1 DEF IInv, LockInv, EnterCall, Goto, Excluding, Waiting, TypeOK
      <3>2. CASE service # NoService
        <4>1. /\ mu'.readers = mu.readers \cup {c}
              /\ mu'.writer = mu.writer /\ mu'.announced = mu.announced
          BY <1>1, <3>2 DEF IInv, EnterCall, RLocked, TypeOK, Mutex
        <4>2. /\ pc[c] = "call" /\ pc'[c] = "inCall" /\ restartMu' = restartMu
              /\ \A d \in Caller \ {c} : pc'[d] = pc[d]
          BY <1>1, <3>2 DEF IInv, EnterCall, Goto, TypeOK
        <4> QED BY <4>1, <4>2 DEF IInv, LockInv, Excluding, Waiting
      <3> QED BY <3>1, <3>2
    <2>3. UsingInv'
      BY <1>1 DEF IInv, TypeOK, UsingInv, EnterCall, Goto, services
    <2>4. MineInv'
      BY <1>1 DEF IInv, TypeOK, MineInv, Replacing, EnterCall, Goto, services
    <2>5. OpenServices'
      BY <1>1 DEF IInv, TypeOK, OpenServices, EnterCall, services
    <2>6. OpenedInv'
      BY <1>1 DEF IInv, OpenedInv, EnterCall, services
    <2> QED BY <2>1, <2>2, <2>3, <2>4, <2>5, <2>6 DEF IInv
  <1>2. ASSUME NEW c \in Caller, EndCall(c) PROVE IInv'
    <2>1. TypeOK'
      BY <1>2 DEF IInv, TypeOK, Mutex, Steps, EndCall, RUnlocked, Goto, services
    <2>2. LockInv'
      BY <1>2 DEF IInv, TypeOK, LockInv, Excluding, EndCall, RUnlocked, Goto
    <2>3. UsingInv'
      BY <1>2 DEF IInv, TypeOK, UsingInv, EndCall, Goto, services
    <2>4. MineInv'
      BY <1>2 DEF IInv, MineInv, Replacing, EndCall, Goto, services
    <2>5. OpenServices'
      BY <1>2 DEF IInv, OpenServices, EndCall, services
    <2>6. OpenedInv'
      BY <1>2 DEF IInv, OpenedInv, EndCall, services
    <2> QED BY <2>1, <2>2, <2>3, <2>4, <2>5, <2>6 DEF IInv
  <1>3. ASSUME NEW c \in Caller, EnterRestart(c) PROVE IInv'
    <2>1. TypeOK'
      BY <1>3 DEF IInv, TypeOK, Steps, EnterRestart, Goto, services
    <2>2. LockInv'
      BY <1>3 DEF IInv, TypeOK, LockInv, Excluding, Waiting, EnterRestart, Goto
    <2>3. UsingInv'
      BY <1>3 DEF IInv, UsingInv, EnterRestart, Goto, services
    <2>4. MineInv'
      BY <1>3 DEF IInv, MineInv, Replacing, EnterRestart, Goto, services
    <2>5. OpenServices'
      BY <1>3 DEF IInv, OpenServices, EnterRestart, services
    <2>6. OpenedInv'
      BY <1>3 DEF IInv, OpenedInv, EnterRestart, services
    <2> QED BY <2>1, <2>2, <2>3, <2>4, <2>5, <2>6 DEF IInv
  <1>4. ASSUME NEW c \in Caller, Look(c) PROVE IInv'
    <2>1. TypeOK'
      BY <1>4 DEF IInv, TypeOK, Steps, Look, Goto, AfterLook, services, locks
    <2>2. LockInv'
      BY <1>4 DEF IInv, LockInv, Excluding, Waiting, Look, Goto, AfterLook, locks
    <2>3. UsingInv'
      BY <1>4 DEF IInv, UsingInv, Look, Goto, services
    <2>4. MineInv'
      BY <1>4 DEF IInv, MineInv, Replacing, Look, Goto, AfterLook, services
    <2>5. OpenedInv' /\ OpenServices'
      BY <1>4 DEF IInv, OpenedInv, OpenServices, Look, services, locks
    <2> QED BY <2>1, <2>2, <2>3, <2>4, <2>5 DEF IInv
  <1>5. ASSUME NEW c \in Caller, AnnounceRestart(c) PROVE IInv'
    <2>1. TypeOK'
      BY <1>5 DEF IInv, TypeOK, Mutex, Steps, AnnounceRestart, Announced, Goto, services
    <2>2. LockInv'
      BY <1>5 DEF IInv, TypeOK, LockInv, Excluding, Waiting, AnnounceRestart, Announced, Goto
    <2>3. UsingInv'
      BY <1>5 DEF IInv, UsingInv, AnnounceRestart, Goto, services
    <2>4. MineInv'
      BY <1>5 DEF IInv, MineInv, Replacing, AnnounceRestart, Goto, services
    <2>5. OpenedInv' /\ OpenServices'
      BY <1>5 DEF IInv, OpenedInv, OpenServices, AnnounceRestart, services
    <2> QED BY <2>1, <2>2, <2>3, <2>4, <2>5 DEF IInv
  <1>6. ASSUME NEW c \in Caller, UnlockRestart(c) PROVE IInv'
    <2>1. TypeOK'
      BY <1>6 DEF IInv, TypeOK, Steps, UnlockRestart, Goto, services
    <2>2. LockInv'
      BY <1>6 DEF IInv, TypeOK, LockInv, Excluding, Waiting, UnlockRestart, Goto
    <2>3. UsingInv'
      BY <1>6 DEF IInv, UsingInv, UnlockRestart, Goto, services
    <2>4. MineInv'
      BY <1>6 DEF IInv, MineInv, Replacing, UnlockRestart, Goto, services
    <2>5. OpenServices'
      <3>1. restartMu = c /\ mine[c] = NoService
        BY <1>6 DEF IInv, LockInv, MineInv, UnlockRestart, Excluding, Replacing
      <3> QED BY <1>6, <3>1 DEF IInv, TypeOK, OpenServices, UnlockRestart, services
    <2>6. OpenedInv'
      BY <1>6 DEF IInv, OpenedInv, UnlockRestart, services
    <2> QED BY <2>1, <2>2, <2>3, <2>4, <2>5, <2>6 DEF IInv
  <1>7. ASSUME NEW c \in Caller, AnswerRestart(c) PROVE IInv'
    <2>1. TypeOK'
      BY <1>7 DEF IInv, TypeOK, Steps, AnswerRestart, Goto, services, locks
    <2>2. LockInv'
      BY <1>7 DEF IInv, LockInv, Excluding, AnswerRestart, Goto, locks
    <2>3. UsingInv'
      BY <1>7 DEF IInv, UsingInv, AnswerRestart, Goto, services
    <2>4. MineInv'
      BY <1>7 DEF IInv, MineInv, Replacing, AnswerRestart, Goto, services
    <2>5. OpenedInv' /\ OpenServices'
      BY <1>7 DEF IInv, OpenedInv, OpenServices, AnswerRestart, services, locks
    <2> QED BY <2>1, <2>2, <2>3, <2>4, <2>5 DEF IInv
  <1>8. ASSUME NEW c \in Caller, EnterClose(c) PROVE IInv'
    <2>1. TypeOK'
      BY <1>8 DEF IInv, TypeOK, Steps, EnterClose, Goto, services
    <2>2. LockInv'
      BY <1>8 DEF IInv, TypeOK, LockInv, Excluding, Waiting, EnterClose, Goto
    <2>3. UsingInv'
      BY <1>8 DEF IInv, UsingInv, EnterClose, Goto, services
    <2>4. MineInv'
      BY <1>8 DEF IInv, MineInv, Replacing, EnterClose, Goto, services
    <2>5. OpenServices'
      BY <1>8 DEF IInv, OpenServices, EnterClose, services
    <2>6. OpenedInv'
      BY <1>8 DEF IInv, OpenedInv, EnterClose, services
    <2> QED BY <2>1, <2>2, <2>3, <2>4, <2>5, <2>6 DEF IInv
  <1>9. ASSUME NEW c \in Caller, AnnounceClose(c) PROVE IInv'
    <2>1. TypeOK'
      BY <1>9 DEF IInv, TypeOK, Mutex, Steps, AnnounceClose, Announced, Goto, services
    <2>2. LockInv'
      BY <1>9 DEF IInv, TypeOK, LockInv, Excluding, Waiting, AnnounceClose, Announced, Goto
    <2>3. UsingInv'
      BY <1>9 DEF IInv, UsingInv, AnnounceClose, Goto, services
    <2>4. MineInv'
      BY <1>9 DEF IInv, MineInv, Replacing, AnnounceClose, Goto, services
    <2>5. OpenedInv' /\ OpenServices'
      BY <1>9 DEF IInv, OpenedInv, OpenServices, AnnounceClose, services
    <2> QED BY <2>1, <2>2, <2>3, <2>4, <2>5 DEF IInv
  <1>10. ASSUME NEW c \in Caller, NEW op \in Ops, Begin(c, op) PROVE IInv'
    <2>1. TypeOK'
      BY <1>10 DEF IInv, TypeOK, Steps, Begin, Goto, services, locks
    <2>2. LockInv'
      <3>1. /\ pc[c] = "idle" /\ pc'[c] \in {"call", "restart", "close"}
            /\ \A d \in Caller \ {c} : pc'[d] = pc[d]
        BY <1>10 DEF IInv, Begin, Goto, TypeOK, Ops
      <3> QED BY <1>10, <3>1 DEF IInv, Begin, services, locks, LockInv, Excluding, Waiting
    <2>3. UsingInv'
      BY <1>10 DEF IInv, UsingInv, Begin, Goto, services
    <2>4. MineInv'
      <3>1. /\ pc[c] = "idle" /\ pc'[c] \in {"call", "restart", "close"}
            /\ \A d \in Caller \ {c} : pc'[d] = pc[d]
        BY <1>10 DEF IInv, Begin, Goto, TypeOK, Ops
      <3> QED BY <1>10, <3>1 DEF IInv, Begin, services, locks, MineInv, Replacing
    <2>5. OpenedInv' /\ OpenServices'
      BY <1>10 DEF IInv, OpenedInv, OpenServices, Begin, services, locks
    <2> QED BY <2>1, <2>2, <2>3, <2>4, <2>5 DEF IInv
  <1>11. CASE UNCHANGED vars
    BY <1>11 DEF IInv, TypeOK, LockInv, UsingInv, MineInv, OpenedInv, OpenServices, vars
  <1>12. ASSUME NEW c \in Caller, OpenReplacement(c) PROVE IInv'
    BY <1>12, OpenKeeps
  <1>13. ASSUME NEW c \in Caller, CancelRestart(c) PROVE IInv'
    BY <1>13, CancelKeeps
  <1>14. ASSUME NEW c \in Caller, Swap(c) PROVE IInv'
    BY <1>14, SwapKeeps
  <1>15. ASSUME NEW c \in Caller, CloseService(c) PROVE IInv'
    BY <1>15, CloseKeeps
  <1> QED BY <1>1, <1>2, <1>3, <1>4, <1>5, <1>6, <1>7, <1>8, <1>9, <1>10, <1>11, <1>12,
     <1>13, <1>14, <1>15 DEF Next, Proceed

LEMMA InitInv == Init => IInv
  <1> SUFFICES ASSUME Init PROVE IInv
    OBVIOUS
  <1> USE ReloadAssumption DEF Init, Service
  <1>1. TypeOK
    BY DEF TypeOK, Unlocked, Mutex, Steps
  <1>2. LockInv
    BY DEF LockInv, Unlocked, Excluding
  <1>3. UsingInv /\ MineInv
    BY DEF UsingInv, MineInv, Replacing
  <1>4. OpenedInv /\ OpenServices
    BY DEF OpenedInv, OpenServices
  <1> QED BY <1>1, <1>2, <1>3, <1>4 DEF IInv

-----------------------------------------------------------------------------
(* Theorems                                                                *)

\* The inductive invariant holds in every reachable state: it says who has
\* which lock, and what the restart under way has opened.
THEOREM InvCorrect == Spec => []IInv
  BY InitInv, StepInv, PTL DEF Spec

\* The variables of the server have their types.
THEOREM TypeCorrect == Spec => []TypeOK
  <1>1. IInv => TypeOK
    BY DEF IInv
  <1> QED BY <1>1, InvCorrect, PTL

(* No restart, finished, failed or cancelled, and no Close leaves a        *)
(* database open that nobody uses, or closes one that a call uses.         *)
THEOREM OpenServicesCorrect == Spec => []OpenServices
  <1>1. IInv => OpenServices
    BY DEF IInv
  <1> QED BY <1>1, InvCorrect, PTL

-----------------------------------------------------------------------------
(* Refinement                                                              *)

\* A step of a caller that neither begins nor ends a call, nor changes the
\* service, is none of the abstract service.
LEMMA ActiveStutter ==
  ASSUME NEW c \in Caller,
         \/ EnterRestart(c) \/ Look(c) \/ OpenReplacement(c) \/ CancelRestart(c)
         \/ AnnounceRestart(c) \/ UnlockRestart(c) \/ AnswerRestart(c)
         \/ EnterClose(c) \/ AnnounceClose(c)
  PROVE  UNCHANGED Active!vars
  <1>1. CASE EnterRestart(c) \/ Look(c) \/ OpenReplacement(c) \/ CancelRestart(c)
    BY <1>1 DEF EnterRestart, Look, OpenReplacement, CancelRestart, services, Active!vars
  <1>2. CASE AnnounceRestart(c) \/ UnlockRestart(c) \/ AnswerRestart(c)
    BY <1>2 DEF AnnounceRestart, UnlockRestart, AnswerRestart, services, Active!vars
  <1>3. CASE EnterClose(c) \/ AnnounceClose(c)
    BY <1>3 DEF EnterClose, AnnounceClose, services, Active!vars
  <1> QED BY <1>1, <1>2, <1>3

LEMMA ActiveStep ==
  ASSUME IInv, [Next]_vars
  PROVE  [Active!Next]_(Active!vars)
  <1> USE ReloadAssumption
  <1>1. TypeOK /\ LockInv /\ UsingInv /\ MineInv /\ OpenServices
    BY DEF IInv
  <1>2. ASSUME NEW c \in Caller, EnterCall(c) PROVE [Active!Next]_(Active!vars)
    <2>1. using[c] = NoService
      BY <1>1, <1>2 DEF EnterCall, UsingInv
    <2>2. CASE service = NoService
      BY <1>2, <2>2 DEF EnterCall, services, Active!vars
    <2>3. CASE service # NoService
      BY <1>2, <2>1, <2>3 DEF EnterCall, services, Active!Next, Active!Begin
    <2> QED BY <2>2, <2>3
  <1>3. ASSUME NEW c \in Caller, EndCall(c) PROVE [Active!Next]_(Active!vars)
    BY <1>3 DEF EndCall, services, Active!Next, Active!End
  <1>4. ASSUME NEW c \in Caller, Swap(c) PROVE [Active!Next]_(Active!vars)
    <2>1. \A d \in Caller : using[d] = NoService
      BY <1>1, <1>4, Quiet DEF Swap, SwapMayGo
    <2>2. /\ mine[c] \in Service /\ mine[c] \notin retired \cup {service}
          /\ service # NoService
      BY <1>1, <1>4 DEF Swap, MineInv, Replacing, TypeOK
    <2> QED BY <1>4, <2>1, <2>2 DEF Swap, Active!Next, Active!Replace, Active!Quiet
  <1>5. ASSUME NEW c \in Caller, CloseService(c) PROVE [Active!Next]_(Active!vars)
    <2>1. \A d \in Caller : using[d] = NoService
      BY <1>1, <1>5, Quiet DEF CloseService
    <2>2. CASE service = NoService
      BY <1>5, <2>2 DEF CloseService, Active!vars
    <2>3. CASE service # NoService
      BY <1>5, <2>1, <2>3 DEF CloseService, Active!Next, Active!Close, Active!Quiet
    <2> QED BY <2>2, <2>3
  <1>6. ASSUME NEW c \in Caller, NEW op \in Ops, Begin(c, op)
        PROVE  [Active!Next]_(Active!vars)
    BY <1>6 DEF Begin, services, Active!vars
  <1>7. CASE UNCHANGED vars
    BY <1>7 DEF vars, Active!vars
  <1> QED
    BY <1>2, <1>3, <1>4, <1>5, <1>6, <1>7, ActiveStutter DEF Next, Proceed

(* Calls under way keep their service, and it is replaced or closed        *)
(* between calls only: the server implements ActiveGeneration.             *)
THEOREM ImplementsActiveCorrect == Spec => ImplementsActive
  <1>1. Init => Active!Init
    BY ReloadAssumption DEF Init, Active!Init, Service
  <1>2. IInv /\ [Next]_vars => [Active!Next]_(Active!vars)
    BY ActiveStep
  <1> QED BY <1>1, <1>2, InvCorrect, PTL DEF Spec, ImplementsActive, Active!Spec

=============================================================================

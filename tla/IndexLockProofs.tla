-------------------------- MODULE IndexLockProofs ---------------------------
(***************************************************************************)
(* Proofs about IndexLock, for any number of callers and services and any  *)
(* limit: one budget for the waits of an update, no wait beyond the        *)
(* caller's own deadline, and no "busy" without contention.                *)
(***************************************************************************)
EXTENDS IndexLock, TLAPS

-----------------------------------------------------------------------------
(* The inductive invariant                                                 *)

\* Steps of a caller behind the gate of its service, and those at which the
\* budget of an update is in its context.
Gated == {"writer", "work", "reopen", "ungate"}
Budgeted == {"gate", "writer", "work", "reopen"}

\* One update of a service at a time is behind its gate, so that nobody else
\* opens or closes the store of an upgrade that is being finalized.
GateInv ==
  /\ \A c \in Caller : pc[c] \in Gated => gate[Home[c]]
  /\ \A c, d \in Caller : pc[c] \in Gated /\ pc[d] \in Gated /\ Home[c] = Home[d] => c = d
  /\ \A c \in Caller : pc[c] = "reopen" => store[Home[c]] = "upgrading"

\* Whoever works has the writer lock, alone, and whoever reads shares it.
WriterInv ==
  /\ \A c \in Caller : c \in writer.exclusive <=> pc[c] = "work"
  /\ \A c \in Caller : c \in writer.shared <=> pc[c] = "read"

\* What an update has waited comes out of its budget, and until it works
\* nothing else does.
BudgetInv ==
  \A c \in Caller :
    /\ waited[c].update <= WaitLimit
    /\ pc[c] \in Budgeted => waited[c].update + budget[c] <= WaitLimit
    /\ pc[c] \in {"gate", "writer"} => waited[c].update + budget[c] = WaitLimit

\* A read begins to wait when the update, if any, is over.
ReadInv ==
  \A c \in Caller :
    /\ waited[c].read <= WaitLimit
    /\ pc[c] \in Gated \cup {"gate"} => waited[c].read = 0
    /\ pc[c] = "reader" => waited[c].read + left[c] <= WaitLimit

\* The caller's own deadline comes nearer with every tick of its call.
OwnInv ==
  \A c \in Caller :
    call[c].limit # Forever =>
      /\ Waited(c) <= call[c].limit
      /\ pc[c] # "idle" => Waited(c) + own[c] <= call[c].limit

\* A wait ends with the first of the deadlines it is under, and with one that
\* has come.
WaitInv ==
  \A c \in Caller :
    /\ pc[c] \in Waiting => left[c] <= own[c]
    /\ pc[c] \in {"gate", "writer", "reopen"} => left[c] <= budget[c]
    /\ pc[c] \in {"gate", "writer"} => left[c] \in {budget[c], own[c]}
    /\ pc[c] = "reader" => left[c] = own[c] \/ waited[c].read + left[c] = WaitLimit

IInv ==
  /\ TypeOK /\ GateInv /\ WriterInv /\ BudgetInv /\ ReadInv /\ OwnInv /\ WaitInv
  /\ BusyMeansContended

-----------------------------------------------------------------------------
(* Lemmas                                                                  *)

\* A set of three numbers has a smallest one.
LEMMA MinOfThree ==
  ASSUME NEW a \in Nat, NEW b \in Nat, NEW d \in Nat
  PROVE  /\ Min({a, b, d}) \in {a, b, d}
         /\ \A x \in {a, b, d} : Min({a, b, d}) <= x
  <1> QED BY DEF Min

\* A wait is under three deadlines, and ends with one of them.
LEMMA WaitContextIsFirst ==
  ASSUME NEW b \in Deadline, NEW o \in Deadline
  PROVE  /\ WaitContext(b, o) \in Deadline
         /\ WaitContext(b, o) <= WaitLimit /\ WaitContext(b, o) <= b /\ WaitContext(b, o) <= o
         /\ WaitContext(b, o) \in {WaitLimit, b, o}
  <1> QED BY MinOfThree, LimitAssumption DEF WaitContext, Deadline

\* The clocks of the callers are numbers.
LEMMA Clocks ==
  ASSUME TypeOK
  PROVE  \A c \in Caller :
           /\ own[c] \in Deadline /\ budget[c] \in Deadline /\ left[c] \in Deadline
           /\ own[c] \in Nat /\ budget[c] \in Nat /\ left[c] \in Nat
           /\ own[c] <= Forever /\ budget[c] <= Forever /\ left[c] <= Forever
           /\ waited[c].update \in Nat /\ waited[c].read \in Nat
           /\ call[c].limit \in Nat /\ call[c].limit <= Forever
  <1> USE LimitAssumption
  <1> SUFFICES ASSUME NEW c \in Caller
               PROVE  /\ own[c] \in Deadline /\ budget[c] \in Deadline /\ left[c] \in Deadline
                      /\ waited[c].update \in Nat /\ waited[c].read \in Nat
                      /\ call[c].limit \in Deadline
    BY DEF Deadline
  <1>1. call[c] \in [update: BOOLEAN, read: BOOLEAN, limit: OwnLimits \cup {Forever}]
    BY DEF TypeOK
  <1>2. call[c].limit \in OwnLimits \cup {Forever}
    BY <1>1
  <1>3. \A limit \in OwnLimits \cup {Forever} : limit \in Deadline
    BY DEF Deadline
  <1>4. call[c].limit \in Deadline
    BY <1>2, <1>3
  <1> QED BY <1>4 DEF TypeOK

\* The writer lock is held by one exclusively, or by any number shared.
LEMMA WriterShape ==
  ASSUME TypeOK
  PROVE  /\ writer = [exclusive |-> writer.exclusive, shared |-> writer.shared]
         /\ writer.shared \subseteq Caller
         /\ writer.exclusive # {} => writer.shared = {} /\ writer \in Exclusively
  BY DEF TypeOK, Exclusively, Shared

-----------------------------------------------------------------------------
(* Steps                                                                   *)

\* A call begins with deadlines that have not come.
LEMMA BeginKeeps ==
  ASSUME IInv, NEW c \in Caller,
         NEW u \in BOOLEAN, NEW r \in BOOLEAN, NEW limit \in OwnLimits \cup {Forever},
         Begin(c, u, r, limit)
  PROVE  IInv'
  <1> USE LimitAssumption
  <1>1. /\ TypeOK /\ GateInv /\ WriterInv /\ BudgetInv /\ ReadInv /\ OwnInv /\ WaitInv
        /\ BusyMeansContended
    BY DEF IInv
  <1>2. pc[c] = "idle"
    BY DEF Begin
  <1>3. limit \in Deadline /\ limit > 0 /\ WaitLimit \in Deadline /\ Forever \in Deadline
    BY DEF Deadline
  <1>4. /\ own'[c] = limit /\ call'[c].limit = limit
        /\ waited'[c].update = 0 /\ waited'[c].read = 0
        /\ result'[c] = "none"
        /\ u => pc'[c] = "gate" /\ budget'[c] = WaitLimit
        /\ ~u => pc'[c] = "reader" /\ budget'[c] = Forever
        /\ left'[c] = WaitContext(budget'[c], limit)
    BY <1>1 DEF Begin, Goto, TypeOK, WithWaitDeadline, NotWaited
  <1>5. \A d \in Caller \ {c} :
          /\ pc'[d] = pc[d] /\ own'[d] = own[d] /\ budget'[d] = budget[d] /\ left'[d] = left[d]
          /\ waited'[d] = waited[d] /\ result'[d] = result[d] /\ call'[d] = call[d]
    BY DEF Begin, Goto
  <1>6. /\ left'[c] \in Deadline /\ left'[c] <= WaitLimit /\ left'[c] <= limit
        /\ left'[c] <= budget'[c] /\ left'[c] \in {WaitLimit, budget'[c], limit}
    BY <1>3, <1>4, WaitContextIsFirst
  <1>7. UNCHANGED <<gate, writer, store, taken>>
    BY DEF Begin
  <1>8. TypeOK'
    BY <1>1, <1>3, <1>6 DEF TypeOK, Steps, Waiting, Begin, Goto, NotWaited, Result,
       WithWaitDeadline
  <1>9. GateInv'
    BY <1>1, <1>4, <1>5, <1>7 DEF GateInv, Gated
  <1>10. WriterInv'
    BY <1>1, <1>2, <1>4, <1>5, <1>7 DEF WriterInv
  <1>11. BudgetInv'
    BY <1>1, <1>4, <1>5 DEF BudgetInv, Budgeted
  <1>12. ReadInv'
    BY <1>1, <1>4, <1>5, <1>6 DEF ReadInv
  <1>13. OwnInv'
    BY <1>1, <1>4, <1>5 DEF OwnInv, Waited
  <1>14. WaitInv'
    BY <1>1, <1>4, <1>5, <1>6 DEF WaitInv
  <1>15. BusyMeansContended'
    BY <1>1, <1>4, <1>5, <1>7 DEF BusyMeansContended, Busy, Waited
  <1> QED BY <1>8, <1>9, <1>10, <1>11, <1>12, <1>13, <1>14, <1>15 DEF IInv

\* Behind the gate there is nobody else.
LEMMA EnterGateKeeps ==
  ASSUME IInv, NEW c \in Caller, EnterGate(c)
  PROVE  IInv'
  <1> USE LimitAssumption
  <1>1. /\ TypeOK /\ GateInv /\ WriterInv /\ BudgetInv /\ ReadInv /\ OwnInv /\ WaitInv
        /\ BusyMeansContended
    BY DEF IInv
  <1>2. \A d \in Caller : /\ own[d] \in Nat /\ budget[d] \in Nat /\ left[d] \in Nat
                          /\ own[d] <= Forever /\ budget[d] <= Forever
                          /\ waited[d].update \in Nat /\ waited[d].read \in Nat
                          /\ call[d].limit \in Nat /\ call[d].limit <= Forever
    BY <1>1, Clocks
  <1>3. pc[c] = "gate" /\ ~gate[Home[c]] /\ \A d \in Caller : Home[d] \in Service
    BY DEF EnterGate, MayAcquire, Available
  <1>4. /\ pc'[c] = "writer"
        /\ left'[c] = WaitContext(budget[c], own[c])
        /\ gate'[Home[c]] = TRUE /\ \A s \in Service \ {Home[c]} : gate'[s] = gate[s]
    BY <1>1 DEF EnterGate, Goto, TypeOK, StartWait
  <1>5. \A d \in Caller \ {c} : pc'[d] = pc[d] /\ left'[d] = left[d]
    BY DEF EnterGate, Goto, StartWait
  <1>6. /\ left'[c] \in Deadline /\ left'[c] <= WaitLimit /\ left'[c] <= own[c]
        /\ left'[c] <= budget[c] /\ left'[c] \in {budget[c], own[c]}
    <2>1. own[c] \in Deadline /\ budget[c] \in Deadline /\ budget[c] <= WaitLimit
      BY <1>1, <1>2, <1>3 DEF TypeOK, BudgetInv
    <2>2. /\ left'[c] \in Deadline /\ left'[c] <= WaitLimit /\ left'[c] <= own[c]
          /\ left'[c] <= budget[c] /\ left'[c] \in {WaitLimit, budget[c], own[c]}
      BY <1>4, <2>1, WaitContextIsFirst
    <2> QED BY <1>2, <2>1, <2>2
  <1>7. UNCHANGED <<call, own, budget, writer, store, taken, waited, result>>
    BY DEF EnterGate
  <1>8. TypeOK'
    BY <1>1, <1>6 DEF TypeOK, Steps, Waiting, EnterGate, Goto, StartWait
  <1>9. GateInv'
    BY <1>1, <1>3, <1>4, <1>5, <1>7 DEF GateInv
  <1>10. WriterInv'
    BY <1>1, <1>3, <1>4, <1>5, <1>7 DEF WriterInv
  <1>11. BudgetInv'
    BY <1>1, <1>3, <1>5, <1>7 DEF BudgetInv
  <1>12. ReadInv'
    BY <1>1, <1>3, <1>4, <1>5, <1>7 DEF ReadInv
  <1>13. OwnInv'
    BY <1>1, <1>3, <1>5, <1>7 DEF OwnInv, Waited
  <1>14. WaitInv'
    BY <1>1, <1>4, <1>5, <1>6, <1>7 DEF WaitInv
  <1>15. BusyMeansContended'
    BY <1>1, <1>7 DEF BusyMeansContended, Busy, Waited
  <1> QED BY <1>8, <1>9, <1>10, <1>11, <1>12, <1>13, <1>14, <1>15 DEF IInv

\* Whoever works has waited no longer than its budget.
LEMMA AcquireWriterKeeps ==
  ASSUME IInv, NEW c \in Caller, AcquireWriter(c)
  PROVE  IInv'
  <1> USE LimitAssumption
  <1>1. /\ TypeOK /\ GateInv /\ WriterInv /\ BudgetInv /\ ReadInv /\ OwnInv /\ WaitInv
        /\ BusyMeansContended
    BY DEF IInv
  <1>2. pc[c] = "writer" /\ writer.exclusive = {} /\ writer.shared = {}
    BY DEF AcquireWriter, MayAcquire, Available
  <1>3. pc'[c] = "work"
    BY <1>1 DEF AcquireWriter, Goto, TypeOK
  <1>4. \A d \in Caller \ {c} : pc'[d] = pc[d]
    BY DEF AcquireWriter, Goto
  <1>5. writer' = [exclusive |-> {c}, shared |-> {}]
    BY <1>1, <1>2, WriterShape DEF AcquireWriter
  <1>6. UNCHANGED <<call, own, budget, left, gate, store, taken, waited, result>>
    BY DEF AcquireWriter
  <1>7. TypeOK'
    BY <1>1, <1>5 DEF TypeOK, Steps, AcquireWriter, Goto, Exclusively
  <1>8. GateInv'
    BY <1>1, <1>2, <1>3, <1>4, <1>6 DEF GateInv, Gated
  <1>9. WriterInv'
    BY <1>1, <1>2, <1>3, <1>4, <1>5 DEF WriterInv
  <1>10. BudgetInv'
    BY <1>1, <1>2, <1>4, <1>6 DEF BudgetInv
  <1>11. ReadInv'
    BY <1>1, <1>2, <1>3, <1>4, <1>6 DEF ReadInv, Gated
  <1>12. OwnInv'
    BY <1>1, <1>2, <1>4, <1>6 DEF OwnInv, Waited
  <1>13. WaitInv'
    BY <1>1, <1>3, <1>4, <1>6 DEF WaitInv, Waiting
  <1>14. BusyMeansContended'
    BY <1>1, <1>6 DEF BusyMeansContended, Busy, Waited
  <1> QED BY <1>7, <1>8, <1>9, <1>10, <1>11, <1>12, <1>13, <1>14 DEF IInv

\* The store of an upgrade is opened again by the update behind the gate.
LEMMA ReopenKeeps ==
  ASSUME IInv, NEW c \in Caller, Reopen(c)
  PROVE  IInv'
  <1> USE LimitAssumption
  <1>1. /\ TypeOK /\ GateInv /\ WriterInv /\ BudgetInv /\ ReadInv /\ OwnInv /\ WaitInv
        /\ BusyMeansContended
    BY DEF IInv
  <1>2. pc[c] = "reopen" /\ store[Home[c]] = "upgrading"
    BY <1>1 DEF Reopen, GateInv
  <1>3. /\ pc'[c] = "ungate"
        /\ store' = [store EXCEPT ![Home[c]] = "open"]
    BY <1>1 DEF Reopen, Goto, TypeOK
  <1>4. \A d \in Caller \ {c} : pc'[d] = pc[d]
    BY DEF Reopen, Goto
  <1>5. UNCHANGED <<call, own, budget, left, gate, writer, taken, waited, result>>
    BY DEF Reopen
  <1>6. TypeOK'
    BY <1>1 DEF TypeOK, Steps, Reopen, Goto
  <1>7. GateInv'
    BY <1>1, <1>2, <1>3, <1>4, <1>5 DEF GateInv, Gated
  <1>8. WriterInv'
    BY <1>1, <1>2, <1>3, <1>4, <1>5 DEF WriterInv
  <1>9. BudgetInv'
    BY <1>1, <1>3, <1>4, <1>5 DEF BudgetInv, Budgeted
  <1>10. ReadInv'
    BY <1>1, <1>2, <1>3, <1>4, <1>5 DEF ReadInv, Gated
  <1>11. OwnInv'
    BY <1>1, <1>2, <1>4, <1>5 DEF OwnInv, Waited
  <1>12. WaitInv'
    BY <1>1, <1>3, <1>4, <1>5 DEF WaitInv, Waiting
  <1>13. BusyMeansContended'
    BY <1>1, <1>2, <1>3, <1>5 DEF BusyMeansContended, Busy, Waited
  <1> QED BY <1>6, <1>7, <1>8, <1>9, <1>10, <1>11, <1>12, <1>13 DEF IInv

\* Readers share the writer lock.
LEMMA AcquireReaderKeeps ==
  ASSUME IInv, NEW c \in Caller, AcquireReader(c)
  PROVE  IInv'
  <1> USE LimitAssumption
  <1>1. /\ TypeOK /\ GateInv /\ WriterInv /\ BudgetInv /\ ReadInv /\ OwnInv /\ WaitInv
        /\ BusyMeansContended
    BY DEF IInv
  <1>2. pc[c] = "reader" /\ writer.exclusive = {}
    BY DEF AcquireReader, MayAcquire, Available
  <1>3. pc'[c] = "read"
    BY <1>1 DEF AcquireReader, Goto, TypeOK
  <1>4. \A d \in Caller \ {c} : pc'[d] = pc[d]
    BY DEF AcquireReader, Goto
  <1>5. writer' = [exclusive |-> {}, shared |-> writer.shared \cup {c}]
    BY <1>1, <1>2, WriterShape DEF AcquireReader
  <1>6. UNCHANGED <<call, own, budget, left, gate, store, taken, waited, result>>
    BY DEF AcquireReader
  <1>7. writer' \in Exclusively \cup Shared
    BY <1>1, <1>5, WriterShape DEF Shared
  <1>8. TypeOK'
    BY <1>1, <1>7 DEF TypeOK, Steps, AcquireReader, Goto
  <1>9. GateInv'
    BY <1>1, <1>3, <1>4, <1>6 DEF GateInv, Gated
  <1>10. WriterInv'
    BY <1>1, <1>2, <1>3, <1>4, <1>5 DEF WriterInv
  <1>11. BudgetInv'
    BY <1>1, <1>3, <1>4, <1>6 DEF BudgetInv, Budgeted
  <1>12. ReadInv'
    BY <1>1, <1>3, <1>4, <1>6 DEF ReadInv, Gated
  <1>13. OwnInv'
    BY <1>1, <1>2, <1>4, <1>6 DEF OwnInv, Waited
  <1>14. WaitInv'
    BY <1>1, <1>3, <1>4, <1>6 DEF WaitInv, Waiting
  <1>15. BusyMeansContended'
    BY <1>1, <1>6 DEF BusyMeansContended, Busy, Waited
  <1> QED BY <1>8, <1>9, <1>10, <1>11, <1>12, <1>13, <1>14, <1>15 DEF IInv

\* The lock is given back.
LEMMA EndReadKeeps ==
  ASSUME IInv, NEW c \in Caller, EndRead(c)
  PROVE  IInv'
  <1> USE LimitAssumption
  <1>1. /\ TypeOK /\ GateInv /\ WriterInv /\ BudgetInv /\ ReadInv /\ OwnInv /\ WaitInv
        /\ BusyMeansContended
    BY DEF IInv
  <1>2. pc[c] = "read"
    BY DEF EndRead
  <1>3. pc'[c] = "idle" /\ result'[c] \in {"ok", "failed"}
    BY <1>1 DEF EndRead, Goto, TypeOK
  <1>4. \A d \in Caller \ {c} : pc'[d] = pc[d] /\ result'[d] = result[d]
    BY DEF EndRead, Goto
  <1>5. writer' = [exclusive |-> writer.exclusive, shared |-> writer.shared \ {c}]
    BY <1>1, WriterShape DEF EndRead
  <1>6. writer' \in Exclusively \cup Shared
    BY <1>1, <1>5, WriterShape DEF Shared
  <1>7. UNCHANGED <<call, own, budget, left, gate, store, taken, waited>>
    BY DEF EndRead
  <1>8. TypeOK'
    BY <1>1, <1>6 DEF TypeOK, Steps, EndRead, Goto, Result
  <1>9. GateInv'
    BY <1>1, <1>3, <1>4, <1>7 DEF GateInv, Gated
  <1>10. WriterInv'
    BY <1>1, <1>2, <1>3, <1>4, <1>5 DEF WriterInv
  <1>11. BudgetInv'
    BY <1>1, <1>3, <1>4, <1>7 DEF BudgetInv, Budgeted
  <1>12. ReadInv'
    BY <1>1, <1>3, <1>4, <1>7 DEF ReadInv, Gated
  <1>13. OwnInv'
    BY <1>1, <1>3, <1>4, <1>7 DEF OwnInv, Waited
  <1>14. WaitInv'
    BY <1>1, <1>3, <1>4, <1>7 DEF WaitInv, Waiting
  <1>15. BusyMeansContended'
    BY <1>1, <1>3, <1>4, <1>7 DEF BusyMeansContended, Busy, Waited
  <1> QED BY <1>8, <1>9, <1>10, <1>11, <1>12, <1>13, <1>14, <1>15 DEF IInv

\* A wait that expires has been as long as the limit.
LEMMA ExpireKeeps ==
  ASSUME IInv, NEW c \in Caller, Expire(c)
  PROVE  IInv'
  <1> USE LimitAssumption
  <1>1. /\ TypeOK /\ GateInv /\ WriterInv /\ BudgetInv /\ ReadInv /\ OwnInv /\ WaitInv
        /\ BusyMeansContended
    BY DEF IInv
  <1>2. \A d \in Caller : /\ own[d] \in Nat /\ budget[d] \in Nat /\ left[d] \in Nat
                          /\ own[d] <= Forever /\ budget[d] <= Forever
                          /\ waited[d].update \in Nat /\ waited[d].read \in Nat
                          /\ call[d].limit \in Nat /\ call[d].limit <= Forever
    BY <1>1, Clocks
  <1>3. pc[c] \in Waiting /\ left[c] = 0 /\ \A d \in Caller : Home[d] \in Service
    BY DEF Expire
  <1>4. /\ pc'[c] = (IF pc[c] \in {"writer", "reopen"} THEN "ungate" ELSE "idle")
        /\ result'[c] = (IF own[c] = 0 THEN "failed" ELSE "busy")
    BY <1>1 DEF Expire, Goto, TypeOK
  <1>5. \A d \in Caller \ {c} : pc'[d] = pc[d] /\ result'[d] = result[d]
    BY DEF Expire, Goto
  <1>6. UNCHANGED <<call, own, budget, left, gate, writer, taken, waited>>
    BY DEF Expire
  <1>7. /\ store'[Home[c]] = (IF pc[c] = "reopen" THEN "closed" ELSE store[Home[c]])
        /\ \A s \in Service \ {Home[c]} : store'[s] = store[s]
    BY <1>1 DEF Expire, TypeOK
  <1>8. result' \in [Caller -> Result]
    BY <1>1 DEF Expire, TypeOK, Result
  <1>9. TypeOK'
    BY <1>1, <1>8 DEF TypeOK, Steps, Expire, Goto
  <1>10. GateInv'
    <2>1. \A d \in Caller : pc'[d] \in Gated => pc[d] \in Gated
      BY <1>4, <1>5 DEF Gated
    <2>2. ASSUME NEW d \in Caller, pc'[d] = "reopen" PROVE store'[Home[d]] = "upgrading"
      <3>1. d # c /\ pc[d] = "reopen" /\ store[Home[d]] = "upgrading"
        BY <1>1, <1>4, <1>5, <2>2 DEF GateInv
      <3>2. pc[c] = "reopen" => Home[c] # Home[d]
        BY <1>1, <3>1 DEF GateInv, Gated
      <3> QED BY <1>7, <3>1, <3>2
    <2> QED BY <1>1, <1>6, <2>1, <2>2 DEF GateInv
  <1>11. WriterInv'
    BY <1>1, <1>3, <1>4, <1>5, <1>6 DEF WriterInv, Waiting
  <1>12. BudgetInv'
    BY <1>1, <1>4, <1>5, <1>6 DEF BudgetInv, Budgeted
  <1>13. ReadInv'
    BY <1>1, <1>4, <1>5, <1>6 DEF ReadInv, Gated
  <1>14. OwnInv'
    BY <1>1, <1>4, <1>5, <1>6 DEF OwnInv, Waited
  <1>15. WaitInv'
    BY <1>1, <1>4, <1>5, <1>6 DEF WaitInv, Waiting
  <1>16. BusyMeansContended'
    <2>1. own[c] # 0 /\ pc[c] # "reopen" => Waited(c) > 0
      BY <1>1, <1>2, <1>3 DEF WaitInv, BudgetInv, Waiting, Waited
    <2>2. pc[c] = "reopen" => store'[Home[c]] = "closed"
      BY <1>7
    <2>3. \A d \in Caller : store'[Home[d]] # "closed" => store[Home[d]] # "closed"
      BY <1>7
    <2> QED BY <1>1, <1>4, <1>5, <1>6, <2>1, <2>2, <2>3 DEF BusyMeansContended, Busy, Waited
  <1> QED BY <1>9, <1>10, <1>11, <1>12, <1>13, <1>14, <1>15, <1>16 DEF IInv

\* An update ends its work, and goes on to finalize an upgrade.
LEMMA EndWorkKeeps ==
  ASSUME IInv, NEW c \in Caller, EndWork(c)
  PROVE  IInv'
  <1> USE LimitAssumption
  <1>1. /\ TypeOK /\ GateInv /\ WriterInv /\ BudgetInv /\ ReadInv /\ OwnInv /\ WaitInv
        /\ BusyMeansContended
    BY DEF IInv
  <1>2. pc[c] = "work"
    BY DEF EndWork
  <1>3. /\ pc'[c] \in {"ungate", "reopen"}
        /\ pc'[c] = "reopen" => store[Home[c]] = "upgrading"
        /\ left'[c] = left[c] \/ left'[c] = WaitContext(budget[c], own[c])
        /\ pc'[c] = "reopen" => left'[c] = WaitContext(budget[c], own[c])
        /\ result'[c] \in {result[c], "failed"}
    BY <1>1 DEF EndWork, Goto, TypeOK, StartWait, Failed
  <1>4. \A d \in Caller \ {c} : pc'[d] = pc[d] /\ left'[d] = left[d] /\ result'[d] = result[d]
    BY <1>1 DEF EndWork, Goto, TypeOK, StartWait, Failed
  <1>5. writer' = [exclusive |-> {}, shared |-> writer.shared]
    BY <1>1, WriterShape DEF EndWork
  <1>6. UNCHANGED <<call, own, budget, gate, store, taken, waited>>
    BY DEF EndWork
  <1>7. writer' \in Exclusively \cup Shared
    BY <1>1, <1>5, WriterShape DEF Shared
  <1>8. LET w == WaitContext(budget[c], own[c])
        IN /\ w \in Deadline /\ w <= own[c] /\ w <= budget[c]
    BY <1>1, WaitContextIsFirst DEF TypeOK
  <1>9. left' \in [Caller -> Deadline] /\ result' \in [Caller -> Result]
    BY <1>1, <1>8 DEF EndWork, Failed, StartWait, TypeOK, Result
  <1>10. pc' \in [Caller -> Steps]
    BY <1>1 DEF EndWork, Goto, StartWait, TypeOK, Steps, Waiting
  <1>11. TypeOK'
    BY <1>1, <1>6, <1>7, <1>9, <1>10 DEF TypeOK
  <1>12. GateInv'
    BY <1>1, <1>2, <1>3, <1>4, <1>6 DEF GateInv, Gated
  <1>13. WriterInv'
    <2>1. writer.exclusive = {c}
      BY <1>1, <1>2, WriterShape DEF WriterInv, Exclusively
    <2> QED BY <1>1, <1>3, <1>4, <1>5, <2>1 DEF WriterInv
  <1>14. BudgetInv'
    BY <1>1, <1>2, <1>3, <1>4, <1>6 DEF BudgetInv, Budgeted
  <1>15. ReadInv'
    BY <1>1, <1>2, <1>3, <1>4, <1>6 DEF ReadInv, Gated
  <1>16. OwnInv'
    BY <1>1, <1>2, <1>4, <1>6 DEF OwnInv, Waited
  <1>17. WaitInv'
    BY <1>1, <1>3, <1>4, <1>6, <1>8 DEF WaitInv, Waiting
  <1>18. BusyMeansContended'
    BY <1>1, <1>3, <1>4, <1>6 DEF BusyMeansContended, Busy, Waited
  <1> QED BY <1>11, <1>12, <1>13, <1>14, <1>15, <1>16, <1>17, <1>18 DEF IInv

\* The gate opens, and a read waits with a limit of its own.
LEMMA LeaveGateKeeps ==
  ASSUME IInv, NEW c \in Caller, LeaveGate(c)
  PROVE  IInv'
  <1> USE LimitAssumption
  <1>1. /\ TypeOK /\ GateInv /\ WriterInv /\ BudgetInv /\ ReadInv /\ OwnInv /\ WaitInv
        /\ BusyMeansContended
    BY DEF IInv
  <1>2. pc[c] = "ungate" /\ \A d \in Caller : Home[d] \in Service
    BY DEF LeaveGate
  <1>3. /\ pc'[c] \in {"reader", "idle"} /\ budget'[c] = Forever
        /\ \A s \in Service \ {Home[c]} : gate'[s] = gate[s]
        /\ pc'[c] = "reader" =>
             left'[c] = WaitContext(Forever, own[c]) /\ result'[c] = result[c]
        /\ pc'[c] = "idle" => left'[c] = left[c]
        /\ result'[c] \in {result[c], "ok"}
    BY <1>1 DEF LeaveGate, Goto, TypeOK, ReadBudget
  <1>4. \A d \in Caller \ {c} :
          /\ pc'[d] = pc[d] /\ budget'[d] = budget[d]
          /\ left'[d] = left[d] /\ result'[d] = result[d]
    BY <1>1 DEF LeaveGate, Goto, TypeOK
  <1>5. UNCHANGED <<call, own, writer, store, taken, waited>>
    BY DEF LeaveGate
  <1>6. LET w == WaitContext(Forever, own[c])
        IN /\ w \in Deadline /\ w <= WaitLimit /\ w <= own[c] /\ w \in {WaitLimit, own[c]}
    <2>1. own[c] \in Deadline /\ Forever \in Deadline
      BY <1>1 DEF TypeOK, Deadline
    <2>2. LET w == WaitContext(Forever, own[c])
          IN /\ w \in Deadline /\ w <= WaitLimit /\ w <= own[c]
             /\ w \in {WaitLimit, Forever, own[c]}
      BY <2>1, WaitContextIsFirst
    <2> QED BY <2>2
  <1>7. left' \in [Caller -> Deadline] /\ budget' \in [Caller -> Deadline]
    BY <1>1, <1>6 DEF LeaveGate, TypeOK, ReadBudget, Deadline
  <1>8. /\ gate' \in [Service -> BOOLEAN] /\ result' \in [Caller -> Result]
        /\ pc' \in [Caller -> Steps]
    BY <1>1 DEF LeaveGate, TypeOK, Result, Goto, Steps, Waiting
  <1>9. TypeOK'
    BY <1>1, <1>5, <1>7, <1>8 DEF TypeOK
  <1>10. GateInv'
    BY <1>1, <1>2, <1>3, <1>4, <1>5 DEF GateInv, Gated
  <1>11. WriterInv'
    BY <1>1, <1>2, <1>3, <1>4, <1>5 DEF WriterInv
  <1>12. BudgetInv'
    BY <1>1, <1>3, <1>4, <1>5 DEF BudgetInv, Budgeted
  <1>13. ReadInv'
    BY <1>1, <1>2, <1>3, <1>4, <1>5, <1>6 DEF ReadInv, Gated, Deadline
  <1>14. OwnInv'
    BY <1>1, <1>2, <1>4, <1>5 DEF OwnInv, Waited
  <1>15. WaitInv'
    <2>1. waited[c].read = 0
      BY <1>1, <1>2 DEF ReadInv, Gated
    <2>2. /\ pc'[c] = "reader" => left'[c] <= own'[c]
          /\ pc'[c] = "reader" => left'[c] = own'[c] \/ waited'[c].read + left'[c] = WaitLimit
      BY <1>3, <1>5, <1>6, <2>1
    <2> QED BY <1>1, <1>3, <1>4, <1>5, <2>2 DEF WaitInv, Waiting
  <1>16. BusyMeansContended'
    BY <1>1, <1>3, <1>4, <1>5 DEF BusyMeansContended, Busy, Waited
  <1> QED BY <1>9, <1>10, <1>11, <1>12, <1>13, <1>14, <1>15, <1>16 DEF IInv

\* A store that is opened was absent.
LEMMA OpenServiceKeeps ==
  ASSUME IInv, NEW s \in Service, OpenService(s)
  PROVE  IInv'
  <1>1. /\ TypeOK /\ GateInv /\ WriterInv /\ BudgetInv /\ ReadInv /\ OwnInv /\ WaitInv
        /\ BusyMeansContended
    BY DEF IInv
  <1>2. /\ store[s] = "absent" /\ store'[s] = "open"
        /\ \A t \in Service \ {s} : store'[t] = store[t]
    BY <1>1 DEF OpenService, TypeOK
  <1>3. UNCHANGED <<pc, call, own, budget, left, gate, writer, taken, waited, result>>
    BY DEF OpenService
  <1>4. \A d \in Caller : Home[d] \in Service
    BY LimitAssumption
  <1>5. TypeOK'
    BY <1>1 DEF OpenService, TypeOK
  <1>6. GateInv'
    BY <1>1, <1>2, <1>3, <1>4 DEF GateInv
  <1>7. WriterInv' /\ BudgetInv' /\ ReadInv'
    BY <1>1, <1>3 DEF WriterInv, BudgetInv, ReadInv
  <1>8. OwnInv' /\ WaitInv'
    BY <1>1, <1>3 DEF OwnInv, WaitInv, Waited
  <1>9. BusyMeansContended'
    BY <1>1, <1>2, <1>3, <1>4 DEF BusyMeansContended, Busy, Waited
  <1> QED BY <1>5, <1>6, <1>7, <1>8, <1>9 DEF IInv

\* The invariant does not speak of other sessions.
LEMMA OtherSessionKeeps ==
  ASSUME IInv, OtherSession
  PROVE  IInv'
  <1>1. /\ TypeOK /\ GateInv /\ WriterInv /\ BudgetInv /\ ReadInv /\ OwnInv /\ WaitInv
        /\ BusyMeansContended
    BY DEF IInv
  <1>2. UNCHANGED <<pc, call, own, budget, left, gate, writer, store, waited, result>>
    BY DEF OtherSession
  <1>3. TypeOK'
    BY <1>1 DEF OtherSession, TypeOK
  <1>4. GateInv' /\ WriterInv' /\ BudgetInv' /\ ReadInv'
    BY <1>1, <1>2 DEF GateInv, WriterInv, BudgetInv, ReadInv
  <1>5. OwnInv' /\ WaitInv' /\ BusyMeansContended'
    BY <1>1, <1>2 DEF OwnInv, WaitInv, BusyMeansContended, Busy, Waited
  <1> QED BY <1>3, <1>4, <1>5 DEF IInv

\* A deadline comes nearer and does not pass.
LEMMA SoonerIsADeadline ==
  ASSUME NEW d \in Deadline
  PROVE  /\ Sooner(d) \in Deadline
         /\ Sooner(d) <= d
         /\ d # 0 /\ d # Forever => Sooner(d) = d - 1
         /\ d = Forever => Sooner(d) = Forever
  BY LimitAssumption DEF Sooner, Deadline

\* Time passes while every wait is before its deadline: what is waited is taken
\* from each deadline that the wait is under.
LEMMA TickKeeps ==
  ASSUME IInv, Tick
  PROVE  IInv'
  <1> USE LimitAssumption
  <1>1. /\ TypeOK /\ GateInv /\ WriterInv /\ BudgetInv /\ ReadInv /\ OwnInv /\ WaitInv
        /\ BusyMeansContended
    BY DEF IInv
  <1>2. \A d \in Caller : /\ own[d] \in Nat /\ budget[d] \in Nat /\ left[d] \in Nat
                          /\ own[d] <= Forever /\ budget[d] <= Forever
                          /\ waited[d].update \in Nat /\ waited[d].read \in Nat
                          /\ call[d].limit \in Nat /\ call[d].limit <= Forever
    BY <1>1, Clocks
  <1>3. UNCHANGED <<pc, call, gate, writer, store, taken, result>>
    BY DEF Tick
  <1>4. \A c \in Caller :
          /\ pc[c] \in Waiting => left[c] > 0 /\ left'[c] = left[c] - 1
          /\ pc[c] \notin Waiting => left'[c] = left[c]
    BY DEF Tick, Waits
  <1>5. \A c \in Caller :
          /\ own'[c] \in Deadline /\ own'[c] \in Nat
          /\ pc[c] = "idle" => own'[c] = own[c]
          /\ own'[c] <= own[c]
          /\ pc[c] # "idle" /\ own[c] # 0 /\ own[c] # Forever => own'[c] = own[c] - 1
          /\ own[c] = Forever => own'[c] = Forever
    BY <1>1, SoonerIsADeadline DEF Tick, TypeOK, Deadline
  <1>6. \A c \in Caller :
          /\ budget'[c] \in Deadline /\ budget'[c] \in Nat
          /\ budget'[c] <= budget[c]
          /\ pc[c] # "idle" /\ budget[c] # 0 /\ budget[c] # Forever =>
               budget'[c] = budget[c] - 1
          /\ budget[c] = Forever => budget'[c] = Forever
    BY <1>1, SoonerIsADeadline DEF Tick, TypeOK, Deadline
  <1>7. \A c \in Caller :
          /\ waited'[c] \in [update: Nat, read: Nat]
          /\ pc[c] \notin Waiting =>
               waited'[c].update = waited[c].update /\ waited'[c].read = waited[c].read
          /\ pc[c] = "reader" =>
               waited'[c].update = waited[c].update /\ waited'[c].read = waited[c].read + 1
          /\ pc[c] \in Waiting \ {"reader"} =>
               waited'[c].update = waited[c].update + 1 /\ waited'[c].read = waited[c].read
    <2> TAKE c \in Caller
    <2>1. waited[c] \in [update: Nat, read: Nat]
      BY <1>1 DEF TypeOK
    <2>2. waited'[c] = CASE ~Waits(c) -> waited[c]
                         [] pc[c] = "reader" -> [waited[c] EXCEPT !.read = @ + 1]
                         [] OTHER -> [waited[c] EXCEPT !.update = @ + 1]
      BY DEF Tick
    <2> QED BY <2>1, <2>2 DEF Waits, Waiting
  <1>8. TypeOK'
    <2>1. left' \in [Caller -> Deadline]
      <3>1. \A c \in Caller : left'[c] \in Deadline
        BY <1>1, <1>4 DEF TypeOK, Deadline
      <3> QED BY <3>1 DEF Tick
    <2>2. own' \in [Caller -> Deadline] /\ budget' \in [Caller -> Deadline]
      BY <1>5, <1>6 DEF Tick
    <2>3. waited' \in [Caller -> [update: Nat, read: Nat]]
      BY <1>7 DEF Tick
    <2> QED BY <1>1, <1>3, <2>1, <2>2, <2>3 DEF TypeOK
  <1>9. GateInv' /\ WriterInv'
    BY <1>1, <1>3 DEF GateInv, WriterInv
  <1>10. BudgetInv'
    <2> SUFFICES ASSUME NEW c \in Caller
                 PROVE  /\ waited'[c].update <= WaitLimit
                        /\ pc[c] \in Budgeted => waited'[c].update + budget'[c] <= WaitLimit
                        /\ pc[c] \in {"gate", "writer"} =>
                             waited'[c].update + budget'[c] = WaitLimit
      BY <1>3 DEF BudgetInv
    <2>1. CASE pc[c] \in {"gate", "writer", "reopen"}
      <3>1. left[c] > 0 /\ left[c] <= budget[c] /\ waited[c].update + budget[c] <= WaitLimit
        BY <1>1, <1>4, <2>1 DEF WaitInv, BudgetInv, Budgeted, Waiting
      <3>2. budget'[c] = budget[c] - 1 /\ waited'[c].update = waited[c].update + 1
        BY <1>2, <1>6, <1>7, <2>1, <3>1 DEF Waiting
      <3> QED BY <1>1, <1>2, <3>1, <3>2 DEF BudgetInv
    <2>2. CASE pc[c] \notin {"gate", "writer", "reopen"}
      <3>1. waited'[c].update = waited[c].update
        BY <1>7, <2>2 DEF Waiting
      <3> QED BY <1>1, <1>2, <1>6, <2>2, <3>1 DEF BudgetInv
    <2> QED BY <2>1, <2>2
  <1>11. ReadInv'
    <2> SUFFICES ASSUME NEW c \in Caller
                 PROVE  /\ waited'[c].read <= WaitLimit
                        /\ pc[c] \in Gated \cup {"gate"} => waited'[c].read = 0
                        /\ pc[c] = "reader" => waited'[c].read + left'[c] <= WaitLimit
      BY <1>3 DEF ReadInv
    <2>1. CASE pc[c] = "reader"
      BY <1>1, <1>2, <1>4, <1>7 DEF ReadInv, Gated
    <2>2. CASE pc[c] # "reader"
      BY <1>1, <1>7, <2>2 DEF ReadInv
    <2> QED BY <2>1, <2>2
  <1>12. OwnInv'
    <2> SUFFICES ASSUME NEW c \in Caller, call[c].limit # Forever
                 PROVE  /\ Waited(c)' <= call[c].limit
                        /\ pc[c] # "idle" => Waited(c)' + own'[c] <= call[c].limit
      BY <1>3 DEF OwnInv
    <2>1. CASE pc[c] \in Waiting
      <3>1. left[c] > 0 /\ left[c] <= own[c] /\ Waited(c) + own[c] <= call[c].limit
        BY <1>1, <1>4, <2>1 DEF WaitInv, OwnInv, Waiting
      <3>2. own[c] # 0 /\ own[c] # Forever
        BY <1>2, <3>1 DEF Waited
      <3>3. own'[c] = own[c] - 1 /\ Waited(c)' = Waited(c) + 1
        BY <1>2, <1>5, <1>7, <2>1, <3>2 DEF Waited, Waiting
      <3> QED BY <1>2, <3>1, <3>3 DEF Waited
    <2>2. CASE pc[c] \notin Waiting
      <3>1. Waited(c)' = Waited(c)
        BY <1>7, <2>2 DEF Waited
      <3> QED BY <1>1, <1>2, <1>5, <3>1 DEF OwnInv, Waited
    <2> QED BY <2>1, <2>2
  <1>13. WaitInv'
    <2> SUFFICES ASSUME NEW c \in Caller, pc[c] \in Waiting
                 PROVE  /\ left'[c] <= own'[c]
                        /\ pc[c] \in {"gate", "writer", "reopen"} => left'[c] <= budget'[c]
                        /\ pc[c] \in {"gate", "writer"} => left'[c] \in {budget'[c], own'[c]}
                        /\ pc[c] = "reader" =>
                             left'[c] = own'[c] \/ waited'[c].read + left'[c] = WaitLimit
      BY <1>3 DEF WaitInv, Waiting
    <2>1. /\ left[c] > 0 /\ left'[c] = left[c] - 1 /\ left[c] <= own[c]
          /\ pc[c] \in {"gate", "writer", "reopen"} => left[c] <= budget[c]
      BY <1>1, <1>4 DEF WaitInv
    <2>2. left[c] < Forever
      BY <1>1, <1>2 DEF BudgetInv, ReadInv, WaitInv, Waiting, Budgeted
    <2>3. /\ left'[c] <= own'[c]
          /\ left[c] = own[c] => left'[c] = own'[c]
          /\ pc[c] \in {"gate", "writer", "reopen"} => left'[c] <= budget'[c]
          /\ pc[c] \in {"gate", "writer", "reopen"} /\ left[c] = budget[c] =>
               left'[c] = budget'[c]
      BY <1>2, <1>5, <1>6, <2>1, <2>2 DEF Waiting
    <2> QED BY <1>1, <1>2, <1>7, <2>1, <2>3 DEF WaitInv
  <1>14. BusyMeansContended'
    <2> QED BY <1>1, <1>2, <1>3, <1>7 DEF BusyMeansContended, Busy, Waited
  <1> QED BY <1>8, <1>9, <1>10, <1>11, <1>12, <1>13, <1>14 DEF IInv

LEMMA InitInv == Init => IInv
  <1> SUFFICES ASSUME Init PROVE IInv
    OBVIOUS
  <1> USE LimitAssumption DEF Init
  <1>1. TypeOK
    <2>1. writer \in Exclusively \cup Shared
      BY DEF Shared
    <2>2. Forever \in Deadline
      BY DEF Deadline
    <2>3. waited \in [Caller -> [update: Nat, read: Nat]]
      BY DEF NotWaited
    <2>4. gate \in [Service -> BOOLEAN] /\ taken \in BOOLEAN /\ pc \in [Caller -> Steps]
      BY DEF Steps
    <2>5. result \in [Caller -> Result]
      BY DEF Result
    <2>6. /\ own \in [Caller -> Deadline] /\ budget \in [Caller -> Deadline]
         /\ left \in [Caller -> Deadline]
      BY <2>2
    <2> QED BY <2>1, <2>3, <2>4, <2>5, <2>6 DEF TypeOK
  <1>2. GateInv /\ WriterInv
    BY DEF GateInv, WriterInv, Gated
  <1>3. BudgetInv /\ ReadInv
    BY DEF BudgetInv, ReadInv, Budgeted, NotWaited
  <1>4. OwnInv /\ WaitInv
    BY DEF OwnInv, WaitInv
  <1>5. BusyMeansContended
    BY DEF BusyMeansContended, Busy
  <1> QED BY <1>1, <1>2, <1>3, <1>4, <1>5 DEF IInv

LEMMA StepInv == IInv /\ [Next]_vars => IInv'
  <1> SUFFICES ASSUME IInv, [Next]_vars PROVE IInv'
    OBVIOUS
  <1>1. ASSUME NEW c \in Caller, Step(c) PROVE IInv'
    BY <1>1, BeginKeeps, EnterGateKeeps, AcquireWriterKeeps, EndWorkKeeps, ReopenKeeps,
       LeaveGateKeeps, AcquireReaderKeeps, EndReadKeeps, ExpireKeeps DEF Step
  <1>2. CASE UNCHANGED vars
    <2>1. UNCHANGED <<pc, call, own, budget, left, gate, writer, store, taken, waited, result>>
      BY <1>2 DEF vars
    <2>2. TypeOK' /\ GateInv' /\ WriterInv' /\ BudgetInv' /\ ReadInv'
      BY <2>1 DEF IInv, TypeOK, GateInv, WriterInv, BudgetInv, ReadInv
    <2>3. OwnInv' /\ WaitInv' /\ BusyMeansContended'
      BY <2>1 DEF IInv, OwnInv, WaitInv, BusyMeansContended, Busy, Waited
    <2> QED BY <2>2, <2>3 DEF IInv
  <1> QED BY <1>1, <1>2, OpenServiceKeeps, OtherSessionKeeps, TickKeeps DEF Next

-----------------------------------------------------------------------------
(* Theorems                                                                *)

\* The inductive invariant holds in every reachable state: it says how the
\* deadlines of a call and the time it has waited go together.
THEOREM InvCorrect == Spec => []IInv
  BY InitInv, StepInv, PTL DEF Spec

\* The variables of the waits have their types.
THEOREM TypeCorrect == Spec => []TypeOK
  <1>1. IInv => TypeOK
    BY DEF IInv
  <1> QED BY <1>1, InvCorrect, PTL

(* WithWaitDeadline: the waits of one update, for gate, writer lock and    *)
(* reopened database, take no longer than one wait may, and those of a     *)
(* read neither, whatever the limit is.                                    *)
THEOREM OneBudgetCorrect == Spec => []OneBudget
  <1>1. IInv => OneBudget
    BY DEF IInv, OneBudget, BudgetInv, ReadInv
  <1> QED BY <1>1, InvCorrect, PTL

(* WaitContext is under the caller's context: no call waits beyond the     *)
(* deadline its caller gave it.                                            *)
THEOREM OwnDeadlineFirstCorrect == Spec => []OwnDeadlineFirst
  <1>1. IInv => OwnDeadlineFirst
    BY DEF IInv, OwnDeadlineFirst, OwnInv
  <1> QED BY <1>1, InvCorrect, PTL

(* BusyError: a call that is told that the index is in use has waited for  *)
(* somebody, but for an upgrade that cannot open its database again.       *)
THEOREM BusyMeansContendedCorrect == Spec => []BusyMeansContended
  <1>1. IInv => BusyMeansContended
    BY DEF IInv
  <1> QED BY <1>1, InvCorrect, PTL

=============================================================================

------------------------ MODULE StoreLifecycleProofs ------------------------
(***************************************************************************)
(* Proofs about StoreLifecycle, for any number of sessions and any bounds: *)
(* open databases are leased, files are changed by one session alone, and  *)
(* no interruption of a creation or an upgrade loses the index.            *)
(***************************************************************************)
EXTENDS StoreLifecycle, TLAPS

-----------------------------------------------------------------------------
(* Steps                                                                   *)

\* The four outcomes of Inspect.
InspectWaits(s) == pc[s] = "inspect" /\ opening[s].mode = "shared" /\ SwitchTo(s, "exclusive", ~fileExists(live))
InspectDone(s) == pc[s] = "inspect" /\ opening[s].mode = "exclusive" /\ SwitchTo(s, "shared", opening[s].initializing)
InspectOpens(s) ==
  /\ pc[s] = "inspect" /\ opening[s].mode = "shared" /\ live \in Current
  /\ db' = [db EXCEPT ![s] = "live"]
  /\ pc' = [pc EXCEPT ![s] = "open"]
  /\ UNCHANGED <<disk, lease, opening, pending, reading, bounds>>
InspectBuilds(s) ==
  /\ pc[s] = "inspect" /\ opening[s].mode = "exclusive"
  /\ \/ /\ live = "absent" /\ pc' = [pc EXCEPT ![s] = "create"]
        /\ opening[s].allowUpgrade \/ (backup = "absent" /\ temp = "absent")
     \/ live = "v1" /\ opening[s].allowUpgrade /\ pc' = [pc EXCEPT ![s] = "clearTemp"]
  /\ UNCHANGED <<disk, lease, opening, db, pending, reading, bounds>>

\* A step of one session.
StepOf(s) ==
  \/ \E allow \in BOOLEAN : Open(s, allow)
  \/ AcquireLease(s)
  \/ LookAgain(s)
  \/ WaitExpires(s)
  \/ recoverUpgradeArtifacts(s)
  \/ Reject(s)
  \/ InspectWaits(s)
  \/ InspectDone(s)
  \/ InspectOpens(s)
  \/ InspectBuilds(s)
  \/ Create(s)
  \/ Migrate(s)
  \/ ClearTemp(s)
  \/ CreateTemp(s)
  \/ MigrateTemp(s)
  \/ OpenFails(s)
  \/ StartRead(s)
  \/ EndRead(s)
  \/ BeginIndex(s)
  \/ IndexSucceeds(s)
  \/ IndexFails(s)
  \/ CloseTemp(s)
  \/ ClearBackup(s)
  \/ Stage(s)
  \/ Replace(s)
  \/ Unstage(s)
  \/ DropBackup(s)
  \/ Reopen(s)
  \/ FinalizeFails(s)
  \/ Close(s)
  \/ Crash(s)

\* An opener that found work to do has the lease in the mode the work needs.
LEMMA InspectCases ==
  ASSUME TypeOK, NEW s \in Session, Inspect(s)
  PROVE  InspectWaits(s) \/ InspectDone(s) \/ InspectOpens(s) \/ InspectBuilds(s)
  <1>1. live \in Content /\ backup \in Content /\ temp \in Content /\ opening[s] \in Opening
    BY DEF TypeOK
  <1> USE DEF Inspect, At
  <1>2. CASE opening[s].mode = "shared" /\ NeedsExclusive(s) /\ SwitchTo(s, "exclusive", ~fileExists(live))
    BY <1>2 DEF InspectWaits
  <1>3. CASE opening[s].mode = "exclusive" /\ live \in Current /\ SwitchTo(s, "shared", opening[s].initializing)
    BY <1>3 DEF InspectDone
  <1>4. CASE /\ opening[s].mode = "shared" /\ live \in Current /\ ~NeedsExclusive(s)
             /\ db' = [db EXCEPT ![s] = "live"]
             /\ Goto(s, "open")
             /\ UNCHANGED <<disk, lease, opening, pending, reading, bounds>>
    BY <1>4 DEF InspectOpens, Goto
  <1>5. CASE /\ opening[s].mode = "exclusive" \/ ~NeedsExclusive(s)
             /\ live \notin Current
             /\ Goto(s, IF fileExists(live) THEN "clearTemp" ELSE "create")
             /\ UNCHANGED <<disk, lease, opening, db, pending, reading, bounds>>
    <2>1. live \in {"absent", "v1"} /\ (live = "v1" => opening[s].allowUpgrade)
      BY <1>1, <1>5 DEF Content, Current, Rejects
    <2>2. opening[s].mode = "exclusive"
      BY <1>5, <2>1 DEF NeedsExclusive, fileExists
    <2>3. live = "absent" => opening[s].allowUpgrade \/ (backup = "absent" /\ temp = "absent")
      BY <1>5, <2>2 DEF Rejects, Artifacts, fileExists
    <2> QED BY <1>5, <2>1, <2>2, <2>3 DEF InspectBuilds, Goto, fileExists
  <1> QED BY <1>2, <1>3, <1>4, <1>5

\* Every step is one of those, by one session.
LEMMA StepCases ==
  ASSUME TypeOK, [Next]_vars
  PROVE  UNCHANGED vars \/ \E s \in Session : StepOf(s)
  BY InspectCases DEF Next, StepOf

\* Every variable keeps its type.
LEMMA TypeStep ==
  ASSUME TypeOK, [Next]_vars
  PROVE  TypeOK'
  <1> USE BoundsAssumption DEF TypeOK, Content, Opening, Steps
  <1>1. CASE UNCHANGED vars
    BY <1>1 DEF vars, disk, bounds
  <1>2. ASSUME NEW s \in Session, StepOf(s) PROVE TypeOK'
    <2>1. CASE \E allow \in BOOLEAN : Open(s, allow)
      BY <2>1 DEF Open, At, Goto, disk, bounds, Fresh
    <2>2. CASE AcquireLease(s)
      BY <2>2 DEF AcquireLease, At, Goto, disk, bounds, LeaseIsFree
    <2>3. CASE LookAgain(s)
      BY <2>3 DEF LookAgain, At, Goto, disk, bounds
    <2>4. CASE WaitExpires(s)
      BY <2>4 DEF WaitExpires, At, Goto, disk, bounds, ReturnError
    <2>5. CASE recoverUpgradeArtifacts(s)
      BY <2>5 DEF recoverUpgradeArtifacts, At, Goto, disk, bounds, Restored, fileExists
    <2>6. CASE Reject(s)
      BY <2>6 DEF Reject, At, Goto, disk, bounds, ReturnError, Rejects, NeedsExclusive
    <2>7. CASE InspectWaits(s)
      <3>1. opening[s] \in Opening
        OBVIOUS
      <3>2. [opening[s] EXCEPT !.mode = "exclusive", !.initializing = ~fileExists(live)] \in Opening
        BY <3>1
      <3>3. opening' = [opening EXCEPT ![s] = [opening[s] EXCEPT !.mode = "exclusive",
                                                 !.initializing = ~fileExists(live)]]
        BY <2>7 DEF InspectWaits, SwitchTo
      <3>4. opening' \in [Session -> Opening]
        BY <3>2, <3>3
      <3> QED BY <2>7, <3>4 DEF InspectWaits, At, Goto, disk, bounds, SwitchTo
    <2>8. CASE InspectDone(s)
      <3>1. opening[s] \in Opening
        OBVIOUS
      <3>2. [opening[s] EXCEPT !.mode = "shared", !.initializing = opening[s].initializing] \in Opening
        BY <3>1
      <3>3. opening' = [opening EXCEPT ![s] = [opening[s] EXCEPT !.mode = "shared",
                                                 !.initializing = opening[s].initializing]]
        BY <2>8 DEF InspectDone, SwitchTo
      <3>4. opening' \in [Session -> Opening]
        BY <3>2, <3>3
      <3> QED BY <2>8, <3>4 DEF InspectDone, At, Goto, disk, bounds, SwitchTo
    <2>9. CASE InspectOpens(s)
      BY <2>9 DEF InspectOpens, At, Goto, disk, bounds, Current
    <2>10. CASE InspectBuilds(s)
      BY <2>10 DEF InspectBuilds, At, Goto, disk, bounds, fileExists
    <2>11. CASE Create(s)
      BY <2>11 DEF Create, At, Goto, disk, bounds
    <2>12. CASE Migrate(s)
      BY <2>12 DEF Migrate, At, Goto, disk, bounds
    <2>13. CASE ClearTemp(s)
      BY <2>13 DEF ClearTemp, At, Goto, disk, bounds
    <2>14. CASE CreateTemp(s)
      BY <2>14 DEF CreateTemp, At, Goto, disk, bounds
    <2>15. CASE MigrateTemp(s)
      BY <2>15 DEF MigrateTemp, At, Goto, disk, bounds
    <2>16. CASE OpenFails(s)
      BY <2>16 DEF OpenFails, At, Goto, disk, bounds, ReturnError, Fault
    <2>17. CASE StartRead(s)
      BY <2>17 DEF StartRead, At, Goto, disk, bounds
    <2>18. CASE EndRead(s)
      BY <2>18 DEF EndRead, At, Goto, disk, bounds
    <2>19. CASE BeginIndex(s)
      BY <2>19 DEF BeginIndex, At, Goto, disk, bounds
    <2>20. CASE IndexSucceeds(s)
      BY <2>20 DEF IndexSucceeds, At, Goto, disk, bounds
    <2>21. CASE IndexFails(s)
      BY <2>21 DEF IndexFails, At, Goto, disk, bounds, Fault
    <2>22. CASE CloseTemp(s)
      BY <2>22 DEF CloseTemp, At, Goto, disk, bounds
    <2>23. CASE ClearBackup(s)
      BY <2>23 DEF ClearBackup, At, Goto, disk, bounds
    <2>24. CASE Stage(s)
      BY <2>24 DEF Stage, At, Goto, disk, bounds
    <2>25. CASE Replace(s)
      BY <2>25 DEF Replace, At, Goto, disk, bounds
    <2>26. CASE Unstage(s)
      BY <2>26 DEF Unstage, At, Goto, disk, bounds
    <2>27. CASE DropBackup(s)
      BY <2>27 DEF DropBackup, At, Goto, disk, bounds
    <2>28. CASE Reopen(s)
      BY <2>28 DEF Reopen, At, Goto, disk, bounds, Fresh
    <2>29. CASE FinalizeFails(s)
      BY <2>29 DEF FinalizeFails, At, Goto, disk, bounds, Fault
    <2>30. CASE Close(s)
      BY <2>30 DEF Close, At, Goto, disk, bounds
    <2>31. CASE Crash(s)
      BY <2>31 DEF Crash, At, Goto, disk, bounds
    <2> QED
      BY <1>2, <2>1, <2>2, <2>3, <2>4, <2>5, <2>6, <2>7, <2>8, <2>9, <2>10,
         <2>11, <2>12, <2>13, <2>14, <2>15, <2>16, <2>17, <2>18, <2>19, <2>20,
         <2>21, <2>22, <2>23, <2>24, <2>25, <2>26, <2>27, <2>28, <2>29, <2>30,
         <2>31 DEF StepOf
  <1> QED BY <1>1, <1>2, StepCases

\* The lease is held in the mode, and at the steps, that need it.
LEMMA LeaseStep ==
  ASSUME TypeOK, LeaseInv, HandleInv, [Next]_vars
  PROVE  LeaseInv'
  <1> USE DEF LeaseInv, TypeOK, Alone, OpeningSteps, SwapSteps, Opening
  <1>1. CASE UNCHANGED vars
    BY <1>1 DEF vars, disk, bounds
  <1>2. ASSUME NEW s \in Session, StepOf(s) PROVE LeaseInv'
    <2>1. CASE \E allow \in BOOLEAN : Open(s, allow)
      BY <2>1 DEF Open, At, Goto, disk, bounds, Fresh
    <2>2. CASE AcquireLease(s)
      BY <2>2 DEF AcquireLease, At, Goto, disk, bounds, LeaseIsFree
    <2>3. CASE LookAgain(s)
      BY <2>3 DEF LookAgain, At, Goto, disk, bounds
    <2>4. CASE WaitExpires(s)
      BY <2>4 DEF WaitExpires, At, Goto, disk, bounds, ReturnError
    <2>5. CASE recoverUpgradeArtifacts(s)
      <3>1. pc' = pc \/ pc' = [pc EXCEPT ![s] = "inspect"]
        BY <2>5 DEF recoverUpgradeArtifacts, Goto
      <3>2. At(s, "recover") /\ UNCHANGED <<lease, opening, db, pending>>
        BY <2>5 DEF recoverUpgradeArtifacts
      <3> QED BY <3>1, <3>2 DEF At
    <2>6. CASE Reject(s)
      BY <2>6 DEF Reject, At, Goto, disk, bounds, ReturnError, Rejects, NeedsExclusive
    <2>7. CASE InspectWaits(s)
      BY <2>7 DEF InspectWaits, At, Goto, disk, bounds, SwitchTo, fileExists
    <2>8. CASE InspectDone(s)
      BY <2>8 DEF InspectDone, At, Goto, disk, bounds, SwitchTo, Current, fileExists
    <2>9. CASE InspectOpens(s)
      BY <2>9 DEF InspectOpens, At, Goto, disk, bounds, Current
    <2>10. CASE InspectBuilds(s)
      BY <2>10 DEF InspectBuilds, At, Goto, disk, bounds, fileExists
    <2>11. CASE Create(s)
      BY <2>11 DEF Create, At, Goto, disk, bounds
    <2>12. CASE Migrate(s)
      BY <2>12 DEF Migrate, At, Goto, disk, bounds
    <2>13. CASE ClearTemp(s)
      BY <2>13 DEF ClearTemp, At, Goto, disk, bounds
    <2>14. CASE CreateTemp(s)
      BY <2>14 DEF CreateTemp, At, Goto, disk, bounds
    <2>15. CASE MigrateTemp(s)
      BY <2>15 DEF MigrateTemp, At, Goto, disk, bounds
    <2>16. CASE OpenFails(s)
      BY <2>16 DEF OpenFails, At, Goto, disk, bounds, ReturnError, Fault
    <2>17. CASE StartRead(s)
      BY <2>17 DEF StartRead, At, Goto, disk, bounds
    <2>18. CASE EndRead(s)
      BY <2>18 DEF EndRead, At, Goto, disk, bounds
    <2>19. CASE BeginIndex(s)
      BY <2>19 DEF BeginIndex, At, Goto, disk, bounds
    <2>20. CASE IndexSucceeds(s)
      BY <2>20 DEF IndexSucceeds, At, Goto, disk, bounds, HandleInv, Usable, Upgrading
    <2>21. CASE IndexFails(s)
      BY <2>21 DEF IndexFails, At, Goto, disk, bounds, Fault
    <2>22. CASE CloseTemp(s)
      BY <2>22 DEF CloseTemp, At, Goto, disk, bounds
    <2>23. CASE ClearBackup(s)
      BY <2>23 DEF ClearBackup, At, Goto, disk, bounds
    <2>24. CASE Stage(s)
      BY <2>24 DEF Stage, At, Goto, disk, bounds
    <2>25. CASE Replace(s)
      BY <2>25 DEF Replace, At, Goto, disk, bounds
    <2>26. CASE Unstage(s)
      BY <2>26 DEF Unstage, At, Goto, disk, bounds
    <2>27. CASE DropBackup(s)
      BY <2>27 DEF DropBackup, At, Goto, disk, bounds
    <2>28. CASE Reopen(s)
      BY <2>28 DEF Reopen, At, Goto, disk, bounds, Fresh
    <2>29. CASE FinalizeFails(s)
      BY <2>29 DEF FinalizeFails, At, Goto, disk, bounds, Fault
    <2>30. CASE Close(s)
      BY <2>30 DEF Close, At, Goto, disk, bounds
    <2>31. CASE Crash(s)
      BY <2>31 DEF Crash, At, Goto, disk, bounds
    <2> QED
      BY <1>2, <2>1, <2>2, <2>3, <2>4, <2>5, <2>6, <2>7, <2>8, <2>9, <2>10,
         <2>11, <2>12, <2>13, <2>14, <2>15, <2>16, <2>17, <2>18, <2>19, <2>20,
         <2>21, <2>22, <2>23, <2>24, <2>25, <2>26, <2>27, <2>28, <2>29, <2>30,
         <2>31 DEF StepOf
  <1> QED BY <1>1, <1>2, StepCases

\* An open store has the lease its database needs.
LEMMA HandleStep ==
  ASSUME TypeOK, LeaseInv, HandleInv, [Next]_vars
  PROVE  HandleInv'
  <1> USE DEF LeaseInv, HandleInv, TypeOK, Alone, OpeningSteps, SwapSteps, Opening,
             Usable, Upgrading, Broken
  <1>1. CASE UNCHANGED vars
    BY <1>1 DEF vars, disk, bounds
  <1>2. ASSUME NEW s \in Session, StepOf(s) PROVE HandleInv'
    <2>1. CASE \E allow \in BOOLEAN : Open(s, allow)
      BY <2>1 DEF Open, At, Goto, disk, bounds, Fresh
    <2>2. CASE AcquireLease(s)
      BY <2>2 DEF AcquireLease, At, Goto, disk, bounds, LeaseIsFree
    <2>3. CASE LookAgain(s)
      BY <2>3 DEF LookAgain, At, Goto, disk, bounds
    <2>4. CASE WaitExpires(s)
      BY <2>4 DEF WaitExpires, At, Goto, disk, bounds, ReturnError
    <2>5. CASE recoverUpgradeArtifacts(s)
      <3>1. pc' = pc \/ pc' = [pc EXCEPT ![s] = "inspect"]
        BY <2>5 DEF recoverUpgradeArtifacts, Goto
      <3>2. At(s, "recover") /\ UNCHANGED <<lease, opening, db, pending>>
        BY <2>5 DEF recoverUpgradeArtifacts
      <3> QED BY <3>1, <3>2 DEF At
    <2>6. CASE Reject(s)
      BY <2>6 DEF Reject, At, Goto, disk, bounds, ReturnError, Rejects, NeedsExclusive
    <2>7. CASE InspectWaits(s)
      BY <2>7 DEF InspectWaits, At, Goto, disk, bounds, SwitchTo, fileExists
    <2>8. CASE InspectDone(s)
      BY <2>8 DEF InspectDone, At, Goto, disk, bounds, SwitchTo, Current, fileExists
    <2>9. CASE InspectOpens(s)
      BY <2>9 DEF InspectOpens, At, Goto, disk, bounds, Current
    <2>10. CASE InspectBuilds(s)
      BY <2>10 DEF InspectBuilds, At, Goto, disk, bounds, fileExists
    <2>11. CASE Create(s)
      BY <2>11 DEF Create, At, Goto, disk, bounds
    <2>12. CASE Migrate(s)
      BY <2>12 DEF Migrate, At, Goto, disk, bounds
    <2>13. CASE ClearTemp(s)
      BY <2>13 DEF ClearTemp, At, Goto, disk, bounds
    <2>14. CASE CreateTemp(s)
      BY <2>14 DEF CreateTemp, At, Goto, disk, bounds
    <2>15. CASE MigrateTemp(s)
      BY <2>15 DEF MigrateTemp, At, Goto, disk, bounds
    <2>16. CASE OpenFails(s)
      BY <2>16 DEF OpenFails, At, Goto, disk, bounds, ReturnError, Fault
    <2>17. CASE StartRead(s)
      BY <2>17 DEF StartRead, At, Goto, disk, bounds
    <2>18. CASE EndRead(s)
      BY <2>18 DEF EndRead, At, Goto, disk, bounds
    <2>19. CASE BeginIndex(s)
      BY <2>19 DEF BeginIndex, At, Goto, disk, bounds
    <2>20. CASE IndexSucceeds(s)
      BY <2>20 DEF IndexSucceeds, At, Goto, disk, bounds
    <2>21. CASE IndexFails(s)
      BY <2>21 DEF IndexFails, At, Goto, disk, bounds, Fault
    <2>22. CASE CloseTemp(s)
      BY <2>22 DEF CloseTemp, At, Goto, disk, bounds
    <2>23. CASE ClearBackup(s)
      BY <2>23 DEF ClearBackup, At, Goto, disk, bounds
    <2>24. CASE Stage(s)
      BY <2>24 DEF Stage, At, Goto, disk, bounds
    <2>25. CASE Replace(s)
      BY <2>25 DEF Replace, At, Goto, disk, bounds
    <2>26. CASE Unstage(s)
      BY <2>26 DEF Unstage, At, Goto, disk, bounds
    <2>27. CASE DropBackup(s)
      BY <2>27 DEF DropBackup, At, Goto, disk, bounds
    <2>28. CASE Reopen(s)
      BY <2>28 DEF Reopen, At, Goto, disk, bounds, Fresh
    <2>29. CASE FinalizeFails(s)
      BY <2>29 DEF FinalizeFails, At, Goto, disk, bounds, Fault
    <2>30. CASE Close(s)
      BY <2>30 DEF Close, At, Goto, disk, bounds
    <2>31. CASE Crash(s)
      BY <2>31 DEF Crash, At, Goto, disk, bounds
    <2> QED
      BY <1>2, <2>1, <2>2, <2>3, <2>4, <2>5, <2>6, <2>7, <2>8, <2>9, <2>10,
         <2>11, <2>12, <2>13, <2>14, <2>15, <2>16, <2>17, <2>18, <2>19, <2>20,
         <2>21, <2>22, <2>23, <2>24, <2>25, <2>26, <2>27, <2>28, <2>29, <2>30,
         <2>31 DEF StepOf
  <1> QED BY <1>1, <1>2, StepCases

\* A session without the lease is at no step, and has no database, that others
\* could disturb.
LEMMA Outside ==
  ASSUME TypeOK, LeaseInv, HandleInv, NEW q \in Session, lease[q] = "none"
  PROVE  pc[q] \in {"idle", "acquire", "open"} /\ db[q] \in {"none", "closed"}
  <1>1. pc[q] \in {"idle", "acquire", "open", "index"}
    BY DEF TypeOK, Steps, Opening, LeaseInv, Alone, OpeningSteps, SwapSteps
  <1>2. CASE pc[q] = "open"
    BY <1>2 DEF HandleInv, Usable, Upgrading, Broken
  <1>3. CASE pc[q] # "open"
    BY <1>1, <1>3 DEF HandleInv, OpeningSteps, Usable, Upgrading
  <1> QED BY <1>1, <1>2, <1>3 DEF HandleInv, Usable, Upgrading

\* The files stay as the sessions know them.
LEMMA DiskStep ==
  ASSUME TypeOK, LeaseInv, HandleInv, DiskInv, [Next]_vars
  PROVE  DiskInv'
  <1> USE Outside DEF LeaseInv, HandleInv, TypeOK, Alone, OpeningSteps, SwapSteps, Opening,
             Usable, Upgrading, Broken, DiskInv, ShapeInv, Knows, Content, Current, fileExists
  <1>1. CASE UNCHANGED vars
    BY <1>1 DEF vars, disk, bounds
  <1>2. ASSUME NEW s \in Session, StepOf(s) PROVE DiskInv'
    <2>1. CASE \E allow \in BOOLEAN : Open(s, allow)
      BY <2>1 DEF Open, At, Goto, disk, bounds, Fresh
    <2>2. CASE AcquireLease(s)
      BY <2>2 DEF AcquireLease, At, Goto, disk, bounds, LeaseIsFree
    <2>3. CASE LookAgain(s)
      BY <2>3 DEF LookAgain, At, Goto, disk, bounds
    <2>4. CASE WaitExpires(s)
      BY <2>4 DEF WaitExpires, At, Goto, disk, bounds, ReturnError
    <2>5. CASE recoverUpgradeArtifacts(s)
      <3>1. pc[s] = "recover" /\ lease[s] = "exclusive" /\ UNCHANGED <<lease, opening, db>>
        BY <2>5 DEF recoverUpgradeArtifacts, At
      <3>2. \/ /\ UNCHANGED disk /\ pc' = [pc EXCEPT ![s] = "inspect"]
               /\ live # "absent" \/ backup = "absent"
            \/ /\ UNCHANGED pc
               /\ \/ live = "absent" /\ backup # "absent" /\ live' = backup
                     /\ backup' = "absent" /\ temp' = temp
                  \/ live # "absent" /\ backup # "absent" /\ live' = live
                     /\ backup' = "absent" /\ temp' = temp
                  \/ live # "absent" /\ backup = "absent" /\ live' = live
                     /\ backup' = backup /\ temp' = "absent"
        BY <2>5 DEF recoverUpgradeArtifacts, Restored, Goto, disk
      <3>3. ASSUME NEW q \in Session, q # s PROVE lease[q] = "none" /\ pc'[q] = pc[q]
        BY <3>1, <3>2, <3>3
      <3>4. ShapeInv' BY <3>2 DEF disk
      <3>5. Knows(s)' BY <3>1, <3>2 DEF disk
      <3>6. ASSUME NEW q \in Session, q # s PROVE Knows(q)'
        BY <3>1, <3>3, <3>6
      <3> QED BY <3>4, <3>5, <3>6
    <2>6. CASE Reject(s)
      BY <2>6 DEF Reject, At, Goto, disk, bounds, ReturnError, Rejects, NeedsExclusive
    <2>7. CASE InspectWaits(s)
      BY <2>7 DEF InspectWaits, At, Goto, disk, bounds, SwitchTo, fileExists
    <2>8. CASE InspectDone(s)
      BY <2>8 DEF InspectDone, At, Goto, disk, bounds, SwitchTo, Current, fileExists
    <2>9. CASE InspectOpens(s)
      BY <2>9 DEF InspectOpens, At, Goto, disk, bounds, Current
    <2>10. CASE InspectBuilds(s)
      BY <2>10 DEF InspectBuilds, At, Goto, disk, bounds, fileExists
    <2>11. CASE Create(s)
      BY <2>11 DEF Create, At, Goto, disk, bounds
    <2>12. CASE Migrate(s)
      BY <2>12 DEF Migrate, At, Goto, disk, bounds
    <2>13. CASE ClearTemp(s)
      BY <2>13 DEF ClearTemp, At, Goto, disk, bounds
    <2>14. CASE CreateTemp(s)
      BY <2>14 DEF CreateTemp, At, Goto, disk, bounds
    <2>15. CASE MigrateTemp(s)
      BY <2>15 DEF MigrateTemp, At, Goto, disk, bounds
    <2>16. CASE OpenFails(s)
      BY <2>16 DEF OpenFails, At, Goto, disk, bounds, ReturnError, Fault
    <2>17. CASE StartRead(s)
      BY <2>17 DEF StartRead, At, Goto, disk, bounds
    <2>18. CASE EndRead(s)
      BY <2>18 DEF EndRead, At, Goto, disk, bounds
    <2>19. CASE BeginIndex(s)
      BY <2>19 DEF BeginIndex, At, Goto, disk, bounds
    <2>20. CASE IndexSucceeds(s)
      BY <2>20 DEF IndexSucceeds, At, Goto, disk, bounds
    <2>21. CASE IndexFails(s)
      BY <2>21 DEF IndexFails, At, Goto, disk, bounds, Fault
    <2>22. CASE CloseTemp(s)
      BY <2>22 DEF CloseTemp, At, Goto, disk, bounds
    <2>23. CASE ClearBackup(s)
      BY <2>23 DEF ClearBackup, At, Goto, disk, bounds
    <2>24. CASE Stage(s)
      BY <2>24 DEF Stage, At, Goto, disk, bounds
    <2>25. CASE Replace(s)
      BY <2>25 DEF Replace, At, Goto, disk, bounds
    <2>26. CASE Unstage(s)
      BY <2>26 DEF Unstage, At, Goto, disk, bounds
    <2>27. CASE DropBackup(s)
      BY <2>27 DEF DropBackup, At, Goto, disk, bounds
    <2>28. CASE Reopen(s)
      BY <2>28 DEF Reopen, At, Goto, disk, bounds, Fresh
    <2>29. CASE FinalizeFails(s)
      BY <2>29 DEF FinalizeFails, At, Goto, disk, bounds, Fault
    <2>30. CASE Close(s)
      BY <2>30 DEF Close, At, Goto, disk, bounds
    <2>31. CASE Crash(s)
      BY <2>31 DEF Crash, At, Goto, disk, bounds
    <2> QED
      BY <1>2, <2>1, <2>2, <2>3, <2>4, <2>5, <2>6, <2>7, <2>8, <2>9, <2>10,
         <2>11, <2>12, <2>13, <2>14, <2>15, <2>16, <2>17, <2>18, <2>19, <2>20,
         <2>21, <2>22, <2>23, <2>24, <2>25, <2>26, <2>27, <2>28, <2>29, <2>30,
         <2>31 DEF StepOf
  <1> QED BY <1>1, <1>2, StepCases

-----------------------------------------------------------------------------
(* The inductive invariant                                                 *)

LEMMA InitInv == Init => IInv
  <1> SUFFICES ASSUME Init PROVE IInv
    OBVIOUS
  <1>1. TypeOK
    BY BoundsAssumption DEF Init, TypeOK, Fresh, Content, Opening, Steps
  <1>2. LeaseInv
    BY DEF Init, LeaseInv, Alone, OpeningSteps, SwapSteps
  <1>3. HandleInv
    BY DEF Init, HandleInv, OpeningSteps, SwapSteps
  <1>4. DiskInv
    BY DEF Init, DiskInv, ShapeInv, Knows, fileExists, Current
  <1> QED BY <1>1, <1>2, <1>3, <1>4 DEF IInv

LEMMA StepInv == IInv /\ [Next]_vars => IInv'
  BY TypeStep, LeaseStep, HandleStep, DiskStep DEF IInv

(* The inductive invariant: every variable has its type, the lifecycle     *)
(* lock is held in the mode and at the steps that need it, an open store   *)
(* has the lease its database needs, and what a session found on the disk  *)
(* under its lease is still there.                                         *)
THEOREM InvCorrect == Spec => []IInv
  BY InitInv, StepInv, PTL DEF Spec

-----------------------------------------------------------------------------
(* The theorems                                                            *)

(* Every variable keeps its type.                                          *)
THEOREM TypeCorrect == Spec => []TypeOK
  <1>1. IInv => TypeOK
    BY DEF IInv
  <1> QED BY <1>1, InvCorrect, PTL

(* Every open database is held under a lease and is there with the current *)
(* schema; the one an upgrade builds keeps every other session out.        *)
THEOREM HandlesAreLeasedCorrect == Spec => []HandlesAreLeased
  <1>1. IInv => HandlesAreLeased
    <2> SUFFICES ASSUME IInv, NEW s \in Session
                 PROVE  /\ db[s] = "live" => lease[s] = "shared" /\ live \in Current
                        /\ db[s] = "temp" => /\ lease[s] = "exclusive" /\ temp \in Current
                                             /\ \A q \in Session \ {s} : lease[q] = "none" /\ db[q] # "live"
      BY DEF HandlesAreLeased
    <2> USE DEF IInv
    <2>1. db[s] \in {"live", "temp"} => pc[s] \in {"open", "index", "finalize"}
      BY DEF TypeOK, Steps, HandleInv, OpeningSteps, SwapSteps, Broken
    <2>2. db[s] \in {"live", "temp"} => Usable(s) \/ Upgrading(s)
      BY <2>1 DEF HandleInv, Broken
    <2>3. Knows(s)
      BY DEF DiskInv
    <2>4. lease[s] = "exclusive" => \A q \in Session \ {s} : lease[q] = "none" /\ db[q] # "live"
      BY Outside DEF LeaseInv
    <2> QED BY <2>2, <2>3, <2>4 DEF Usable, Upgrading, Knows
  <1> QED BY <1>1, InvCorrect, PTL

\* A step that changes a file is one of a session that holds the lease alone.
LEMMA ShapeStep ==
  ASSUME IInv, [Next]_vars, Shape' # Shape
  PROVE  \E s \in Session :
           /\ lease[s] = "exclusive"
           /\ \/ opening[s].allowUpgrade
              \/ live \in {"absent", "bare"} /\ backup = "absent" /\ temp = "absent"
  <1> DEFINE Good(s) == /\ lease[s] = "exclusive"
                        /\ \/ opening[s].allowUpgrade
                           \/ live \in {"absent", "bare"} /\ backup = "absent" /\ temp = "absent"
  <1>1. PICK s \in Session : StepOf(s)
    BY StepCases DEF IInv, vars, disk, Shape
  <1>2. TypeOK /\ LeaseInv /\ HandleInv /\ ShapeInv /\ Knows(s)
    BY DEF IInv, DiskInv
  <1>3. UNCHANGED disk => FALSE
    BY DEF disk, Shape
  <1>4. CASE IndexSucceeds(s)
    BY <1>2, <1>4 DEF IndexSucceeds, At, Shape, Knows, Current, HandleInv, Usable, Upgrading
  <1>5. CASE recoverUpgradeArtifacts(s) \/ ClearTemp(s) \/ CreateTemp(s) \/ MigrateTemp(s)
    <2>1. Good(s)
      BY <1>2, <1>5 DEF recoverUpgradeArtifacts, ClearTemp, CreateTemp, MigrateTemp, At,
                        LeaseInv, HandleInv, Alone, OpeningSteps
    <2> QED BY <2>1
  <1>6. CASE Create(s) \/ Migrate(s)
    <2>1. Good(s)
      BY <1>2, <1>6 DEF Create, Migrate, At, LeaseInv, Alone, OpeningSteps, Knows, ShapeInv
    <2> QED BY <2>1
  <1>7. CASE ClearBackup(s) \/ Stage(s) \/ Replace(s) \/ Unstage(s) \/ DropBackup(s)
    <2>1. Good(s)
      BY <1>2, <1>7 DEF ClearBackup, Stage, Replace, Unstage, DropBackup, At, LeaseInv,
                        HandleInv, Alone, SwapSteps
    <2> QED BY <2>1
  <1>8. CASE OpenFails(s)
    <2>1. pc[s] \in {"createTemp", "migrateTemp"}
      BY <1>3, <1>8 DEF OpenFails, disk
    <2>2. Good(s)
      BY <1>2, <2>1 DEF LeaseInv, HandleInv, Alone, OpeningSteps
    <2> QED BY <2>2
  <1>9. CASE Close(s)
    <2>1. pc[s] = "open" /\ pending[s]
      BY <1>3, <1>9 DEF Close, At, disk
    <2>2. Good(s)
      BY <1>2, <2>1 DEF HandleInv, Usable, Upgrading, Broken
    <2> QED BY <2>2
  <1> HIDE DEF Good
  <1>10. CASE \/ \E allow \in BOOLEAN : Open(s, allow)
              \/ AcquireLease(s) \/ LookAgain(s) \/ WaitExpires(s) \/ Reject(s)
              \/ InspectWaits(s) \/ InspectDone(s) \/ InspectOpens(s) \/ InspectBuilds(s)
    BY <1>3, <1>10 DEF Open, AcquireLease, LookAgain, WaitExpires, Reject, SwitchTo,
                       InspectWaits, InspectDone, InspectOpens, InspectBuilds
  <1>11. CASE \/ StartRead(s) \/ EndRead(s) \/ BeginIndex(s) \/ IndexFails(s)
              \/ CloseTemp(s) \/ Reopen(s) \/ FinalizeFails(s) \/ Crash(s)
    BY <1>3, <1>11 DEF StartRead, EndRead, BeginIndex, IndexFails, CloseTemp, Reopen,
                       FinalizeFails, Crash
  <1> QED BY <1>1, <1>4, <1>5, <1>6, <1>7, <1>8, <1>9, <1>10, <1>11 DEF StepOf

(* Files are created, moved and removed by one session that holds the      *)
(* lifecycle lock alone, and, unless it was opened for an update, only to  *)
(* create a database where there is none.                                  *)
THEOREM DiskIsChangedAloneCorrect == Spec => DiskIsChangedAlone
  <1> DEFINE Alone1 == Shape' # Shape =>
       \E s \in Session :
         /\ lease[s] = "exclusive"
         /\ \A q \in Session \ {s} : lease[q] = "none"
         /\ \/ opening[s].allowUpgrade
            \/ live \in {"absent", "bare"} /\ backup = "absent" /\ temp = "absent"
  <1>1. IInv /\ [Next]_vars => [Alone1]_vars
    BY ShapeStep DEF IInv, LeaseInv
  <1> QED BY <1>1, InvCorrect, PTL DEF Spec, DiskIsChangedAlone

-----------------------------------------------------------------------------
(* Refinement                                                              *)

\* Each step of one session is a step of the abstract index, or none.
LEMMA UpgradeStep ==
  ASSUME IInv, [Next]_vars, TypeOK', ShapeInv'
  PROVE  [Upgraded!Next]_RecoveredIndex
  <1> USE DEF Upgraded!Next, Upgraded!Create, Upgraded!Fill, Upgraded!Upgrade
  <1>1. CASE UNCHANGED <<live, backup>>
    BY <1>1 DEF RecoveredIndex
  <1>2. ASSUME NEW s \in Session, StepOf(s), ~UNCHANGED <<live, backup>>
        PROVE  [Upgraded!Next]_RecoveredIndex
    <2>1. TypeOK /\ LeaseInv /\ HandleInv /\ ShapeInv /\ Knows(s)
      BY DEF IInv, DiskInv
    <2>2. CASE recoverUpgradeArtifacts(s)
      <3>1. \/ live = "absent" /\ backup # "absent" /\ live' = backup /\ backup' = "absent"
            \/ live # "absent" /\ live' = live
        BY <1>2, <2>2 DEF recoverUpgradeArtifacts, Restored, fileExists
      <3> QED BY <2>1, <3>1 DEF RecoveredIndex, fileExists, ShapeInv
    <2>3. CASE Create(s)
      <3>1. live = "absent" /\ backup = "absent" /\ live' = "bare" /\ backup' = backup
        BY <2>1, <2>3 DEF Create, At, Knows, fileExists
      <3> QED BY <3>1 DEF RecoveredIndex, fileExists
    <2>4. CASE Migrate(s)
      <3>1. live = "bare" /\ live' = "empty" /\ backup' = backup
        BY <2>1, <2>4 DEF Migrate, At, Knows
      <3> QED BY <3>1 DEF RecoveredIndex, fileExists
    <2>5. CASE IndexSucceeds(s)
      <3>1. live \in {"empty", "full"} /\ live' = "full"
        BY <1>2, <2>1, <2>5 DEF IndexSucceeds, Knows, Current
      <3> QED BY <3>1 DEF RecoveredIndex, fileExists
    <2>6. CASE ClearBackup(s)
      <3>1. live = "v1" /\ live' = live
        BY <2>1, <2>6 DEF ClearBackup, At, Knows
      <3> QED BY <3>1 DEF RecoveredIndex, fileExists
    <2>7. CASE Stage(s)
      <3>1. live = "v1" /\ live' = "absent" /\ backup' = "v1"
        BY <2>1, <2>7 DEF Stage, At, Knows
      <3> QED BY <3>1 DEF RecoveredIndex, fileExists
    <2>8. CASE Replace(s)
      <3>1. live = "absent" /\ backup = "v1" /\ live' = "full"
        BY <2>1, <2>8 DEF Replace, At, Knows
      <3> QED BY <3>1 DEF RecoveredIndex, fileExists
    <2>9. CASE Unstage(s)
      <3>1. live = "absent" /\ backup = "v1" /\ live' = "v1"
        BY <2>1, <2>9 DEF Unstage, At, Knows
      <3> QED BY <3>1 DEF RecoveredIndex, fileExists
    <2>10. CASE DropBackup(s)
      <3>1. live = "full" /\ live' = live
        BY <2>1, <2>10 DEF DropBackup, At, Knows
      <3> QED BY <3>1 DEF RecoveredIndex, fileExists
    <2>11. CASE \/ \E allow \in BOOLEAN : Open(s, allow)
                \/ AcquireLease(s) \/ LookAgain(s) \/ WaitExpires(s) \/ Reject(s)
                \/ InspectWaits(s) \/ InspectDone(s) \/ InspectOpens(s) \/ InspectBuilds(s)
      BY <1>2, <2>11 DEF Open, AcquireLease, LookAgain, WaitExpires, Reject, SwitchTo, disk,
                         InspectWaits, InspectDone, InspectOpens, InspectBuilds
    <2>12. CASE \/ StartRead(s) \/ EndRead(s) \/ BeginIndex(s) \/ IndexFails(s)
                \/ CloseTemp(s) \/ Reopen(s) \/ FinalizeFails(s) \/ Crash(s)
      BY <1>2, <2>12 DEF StartRead, EndRead, BeginIndex, IndexFails, CloseTemp, Reopen,
                         FinalizeFails, Crash, disk
    <2>13. CASE \/ ClearTemp(s) \/ CreateTemp(s) \/ MigrateTemp(s) \/ OpenFails(s) \/ Close(s)
      BY <1>2, <2>13 DEF ClearTemp, CreateTemp, MigrateTemp, OpenFails, Close
    <2> QED
      BY <1>2, <2>2, <2>3, <2>4, <2>5, <2>6, <2>7, <2>8, <2>9, <2>10, <2>11, <2>12, <2>13
         DEF StepOf
  <1>3. CASE UNCHANGED vars
    BY <1>1, <1>3 DEF vars, disk
  <1> QED BY <1>1, <1>2, <1>3, StepCases DEF IInv

(* No interruption of a creation or an upgrade loses the index: what the   *)
(* next update finds on the disk goes from nothing or a legacy index to a  *)
(* complete one as UpgradedIndex allows.                                   *)
THEOREM ImplementsUpgradeCorrect == Spec => ImplementsUpgrade
  <1>1. Init => Upgraded!Init
    BY DEF Init, Upgraded!Init, RecoveredIndex, fileExists
  <1>2. IInv => TypeOK /\ ShapeInv
    BY DEF IInv, DiskInv
  <1>3. IInv /\ [Next]_vars /\ TypeOK' /\ ShapeInv' => [Upgraded!Next]_RecoveredIndex
    BY UpgradeStep
  <1> QED BY <1>1, <1>2, <1>3, InvCorrect, PTL DEF Spec, ImplementsUpgrade, Upgraded!Spec

=============================================================================

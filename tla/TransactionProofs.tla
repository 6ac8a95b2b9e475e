------------------------- MODULE TransactionProofs -------------------------
(* Proofs about Transaction, for any transactions, user commits and faults. *)
EXTENDS Transaction, TLAPS

-----------------------------------------------------------------------------
\* Type correctness.

LEMMA JournalOpsKeepType ==
  ASSUME J!JournalTypeOK, NEW t \in Txs, NEW s \in J!States,
         J!RecordStart(t, s) \/ J!UpdateState(t, s) \/ J!RecordEnd(t)
  PROVE  J!JournalTypeOK'
<1> USE DEF J!JournalTypeOK, J!Read, J!Write, J!NoRecords
<1>1. CASE J!RecordStart(t, s)
  BY <1>1 DEF J!RecordStart
<1>2. CASE J!UpdateState(t, s)
  BY <1>2 DEF J!UpdateState
<1>3. CASE J!RecordEnd(t)
  <2>1. PICK records \in {disk, J!NoRecords} :
          LET kept == [J!Overlay(records, pending) EXCEPT ![t] = J!Absent]
          IN disk' = disk \/ disk' = kept
    BY <1>3 DEF J!RecordEnd
  <2>2. J!Overlay(records, pending) \in [Txs -> J!States \cup {J!Absent}]
    BY DEF J!Overlay
  <2>3. pending' \in [Txs -> J!States \cup {J!Absent}]
    BY <1>3 DEF J!RecordEnd
  <2> QED BY <2>1, <2>2, <2>3
<1> QED BY <1>1, <1>2, <1>3

LEMMA BudgetOpsKeepType ==
  ASSUME config \in Configs, B!BudgetTypeOK, NEW t \in Txs,
         B!Reserve(t, config.cost[t]) \/ B!Release(t) \/ B!Commit(t)
  PROVE  B!BudgetTypeOK'
<1> USE DEF B!BudgetTypeOK, B!NotHeld, B!Lines
<1>1. CASE B!Reserve(t, config.cost[t])
  BY <1>1, ConfigAssumption DEF B!Reserve, B!Holding
<1>2. CASE B!Release(t)
  BY <1>2 DEF B!Release
<1>3. CASE B!Commit(t)
  BY <1>3 DEF B!Commit, B!Plus
<1> QED BY <1>1, <1>2, <1>3

LEMMA ResultUpdates ==
  ASSUME result \in [Txs -> Results], NEW t \in Txs
  PROVE  /\ \A x \in FailureClasses :
              [result EXCEPT ![t].failure = x] \in [Txs -> Results]
         /\ \A x \in Statuses :
              [result EXCEPT ![t].status = x] \in [Txs -> Results]
         /\ \A x \in BOOLEAN :
              /\ [result EXCEPT ![t].success = x] \in [Txs -> Results]
              /\ [result EXCEPT ![t].cleanupError = x] \in [Txs -> Results]
BY DEF Results

LEMMA FailKeepsType ==
  ASSUME TypeOK, NEW t \in Txs, NEW from, NEW to \in Labels,
         NEW failure \in FailureClasses, Fail(t, from, to, failure)
  PROVE  pc' \in [Txs -> Labels] /\ result' \in [Txs -> Results]
<1>1. result' \in [Txs -> Results]
  BY ResultUpdates DEF Fail, TypeOK
<1>2. pc' \in [Txs -> Labels]
  BY DEF Fail, Step, TypeOK
<1> QED BY <1>1, <1>2

\* A commit appended to main is a commit.
LEMMA MainGrows ==
  ASSUME TypeOK, NEW c \in Commits, main' = Append(main, c)
  PROVE  main' \in Seq(Commits)
BY DEF TypeOK

LEMMA InitTypeOK == Init => TypeOK
<1> USE DEF TypeOK, Labels, Final
<1> SUFFICES ASSUME Init PROVE TypeOK
  OBVIOUS
<1>1. J!JournalTypeOK
  BY DEF Init, J!JournalInit, J!JournalTypeOK, J!NoRecords
<1>2. B!BudgetTypeOK
  BY DEF Init, B!BudgetInit, B!BudgetTypeOK, B!NotHeld, B!NothingSpent,
      B!Lines
<1>3. result \in [Txs -> Results]
  BY DEF Init, NoResult, Results, Statuses, Pending, FailureClasses
<1>4. /\ main \in Seq(Commits) /\ base \in [Txs -> Seq(Commits)]
      /\ pc \in [Txs -> Labels]
  BY DEF Init
<1>5. crashes \in 0..MaxCrashes
  BY CrashAssumption DEF Init
<1>6. config \in Configs
  BY DEF Init
<1> QED BY <1>1, <1>2, <1>3, <1>4, <1>5, <1>6 DEF Init

\* A step keeps the types; publishing the status needs to know that the
\* transaction has been decided.
LEMMA NextTypeOK == TypeOK /\ StepsKnow /\ [Next]_vars => TypeOK'
<1> USE DEF TypeOK, Step, Labels, Final, Statuses, Pending, FailureClasses,
            mainVars, journalVars, budgetVars, worldVars
<1> SUFFICES ASSUME TypeOK, StepsKnow, [Next]_vars PROVE TypeOK'
  OBVIOUS
<1>1. ASSUME NEW t \in Txs, Start(t) PROVE TypeOK'
  <2>1. CASE FailClosed(t)
    BY <2>1, FailKeepsType DEF FailClosed, J!JournalTypeOK, B!BudgetTypeOK
  <2>2. CASE ReadBase(t)
    BY <2>2 DEF ReadBase, J!JournalTypeOK, B!BudgetTypeOK
  <2>3. CASE ReadBaseFails(t)
    BY <2>3, FailKeepsType DEF ReadBaseFails, J!JournalTypeOK, B!BudgetTypeOK
  <2> QED BY <1>1, <2>1, <2>2, <2>3 DEF Start
<1>2. ASSUME NEW t \in Txs, Execute(t) PROVE TypeOK'
  <2>1. CASE AddWorktree(t)
    BY <2>1 DEF AddWorktree, J!JournalTypeOK, B!BudgetTypeOK
  <2>2. CASE AddWorktreeFails(t)
    BY <2>2, FailKeepsType DEF AddWorktreeFails, J!JournalTypeOK,
        B!BudgetTypeOK
  <2>3. CASE RecordStart(t)
    BY <2>3, JournalOpsKeepType DEF RecordStart, J!States, B!BudgetTypeOK
  <2>4. CASE CaptureBaseline(t)
    BY <2>4, JournalOpsKeepType DEF CaptureBaseline, J!States, B!BudgetTypeOK
  <2>5. CASE BeginValidation(t)
    BY <2>5, JournalOpsKeepType DEF BeginValidation, J!States, B!BudgetTypeOK
  <2>6. CASE StructuralReject(t)
    BY <2>6, FailKeepsType DEF StructuralReject, J!JournalTypeOK,
        B!BudgetTypeOK
  <2>7. CASE ReserveBudget(t)
    BY <2>7, BudgetOpsKeepType DEF ReserveBudget, J!JournalTypeOK
  <2>8. CASE ReserveRefused(t)
    BY <2>8, FailKeepsType DEF ReserveRefused, J!JournalTypeOK, B!BudgetTypeOK
  <2>9. CASE RiskReject(t)
    BY <2>9, FailKeepsType DEF RiskReject, J!JournalTypeOK, B!BudgetTypeOK
  <2>10. CASE ApplyPatch(t)
    BY <2>10, JournalOpsKeepType DEF ApplyPatch, J!States, B!BudgetTypeOK
  <2>11. CASE PostApplyReject(t)
    BY <2>11, FailKeepsType DEF PostApplyReject, J!JournalTypeOK,
        B!BudgetTypeOK
  <2>12. CASE PostApplyPass(t)
    BY <2>12, JournalOpsKeepType DEF PostApplyPass, J!States, B!BudgetTypeOK
  <2>13. CASE UnexpectedChanges(t)
    BY <2>13, FailKeepsType DEF UnexpectedChanges, J!JournalTypeOK,
        B!BudgetTypeOK
  <2>14. CASE DryRun(t)
    BY <2>14, ResultUpdates, JournalOpsKeepType, BudgetOpsKeepType DEF DryRun,
        J!States
  <2>15. CASE Stage(t)
    BY <2>15, JournalOpsKeepType DEF Stage, J!States, B!BudgetTypeOK
  <2>16. CASE CommitInWorktree(t)
    BY <2>16, JournalOpsKeepType DEF CommitInWorktree, J!States,
        B!BudgetTypeOK
  <2>17. CASE LockIntegration(t)
    BY <2>17 DEF LockIntegration, J!JournalTypeOK, B!BudgetTypeOK
  <2>18. CASE StaleBase(t)
    BY <2>18, ResultUpdates DEF StaleBase, Decide, HeadMoved, J!JournalTypeOK,
        B!BudgetTypeOK
  <2>19. CASE HeadMatches(t)
    BY <2>19 DEF HeadMatches, HeadMoved, J!JournalTypeOK, B!BudgetTypeOK
  <2>20. CASE MainDirty(t)
    BY <2>20, ResultUpdates DEF MainDirty, Decide, J!JournalTypeOK,
        B!BudgetTypeOK
  <2>21. CASE MainClean(t)
    BY <2>21 DEF MainClean, J!JournalTypeOK, B!BudgetTypeOK
  <2>22. CASE FastForward(t)
    <3>1. main' \in Seq(Commits)
      BY <2>22, MainGrows DEF FastForward, Merge, Commits
    <3> QED BY <2>22, <3>1, ResultUpdates
      DEF FastForward, Decide, Merge, J!JournalTypeOK, B!BudgetTypeOK
  <2>23. CASE FastForwardFails(t)
    BY <2>23, ResultUpdates DEF FastForwardFails, Decide, J!JournalTypeOK,
        B!BudgetTypeOK
  <2>24. CASE FastForwardTimesOut(t)
    <3>1. main' \in Seq(Commits)
      BY <2>24, MainGrows DEF FastForwardTimesOut, Merge, Commits
    <3> QED BY <2>24, <3>1, ResultUpdates
      DEF FastForwardTimesOut, Decide, Merge, J!JournalTypeOK, B!BudgetTypeOK
  <2>25. CASE Publish(t)
    <3>1. result[t].status \in Pending \cup {"INTEGRATED"}
      BY <2>25 DEF Publish, StepsKnow, Knows, StatusAtStep
    <3>2. J!JournalTypeOK'
      BY <2>25, <3>1, JournalOpsKeepType DEF Publish, J!States
    <3> QED BY <2>25, <3>2 DEF Publish, B!BudgetTypeOK
  <2>26. CASE Park(t)
    BY <2>26, BudgetOpsKeepType DEF Park, J!JournalTypeOK
  <2>27. CASE Rollback(t)
    BY <2>27, ResultUpdates, JournalOpsKeepType, BudgetOpsKeepType DEF
        Rollback, J!States
  <2>28. CASE Raise(t)
    BY <2>28, FailKeepsType DEF Raise, MayRaise, J!JournalTypeOK,
        B!BudgetTypeOK
  <2>29. CASE HandleException(t)
    BY <2>29, ResultUpdates, JournalOpsKeepType, BudgetOpsKeepType DEF
        HandleException, J!States
  <2>30. CASE HandleBare(t)
    BY <2>30, ResultUpdates, BudgetOpsKeepType DEF HandleBare, J!JournalTypeOK
  <2>31. CASE HandleBaseless(t)
    <3>1. B!BudgetTypeOK' /\ J!JournalTypeOK'
      BY <2>31, BudgetOpsKeepType DEF HandleBaseless, J!JournalTypeOK
    <3>2. [result EXCEPT ![t].status = "FAILED"] \in [Txs -> Results]
      BY ResultUpdates
    <3>3. result' \in [Txs -> Results]
      BY <2>31, <3>2 DEF HandleBaseless
    <3> QED BY <2>31, <3>1, <3>3 DEF HandleBaseless
  <2>32. CASE RemoveWorktree(t)
    BY <2>32 DEF RemoveWorktree, J!JournalTypeOK, B!BudgetTypeOK
  <2>33. CASE RemoveWorktreeRaises(t)
    BY <2>33, ResultUpdates DEF RemoveWorktreeRaises, J!JournalTypeOK,
        B!BudgetTypeOK
  <2>34. CASE EndRecord(t)
    BY <2>34, JournalOpsKeepType DEF EndRecord, J!States, B!BudgetTypeOK
  <2>35. CASE ConcludeFailure(t)
    <3>1. result[t].failure \in FailureClasses
      BY DEF Results
    <3>2. result' \in [Txs -> Results]
      BY <2>35, <3>1, ResultUpdates DEF ConcludeFailure
    <3> QED BY <2>35, <3>2 DEF ConcludeFailure, J!JournalTypeOK, B!BudgetTypeOK
  <2>36. CASE ConcludeDryRun(t)
    BY <2>36, ResultUpdates DEF ConcludeDryRun, J!JournalTypeOK,
        B!BudgetTypeOK
  <2>37. CASE ConcludeSuccess(t)
    BY <2>37, ResultUpdates, BudgetOpsKeepType DEF ConcludeSuccess,
        J!JournalTypeOK
  <2>38. CASE ConcludeUncleaned(t)
    BY <2>38, ResultUpdates, BudgetOpsKeepType DEF ConcludeUncleaned,
        J!JournalTypeOK
  <2> QED BY <1>2, <2>1, <2>2, <2>3, <2>4, <2>5, <2>6, <2>7, <2>8, <2>9,
      <2>10, <2>11, <2>12, <2>13, <2>14, <2>15, <2>16, <2>17, <2>18, <2>19,
      <2>20, <2>21, <2>22, <2>23, <2>24, <2>25, <2>26, <2>27, <2>28, <2>29,
      <2>30, <2>31, <2>32, <2>33, <2>34, <2>35, <2>36, <2>37, <2>38 DEF
      Execute
<1>3. ASSUME Environment PROVE TypeOK'
  <2> USE DEF threadVars
  <2>1. ASSUME NEW c \in UserCommits, UserCommit(c) PROVE TypeOK'
    <3>1. main' \in Seq(Commits)
      BY <2>1, MainGrows DEF UserCommit, Commits
    <3> QED BY <2>1, <3>1 DEF UserCommit, J!JournalTypeOK, B!BudgetTypeOK
  <2>2. CASE UserEdit
    BY <2>2 DEF UserEdit, J!JournalTypeOK, B!BudgetTypeOK
  <2>3. CASE Crash
    BY <2>3, CrashAssumption
    DEF Crash, J!LoseMemory, J!JournalTypeOK, J!NoRecords,
        B!Reset, B!BudgetTypeOK, B!NotHeld, B!NothingSpent, B!Lines
  <2>4. ASSUME NEW t \in Txs, MergeOutlivesCrash(t) PROVE TypeOK'
    <3>1. main' \in Seq(Commits)
      BY <2>4, MainGrows DEF MergeOutlivesCrash, Merge, Commits
    <3> QED BY <2>4, <3>1 DEF MergeOutlivesCrash, Merge, J!JournalTypeOK, B!BudgetTypeOK
  <2>5. CASE CleanupScan
    BY <2>5 DEF CleanupScan, J!JournalTypeOK, B!BudgetTypeOK
  <2>6. ASSUME NEW t \in Txs, CleanupOrphan(t) PROVE TypeOK'
    <3>1. J!JournalTypeOK'
      BY <2>6, JournalOpsKeepType DEF CleanupOrphan, J!JournalTypeOK, J!States
    <3> QED BY <2>6, <3>1 DEF CleanupOrphan, B!BudgetTypeOK
  <2> QED BY <1>3, <2>1, <2>2, <2>3, <2>4, <2>5, <2>6 DEF Environment
<1>4. CASE UNCHANGED vars
  BY <1>4 DEF vars, J!JournalTypeOK, B!BudgetTypeOK
<1> QED BY <1>1, <1>2, <1>3, <1>4 DEF Next

-----------------------------------------------------------------------------
\* What the threads know at their steps.

\* Updating one field of one transaction's result leaves the rest alone.
LEMMA ResultFields ==
  ASSUME result \in [Txs -> Results], NEW t \in Txs, NEW x
  PROVE  /\ [result EXCEPT ![t].status = x][t].status = x
         /\ [result EXCEPT ![t].failure = x][t].status = result[t].status
         /\ [result EXCEPT ![t].success = x][t].status = result[t].status
         /\ [result EXCEPT ![t].cleanupError = x][t].status = result[t].status
         /\ \A u \in Txs \ {t} :
              /\ [result EXCEPT ![t].status = x][u] = result[u]
              /\ [result EXCEPT ![t].failure = x][u] = result[u]
              /\ [result EXCEPT ![t].success = x][u] = result[u]
              /\ [result EXCEPT ![t].cleanupError = x][u] = result[u]
BY DEF Results

\* A budget operation touches only its own reservation.
LEMMA BudgetOpsHold ==
  ASSUME B!BudgetTypeOK, NEW t \in Txs
  PROVE  /\ B!Reserve(t, config.cost[t]) => reservations'[t].held
         /\ (B!Release(t) \/ B!Commit(t)) => ~reservations'[t].held
         /\ (B!Reserve(t, config.cost[t]) \/ B!Release(t) \/ B!Commit(t)) =>
              \A u \in Txs \ {t} : reservations'[u] = reservations[u]
BY DEF B!BudgetTypeOK, B!Reserve, B!Release, B!Commit, B!Holding, B!NotHeld

\* What a step of another thread leaves of what thread u relies on.
Untouched(u) ==
  /\ pc'[u] = pc[u] /\ result'[u] = result[u] /\ reservations'[u] = reservations[u]
  /\ u \in landed' <=> u \in landed
  /\ u \in session' <=> u \in session
  /\ lock' = u <=> lock = u
  /\ dead' = dead

LEMMA OthersUntouched ==
  ASSUME TypeOK, StepsKnow, NEW t \in Txs, Start(t) \/ Execute(t)
  PROVE  \A u \in Txs \ {t} : Untouched(u)
<1> SUFFICES ASSUME NEW u \in Txs \ {t} PROVE Untouched(u)
  OBVIOUS
<1> USE ResultFields, BudgetOpsHold, TxAssumption
    DEF Untouched, Step, TypeOK, Knows, LockAtStep, Integrating, mainVars, budgetVars, worldVars
<1>1. CASE FailClosed(t)
  BY <1>1 DEF FailClosed, Fail
<1>2. CASE ReadBase(t)
  BY <1>2 DEF ReadBase
<1>3. CASE ReadBaseFails(t)
  BY <1>3 DEF ReadBaseFails, Fail
<1>4. CASE AddWorktree(t)
  BY <1>4 DEF AddWorktree
<1>5. CASE AddWorktreeFails(t)
  BY <1>5 DEF AddWorktreeFails, Fail
<1>6. CASE RecordStart(t)
  BY <1>6 DEF RecordStart
<1>7. CASE CaptureBaseline(t)
  BY <1>7 DEF CaptureBaseline
<1>8. CASE BeginValidation(t)
  BY <1>8 DEF BeginValidation
<1>9. CASE StructuralReject(t)
  BY <1>9 DEF StructuralReject, Fail
<1>10. CASE ReserveBudget(t)
  BY <1>10 DEF ReserveBudget
<1>11. CASE ReserveRefused(t)
  BY <1>11 DEF ReserveRefused, Fail
<1>12. CASE RiskReject(t)
  BY <1>12 DEF RiskReject, Fail
<1>13. CASE ApplyPatch(t)
  BY <1>13 DEF ApplyPatch
<1>14. CASE PostApplyReject(t)
  BY <1>14 DEF PostApplyReject, Fail
<1>15. CASE PostApplyPass(t)
  BY <1>15 DEF PostApplyPass
<1>16. CASE UnexpectedChanges(t)
  BY <1>16 DEF UnexpectedChanges, Fail
<1>17. CASE DryRun(t)
  BY <1>17 DEF DryRun
<1>18. CASE Stage(t)
  BY <1>18 DEF Stage
<1>19. CASE CommitInWorktree(t)
  BY <1>19 DEF CommitInWorktree
<1>20. CASE LockIntegration(t)
  BY <1>20 DEF LockIntegration
<1>21. CASE StaleBase(t)
  BY <1>21 DEF StaleBase, Decide, HeadMoved, StepsKnow
<1>22. CASE HeadMatches(t)
  BY <1>22 DEF HeadMatches, HeadMoved
<1>23. CASE MainDirty(t)
  BY <1>23 DEF MainDirty, Decide, StepsKnow
<1>24. CASE MainClean(t)
  BY <1>24 DEF MainClean
<1>25. CASE FastForward(t)
  BY <1>25 DEF FastForward, Decide, Merge, StepsKnow
<1>26. CASE FastForwardFails(t)
  BY <1>26 DEF FastForwardFails, Decide, StepsKnow
<1>27. CASE FastForwardTimesOut(t)
  BY <1>27 DEF FastForwardTimesOut, Decide, Merge, StepsKnow
<1>28. CASE Publish(t)
  BY <1>28 DEF Publish
<1>29. CASE Park(t)
  BY <1>29 DEF Park
<1>30. CASE Rollback(t)
  BY <1>30 DEF Rollback
<1>31. CASE Raise(t)
  BY <1>31 DEF Raise, Fail, MayRaise
<1>32. CASE HandleException(t)
  BY <1>32 DEF HandleException
<1>33. CASE HandleBare(t)
  BY <1>33 DEF HandleBare
<1>34. CASE HandleBaseless(t)
  BY <1>34 DEF HandleBaseless
<1>35. CASE RemoveWorktree(t)
  BY <1>35 DEF RemoveWorktree
<1>36. CASE RemoveWorktreeRaises(t)
  BY <1>36 DEF RemoveWorktreeRaises
<1>37. CASE EndRecord(t)
  BY <1>37 DEF EndRecord
<1>38. CASE ConcludeFailure(t)
  BY <1>38 DEF ConcludeFailure
<1>39. CASE ConcludeDryRun(t)
  BY <1>39 DEF ConcludeDryRun
<1>40. CASE ConcludeSuccess(t)
  BY <1>40 DEF ConcludeSuccess
<1>41. CASE ConcludeUncleaned(t)
  BY <1>41 DEF ConcludeUncleaned
<1> QED BY <1>1, <1>2, <1>3, <1>4, <1>5, <1>6, <1>7, <1>8, <1>9, <1>10, <1>11,
    <1>12, <1>13, <1>14, <1>15, <1>16, <1>17, <1>18, <1>19, <1>20, <1>21, <1>22,
    <1>23, <1>24, <1>25, <1>26, <1>27, <1>28, <1>29, <1>30, <1>31, <1>32, <1>33,
    <1>34, <1>35, <1>36, <1>37, <1>38, <1>39, <1>40, <1>41 DEF Start, Execute

\* A thread's step keeps what it knows about itself.
LEMMA OwnStep ==
  ASSUME TypeOK, StepsKnow, NEW t \in Txs, Start(t) \/ Execute(t)
  PROVE  Knows(t)'
<1> Knows(t)
  BY DEF StepsKnow
<1> USE ResultFields, BudgetOpsHold, TxAssumption
    DEF Knows, StatusAtStep, LockAtStep, Integrating, LandedAtStep, DeadAtStep, HeldAtStep,
        Reserved, Discarding, AfterMerge, Final, Pending, Step, TypeOK,
        mainVars, budgetVars, worldVars
<1>1. CASE FailClosed(t)
  BY <1>1 DEF FailClosed, Fail
<1>2. CASE ReadBase(t)
  BY <1>2 DEF ReadBase
<1>3. CASE ReadBaseFails(t)
  BY <1>3 DEF ReadBaseFails, Fail
<1>4. CASE AddWorktree(t)
  BY <1>4 DEF AddWorktree
<1>5. CASE AddWorktreeFails(t)
  BY <1>5 DEF AddWorktreeFails, Fail
<1>6. CASE RecordStart(t)
  BY <1>6 DEF RecordStart
<1>7. CASE CaptureBaseline(t)
  BY <1>7 DEF CaptureBaseline
<1>8. CASE BeginValidation(t)
  BY <1>8 DEF BeginValidation
<1>9. CASE StructuralReject(t)
  BY <1>9 DEF StructuralReject, Fail
<1>10. CASE ReserveBudget(t)
  BY <1>10 DEF ReserveBudget
<1>11. CASE ReserveRefused(t)
  BY <1>11 DEF ReserveRefused, Fail
<1>12. CASE RiskReject(t)
  BY <1>12 DEF RiskReject, Fail
<1>13. CASE ApplyPatch(t)
  BY <1>13 DEF ApplyPatch
<1>14. CASE PostApplyReject(t)
  BY <1>14 DEF PostApplyReject, Fail
<1>15. CASE PostApplyPass(t)
  BY <1>15 DEF PostApplyPass
<1>16. CASE UnexpectedChanges(t)
  BY <1>16 DEF UnexpectedChanges, Fail
<1>17. CASE DryRun(t)
  BY <1>17 DEF DryRun
<1>18. CASE Stage(t)
  BY <1>18 DEF Stage
<1>19. CASE CommitInWorktree(t)
  BY <1>19 DEF CommitInWorktree
<1>20. CASE LockIntegration(t)
  BY <1>20 DEF LockIntegration
<1>21. CASE StaleBase(t)
  BY <1>21 DEF StaleBase, Decide, HeadMoved
<1>22. CASE HeadMatches(t)
  BY <1>22 DEF HeadMatches, HeadMoved
<1>23. CASE MainDirty(t)
  BY <1>23 DEF MainDirty, Decide
<1>24. CASE MainClean(t)
  BY <1>24 DEF MainClean
<1>25. CASE FastForward(t)
  BY <1>25 DEF FastForward, Decide, Merge
<1>26. CASE FastForwardFails(t)
  BY <1>26 DEF FastForwardFails, Decide
<1>27. CASE FastForwardTimesOut(t)
  BY <1>27 DEF FastForwardTimesOut, Decide, Merge
<1>28. CASE Publish(t)
  BY <1>28 DEF Publish
<1>29. CASE Park(t)
  BY <1>29 DEF Park
<1>30. CASE Rollback(t)
  BY <1>30 DEF Rollback
<1>31. CASE Raise(t)
  BY <1>31 DEF Raise, Fail, MayRaise
<1>32. CASE HandleException(t)
  BY <1>32 DEF HandleException
<1>33. CASE HandleBare(t)
  BY <1>33 DEF HandleBare
<1>34. CASE HandleBaseless(t)
  BY <1>34 DEF HandleBaseless
<1>35. CASE RemoveWorktree(t)
  BY <1>35 DEF RemoveWorktree
<1>36. CASE RemoveWorktreeRaises(t)
  BY <1>36 DEF RemoveWorktreeRaises
<1>37. CASE EndRecord(t)
  BY <1>37 DEF EndRecord
<1>38. CASE ConcludeFailure(t)
  BY <1>38 DEF ConcludeFailure
<1>39. CASE ConcludeDryRun(t)
  BY <1>39 DEF ConcludeDryRun
<1>40. CASE ConcludeSuccess(t)
  BY <1>40 DEF ConcludeSuccess
<1>41. CASE ConcludeUncleaned(t)
  BY <1>41 DEF ConcludeUncleaned
<1> QED BY <1>1, <1>2, <1>3, <1>4, <1>5, <1>6, <1>7, <1>8, <1>9, <1>10, <1>11,
    <1>12, <1>13, <1>14, <1>15, <1>16, <1>17, <1>18, <1>19, <1>20, <1>21, <1>22,
    <1>23, <1>24, <1>25, <1>26, <1>27, <1>28, <1>29, <1>30, <1>31, <1>32, <1>33,
    <1>34, <1>35, <1>36, <1>37, <1>38, <1>39, <1>40, <1>41 DEF Start, Execute

LEMMA InitStepsKnow == Init => StepsKnow
BY TxAssumption
   DEF Init, StepsKnow, Knows, StatusAtStep, LockAtStep, Integrating, LandedAtStep, DeadAtStep,
       HeldAtStep, Reserved, Discarding, Final, B!BudgetInit, B!NotHeld

LEMMA NextStepsKnow == TypeOK /\ StepsKnow /\ [Next]_vars => StepsKnow'
<1> SUFFICES ASSUME TypeOK, StepsKnow, [Next]_vars PROVE StepsKnow'
  OBVIOUS
<1> USE DEF Knows, StatusAtStep, LockAtStep, Integrating, LandedAtStep, DeadAtStep,
           HeldAtStep
<1>1. ASSUME NEW t \in Txs, Start(t) \/ Execute(t) PROVE StepsKnow'
  <2>1. ASSUME NEW u \in Txs \ {t} PROVE Knows(u)'
    BY <1>1, <2>1, OthersUntouched DEF StepsKnow, Untouched
  <2> QED BY <1>1, <2>1, OwnStep DEF StepsKnow
<1>2. ASSUME Environment PROVE StepsKnow'
  <2> SUFFICES ASSUME NEW u \in Txs PROVE Knows(u)'
    BY DEF StepsKnow
  <2> Knows(u)
    BY DEF StepsKnow
  <2> USE DEF threadVars, mainVars, journalVars, budgetVars, worldVars
  <2>1. CASE \E c \in UserCommits : UserCommit(c)
    BY <2>1 DEF UserCommit
  <2>2. CASE UserEdit
    BY <2>2 DEF UserEdit
  <2>3. CASE Crash
    <3>1. ~reservations'[u].held /\ u \notin session'
      BY <2>3 DEF Crash, B!Reset, B!NotHeld
    <3>2. u \in dead' <=> (u \in dead \/ Running(u))
      BY <2>3 DEF Crash
    <3> QED BY <2>3, <3>1, <3>2, TxAssumption DEF Crash, Running, Reserved, Discarding, AfterMerge, Final
  <2>4. CASE \E t \in Txs : MergeOutlivesCrash(t)
    BY <2>4 DEF MergeOutlivesCrash, Merge, Discarding
  <2>5. CASE CleanupScan
    BY <2>5 DEF CleanupScan
  <2>6. CASE \E t \in Txs : CleanupOrphan(t)
    BY <2>6 DEF CleanupOrphan
  <2> QED BY <1>2, <2>1, <2>2, <2>3, <2>4, <2>5, <2>6 DEF Environment
<1>3. CASE UNCHANGED vars
  BY <1>3 DEF StepsKnow, vars, mainVars, budgetVars, worldVars
<1> QED BY <1>1, <1>2, <1>3 DEF Next

-----------------------------------------------------------------------------
\* The theorems.

\* In every reachable state the variables have their types, and the bookkeeping
\* of each thread agrees with its step, whatever fails and crashes.
THEOREM Bookkeeping == Spec => [](TypeOK /\ StepsKnow)
BY InitTypeOK, NextTypeOK, InitStepsKnow, NextStepsKnow, PTL DEF Spec

\* execute_transaction never leaves a variable outside its type.
THEOREM TypeCorrect == Spec => []TypeOK
BY Bookkeeping, PTL

\* A budget reservation lives exactly as long as its transaction may use it:
\* no path through execute_transaction leaks one or gives one up early.
THEOREM ReservationsLive == Spec => []ReservationLifetime
<1>1. TypeOK /\ StepsKnow => ReservationLifetime
  <2> SUFFICES ASSUME TypeOK, StepsKnow, NEW t \in Txs
               PROVE  /\ reservations[t].held => Running(t)
                      /\ (t \notin dead /\ pc[t] \in Reserved) => reservations[t].held
                      /\ (t \in landed \cap session /\ pc[t] # "done")
                            => reservations[t].held
    BY DEF ReservationLifetime
  <2> QED BY DEF StepsKnow, Knows, StatusAtStep, LandedAtStep, DeadAtStep, HeldAtStep,
                 Running, Reserved, Discarding, AfterMerge, Final
<1> QED BY <1>1, Bookkeeping, PTL

\* The integration lock is held by the living thread inside integrate_transaction and by
\* nobody else: no exception and no crash leaks it.
THEOREM LockNeverLeaks == Spec => []LockFollowsThread
<1>1. StepsKnow => LockFollowsThread
  BY DEF StepsKnow, Knows, LockAtStep, LockFollowsThread
<1> QED BY <1>1, Bookkeeping, PTL

\* The integration lock does what it is for: while one thread stands between
\* its check of HEAD and its merge, no other thread of the process moves main.
THEOREM MergesDoNotRace == Spec => NoRacingMerge
<1> DEFINE Quiet == \A t \in Txs \ dead : pc[t] \in {"headok", "cleanok"} =>
                       landed' \ landed \subseteq {t} \cup dead
<1>1. TypeOK /\ StepsKnow /\ [Next]_vars => [Quiet]_vars
  <2> SUFFICES ASSUME TypeOK, StepsKnow, Next, NEW t \in Txs \ dead,
                      pc[t] \in {"headok", "cleanok"}, NEW u \in landed' \ landed
               PROVE  u \in {t} \cup dead
    OBVIOUS
  <2>1. lock = t
    BY DEF StepsKnow, Knows, LockAtStep, Integrating
  <2>2. CASE Environment
    BY <2>2 DEF Environment, UserCommit, UserEdit, Crash, MergeOutlivesCrash, Merge,
                CleanupScan, CleanupOrphan, mainVars
  <2>3. ASSUME NEW x \in Txs, Start(x) \/ Execute(x) PROVE u \in {t} \cup dead
    <3>1. landed' = landed \/ FastForward(x) \/ FastForwardTimesOut(x)
      BY <2>3 DEF Start, Execute, FailClosed, ReadBase, ReadBaseFails, AddWorktree,
         AddWorktreeFails, RecordStart, CaptureBaseline, BeginValidation,
         StructuralReject, ReserveBudget, ReserveRefused, RiskReject, ApplyPatch,
         PostApplyReject, PostApplyPass, UnexpectedChanges, DryRun, Stage,
         CommitInWorktree, LockIntegration, StaleBase, HeadMatches, MainDirty,
         MainClean, FastForwardFails, Publish, Park, Rollback, Raise,
         HandleException, HandleBare, HandleBaseless, RemoveWorktree,
         RemoveWorktreeRaises, EndRecord, ConcludeFailure, ConcludeDryRun,
         ConcludeSuccess, ConcludeUncleaned, mainVars
    <3>2. landed' = landed \/ (landed' = landed \cup {x} /\ pc[x] = "cleanok" /\ x \notin dead)
      BY <3>1 DEF FastForward, FastForwardTimesOut, Decide, Step, Merge
    <3>3. (pc[x] = "cleanok" /\ x \notin dead) => lock = x
      BY DEF StepsKnow, Knows, LockAtStep, Integrating
    <3> QED BY <2>1, <3>2, <3>3
  <2> QED BY <2>2, <2>3 DEF Next
<1> QED BY <1>1, Bookkeeping, PTL DEF Spec, NoRacingMerge

-----------------------------------------------------------------------------
\* The engine implements the append-only log.

\* A step that leaves main and the bases alone, and every fate but t's, is a
\* stutter of the log, or ends the transaction t there.
LEMMA OneFate ==
  ASSUME NEW t \in Txs, main' = main, base' = base,
         \A u \in Txs \ {t} : Fate(u)' = Fate(u),
         \/ Fate(t)' = Fate(t)
         \/ Fate(t) \in {"new", "open"} /\ Fate(t)' = "closed"
  PROVE  Log!Close({t}) \/ UNCHANGED Log!logVars
<1>1. CASE Fate(t)' = Fate(t)
  BY <1>1 DEF Log!logVars
<1>2. CASE Fate(t) \in {"new", "open"} /\ Fate(t)' = "closed"
  BY <1>2 DEF Log!Close
<1> QED BY <1>1, <1>2

LEMMA ThreadImplementsLog ==
  ASSUME TypeOK, StepsKnow, NEW t \in Txs, Start(t) \/ Execute(t)
  PROVE  Log!LogNext \/ UNCHANGED Log!logVars
<1>1. \A u \in Txs \ {t} : Fate(u)' = Fate(u)
  BY OthersUntouched DEF Untouched, Fate
<1>2. LandedAtStep(t) /\ StatusAtStep(t) /\ DeadAtStep(t)
  BY DEF StepsKnow, Knows
<1>3. CASE Log!Close({t}) \/ UNCHANGED Log!logVars
  BY <1>3 DEF Log!LogNext
<1> USE DEF LandedAtStep, AfterMerge, Fate, CanLand, Step, Final, mainVars, worldVars,
            TypeOK
\* The steps on the way to main ...
<1>4. CASE AddWorktree(t) \/ RecordStart(t) \/ CaptureBaseline(t) \/
          BeginValidation(t) \/ ReserveBudget(t) \/ ApplyPatch(t) \/
          PostApplyPass(t) \/ Stage(t) \/ CommitInWorktree(t) \/
          LockIntegration(t) \/ HeadMatches(t) \/ MainClean(t)
  <2>1. main' = main /\ base' = base /\ Fate(t)' = Fate(t)
    BY <1>2, <1>4 DEF AddWorktree, RecordStart, CaptureBaseline, BeginValidation,
       ReserveBudget, ApplyPatch, PostApplyPass, Stage, CommitInWorktree,
       LockIntegration, HeadMatches, HeadMoved, MainClean
  <2> QED BY <1>1, <1>3, <2>1, OneFate
\* ... the steps that leave it ...
<1>5. CASE FailClosed(t) \/ ReadBaseFails(t) \/ AddWorktreeFails(t) \/
          StructuralReject(t) \/ ReserveRefused(t) \/ RiskReject(t) \/
          PostApplyReject(t) \/ UnexpectedChanges(t) \/ DryRun(t) \/
          StaleBase(t) \/ MainDirty(t) \/ FastForwardFails(t) \/
          Raise(t)
  <2>1. main' = main /\ base' = base
    BY <1>5 DEF FailClosed, Fail, ReadBaseFails, AddWorktreeFails, StructuralReject,
       ReserveRefused, RiskReject, PostApplyReject, UnexpectedChanges, DryRun,
       StaleBase, Decide, HeadMoved, MainDirty, FastForwardFails, Raise, MayRaise
  <2>2. Fate(t) \in {"new", "open"} /\ Fate(t)' = "closed"
    BY <1>2, <1>5 DEF FailClosed, Fail, ReadBaseFails, AddWorktreeFails,
       StructuralReject, ReserveRefused, RiskReject, PostApplyReject,
       UnexpectedChanges, DryRun, StaleBase, Decide, HeadMoved, MainDirty,
       FastForwardFails, Raise, MayRaise
  <2> QED BY <1>1, <1>3, <2>1, <2>2, OneFate
\* ... and the steps after it.
<1>6. CASE Publish(t) \/ Park(t) \/ Rollback(t) \/ HandleException(t) \/
          HandleBare(t) \/ HandleBaseless(t) \/ RemoveWorktree(t) \/
          RemoveWorktreeRaises(t) \/ EndRecord(t) \/
          ConcludeFailure(t) \/ ConcludeDryRun(t) \/
          ConcludeSuccess(t) \/ ConcludeUncleaned(t)
  <2>1. main' = main /\ base' = base /\ Fate(t)' = Fate(t)
    BY <1>2, <1>6 DEF Publish, Park, Rollback, HandleException, HandleBare,
       HandleBaseless, RemoveWorktree, RemoveWorktreeRaises, EndRecord,
       ConcludeFailure, ConcludeDryRun, ConcludeSuccess, ConcludeUncleaned
  <2> QED BY <1>1, <1>3, <2>1, OneFate
<1>7. CASE ReadBase(t)
  <2>1. Fate(t) = "new" /\ Fate(t)' = "open"
    BY <1>2, <1>7 DEF ReadBase
  <2>2. Log!Open(t)
    BY <1>1, <1>7, <2>1 DEF Log!Open, ReadBase
  <2> QED BY <2>2 DEF Log!LogNext
<1>8. CASE FastForward(t) \/ FastForwardTimesOut(t)
  <2>1. Fate(t) = "open" /\ Fate(t)' = "landed" /\ main = base[t]
        /\ main' = Append(main, t) /\ base' = base
    BY <1>2, <1>8 DEF FastForward, FastForwardTimesOut, Decide, Merge
  <2>2. Log!Land(t)
    BY <1>1, <2>1 DEF Log!Land
  <2> QED BY <2>2 DEF Log!LogNext
<1> QED BY <1>4, <1>5, <1>6, <1>7, <1>8 DEF Start, Execute

LEMMA EnvironmentImplementsLog ==
  ASSUME TypeOK, StepsKnow, Environment
  PROVE  Log!LogNext \/ UNCHANGED Log!logVars
<1> USE DEF threadVars, mainVars, worldVars, Fate
<1>1. ASSUME NEW c \in UserCommits, UserCommit(c) PROVE Log!Foreign(c)
  BY <1>1 DEF UserCommit, Log!Foreign
<1>2. ASSUME UserEdit \/ CleanupScan \/ \E t \in Txs : CleanupOrphan(t)
      PROVE  UNCHANGED Log!logVars
  <2>1. main' = main /\ base' = base /\ \A t \in Txs : Fate(t)' = Fate(t)
    BY <1>2 DEF UserEdit, CleanupScan, CleanupOrphan
  <2> QED BY <2>1 DEF Log!logVars
<1>3. ASSUME Crash PROVE \E lost \in SUBSET Txs : Log!Close(lost)
  <2> DEFINE lost == {t \in Txs : Fate(t) = "open" /\ pc[t] # "cleanok" /\ t \notin dead}
  <2>1. main' = main /\ base' = base
    BY <1>3 DEF Crash
  <2>2. \A t \in Txs : Fate(t)' = IF t \in lost THEN "closed" ELSE Fate(t)
    BY <1>3 DEF Crash, Running, CanLand, Final, TypeOK
  <2>3. \A t \in lost : Fate(t) = "open"
    OBVIOUS
  <2>4. lost \in SUBSET Txs
    OBVIOUS
  <2> HIDE DEF Fate, lost
  <2> QED BY <2>1, <2>2, <2>3, <2>4 DEF Log!Close
<1>4. ASSUME NEW t \in Txs, MergeOutlivesCrash(t) PROVE Log!Land(t)
  <2>1. Fate(t) = "open" /\ Fate(t)' = "landed"
    BY <1>4 DEF MergeOutlivesCrash, Merge, CanLand, TypeOK
  <2>2. \A u \in Txs \ {t} : Fate(u)' = Fate(u)
    BY <1>4 DEF MergeOutlivesCrash, Merge
  <2>3. main = base[t] /\ main' = Append(main, t) /\ base' = base
    BY <1>4 DEF MergeOutlivesCrash, Merge
  <2> HIDE DEF Fate
  <2> QED BY <2>1, <2>2, <2>3 DEF Log!Land
<1>5. CASE Crash
  BY <1>3, <1>5 DEF Log!LogNext
<1>6. CASE \/ \E c \in UserCommits : UserCommit(c)
           \/ \E t \in Txs : MergeOutlivesCrash(t)
  BY <1>1, <1>4, <1>6 DEF Log!LogNext
<1> HIDE DEF Fate
<1> QED BY <1>2, <1>5, <1>6 DEF Environment

LEMMA NextImplementsLog ==
  TypeOK /\ StepsKnow /\ [Next]_vars => [Log!LogNext]_(Log!logVars)
<1> SUFFICES ASSUME TypeOK, StepsKnow, [Next]_vars
             PROVE  Log!LogNext \/ UNCHANGED Log!logVars
  OBVIOUS
<1>1. CASE UNCHANGED vars
  BY <1>1 DEF vars, mainVars, worldVars, Log!logVars, Fate
<1> QED BY <1>1, ThreadImplementsLog, EnvironmentImplementsLog DEF Next

\* Whatever the threads, the user, the crashes and the operator do, main is the
\* append-only log of IntegrationLog: a transaction lands at most once, on top
\* of exactly the history it started from, and never after it was given up.
THEOREM EngineImplementsLog == Spec => ImplementsLog
<1>1. Init => Log!LogInit
  BY DEF Init, Log!LogInit, Fate
<1> QED BY <1>1, NextImplementsLog, Bookkeeping, PTL DEF Spec, ImplementsLog, Log!LogSpec
=============================================================================

------------------------- MODULE TransactionEndProofs -------------------------
(* Proofs about what a transaction leaves behind, for any transactions, user    *)
(* commits and faults: where its commit is on main, whether its result is true, *)
(* its worktree and its record in the crash journal.                            *)
EXTENDS TransactionProofs

-----------------------------------------------------------------------------
\* Main's history is serial.

\* What the log says of a landed transaction survives every step of the log.
LEMMA LogKeepsLanded ==
  ASSUME TypeOK, TypeOK', LandedOnBase, Log!LogNext \/ UNCHANGED Log!logVars
  PROVE  LandedOnBase'
<1> SUFFICES ASSUME NEW u \in landed'
             PROVE  \E i \in DOMAIN main' :
                       main'[i] = u /\ SubSeq(main', 1, i - 1) = base'[u]
  BY DEF LandedOnBase
<1> u \in Txs
  BY DEF TypeOK
<1> main \in Seq(Commits) /\ main' \in Seq(Commits)
  BY DEF TypeOK
<1> DEFINE fate == [t \in Txs |-> Fate(t)]
<1>1. \A t \in Txs : Fate(t) = "landed" <=> t \in landed
  BY DEF Fate
<1>2. Fate(u)' = "landed"
  BY DEF Fate
<1>3. CASE u \in landed /\ base'[u] = base[u] /\ main' = main
  BY <1>3 DEF LandedOnBase
<1>4. ASSUME u \in landed, base'[u] = base[u], NEW c \in Commits, main' = Append(main, c)
      PROVE  \E i \in DOMAIN main' : main'[i] = u /\ SubSeq(main', 1, i - 1) = base'[u]
  <2>1. PICK i \in DOMAIN main : main[i] = u /\ SubSeq(main, 1, i - 1) = base[u]
    BY <1>4 DEF LandedOnBase
  <2>2. i \in DOMAIN main' /\ main'[i] = main[i]
    BY <1>4
  <2>3. SubSeq(main', 1, i - 1) = SubSeq(main, 1, i - 1)
    BY <1>4, <2>2
  <2> QED BY <1>4, <2>1, <2>2, <2>3
<1>5. CASE UNCHANGED Log!logVars
  <2>1. main' = main /\ base' = base /\ fate' = fate
    BY <1>5 DEF Log!logVars
  <2>2. Fate(u)' = Fate(u)
    BY <2>1
  <2> QED BY <1>1, <1>2, <1>3, <2>1, <2>2
<1>6. ASSUME NEW t \in Txs, Log!Open(t) PROVE u \in landed /\ base'[u] = base[u] /\ main' = main
  <2>1. fate' = [fate EXCEPT ![t] = "open"] /\ base' = [base EXCEPT ![t] = main] /\ main' = main
    BY <1>6 DEF Log!Open
  <2>2. u # t /\ fate'[u] = fate[u]
    BY <1>2, <2>1
  <2> QED BY <1>1, <1>2, <2>1, <2>2 DEF TypeOK
<1>7. ASSUME NEW t \in Txs, Log!Land(t)
      PROVE  \E i \in DOMAIN main' : main'[i] = u /\ SubSeq(main', 1, i - 1) = base'[u]
  <2>1. /\ fate[t] = "open" /\ main = base[t]
        /\ main' = Append(main, t) /\ fate' = [fate EXCEPT ![t] = "landed"]
        /\ base' = base
    BY <1>7 DEF Log!Land
  <2>2. CASE u = t
    <3>1. Len(main) + 1 \in DOMAIN main' /\ main'[Len(main) + 1] = t
      BY <2>1
    <3>2. SubSeq(main', 1, Len(main)) = main
      BY <2>1
    <3> QED BY <2>1, <2>2, <3>1, <3>2
  <2>3. CASE u # t
    <3>1. fate'[u] = fate[u]
      BY <2>1, <2>3
    <3>2. u \in landed
      BY <1>1, <1>2, <3>1
    <3> QED BY <1>4, <2>1, <3>2 DEF Commits
  <2> QED BY <2>2, <2>3
<1>8. ASSUME NEW lost \in SUBSET Txs, Log!Close(lost)
      PROVE  u \in landed /\ base'[u] = base[u] /\ main' = main
  BY <1>1, <1>2, <1>8 DEF Log!Close
<1>9. ASSUME NEW c \in UserCommits, Log!Foreign(c)
      PROVE  u \in landed /\ base'[u] = base[u] /\ main' = Append(main, c)
  <2>1. fate' = fate /\ base' = base /\ main' = Append(main, c)
    BY <1>9 DEF Log!Foreign
  <2> QED BY <1>1, <1>2, <2>1
<1> QED BY <1>3, <1>4, <1>5, <1>6, <1>7, <1>8, <1>9 DEF Log!LogNext, Commits

\* Every transaction that reached main sits directly on the commit it read as
\* its base: integrate_transaction never lands a patch on a state its worktree
\* was not built from.
THEOREM MainIsSerial == Spec => []LandedOnBase
<1>1. Init => LandedOnBase
  BY DEF Init, LandedOnBase
<1>2. TypeOK /\ StepsKnow /\ LandedOnBase /\ [Next]_vars => LandedOnBase'
  <2> SUFFICES ASSUME TypeOK, StepsKnow, LandedOnBase, [Next]_vars PROVE LandedOnBase'
    OBVIOUS
  <2> QED BY NextTypeOK, NextImplementsLog, LogKeepsLanded
<1> QED BY <1>1, <1>2, Bookkeeping, PTL DEF Spec

-----------------------------------------------------------------------------
\* The inductive invariant behind the outcomes: how the result under
\* construction grows with the steps of its thread.

GivingUp == {"rollback", "except", "bare", "baseless"}
Failures == {"RETRYABLE", "HARD_STOP"}

StatusGrows(t) ==
  /\ pc[t] \notin Discarding \cup {"decided", "parking", "done"} =>
        result[t].status = "NONE"
  /\ pc[t] # "done" => ~result[t].success

FailureGrows(t) ==
  /\ pc[t] \notin GivingUp \cup Discarding \cup {"done", "escaped"} =>
        result[t].failure = "NONE"
  /\ pc[t] \in GivingUp => result[t].failure \in Failures
  /\ pc[t] \in Discarding =>
        IF result[t].status \in {"ROLLED_BACK", "FAILED"}
        THEN result[t].failure \in Failures ELSE result[t].failure = "NONE"

\* INTEGRATED is only said of a commit on main, and of every such commit unless
\* a merge may be killed after it moved the ref.
StatusTrue(t) ==
  /\ result[t].status = "INTEGRATED" => t \in landed
  /\ ("timeout" \notin config.faults /\ t \in landed /\ pc[t] \in AfterMerge) =>
        result[t].status = "INTEGRATED"

\* How a transaction may end.
Ends(t) ==
  LET r == result[t]
  IN \/ r.status = "INTEGRATED" /\ t \in landed /\ r.success /\ r.failure = "NONE"
     \/ r.status = "INTEGRATED" /\ t \in landed /\ ~r.success /\ r.failure = "ROLLBACK_FAILED"
     \/ r.status \in Pending /\ ~r.success /\ r.failure = "NONE"
     \/ r.status = "DRY_RUN" /\ t \notin landed /\ r.success /\ r.failure = "NONE"
     \/ /\ r.status \in {"NONE", "ROLLED_BACK", "FAILED"} /\ t \notin landed
        /\ ~r.success /\ r.failure \in Failures \cup {"ROLLBACK_FAILED"}

EndsAsOutcome(t) == pc[t] = "done" => Ends(t)

Reports(t) == StatusGrows(t) /\ FailureGrows(t) /\ StatusTrue(t) /\ EndsAsOutcome(t)

ResultsGrow == \A t \in Txs : Reports(t)

LEMMA ConfigStays == [Next]_vars => config' = config
<1> SUFFICES ASSUME [Next]_vars PROVE config' = config
  OBVIOUS
<1> USE DEF worldVars, Decide, Merge
<1>1. CASE UNCHANGED vars
  BY <1>1 DEF vars
<1>2. CASE Environment
  BY <1>2 DEF Environment, UserCommit, UserEdit, Crash, MergeOutlivesCrash, CleanupScan,
              CleanupOrphan
<1>3. ASSUME NEW t \in Txs, Start(t) \/ Execute(t) PROVE config' = config
  BY <1>3 DEF Start, Execute, FailClosed, ReadBase, ReadBaseFails, AddWorktree,
     AddWorktreeFails, RecordStart, CaptureBaseline, BeginValidation,
     StructuralReject, ReserveBudget, ReserveRefused, RiskReject, ApplyPatch,
     PostApplyReject, PostApplyPass, UnexpectedChanges, DryRun, Stage,
     CommitInWorktree, LockIntegration, StaleBase, HeadMatches, MainDirty, MainClean,
     FastForward, FastForwardFails, FastForwardTimesOut, Publish, Park, Rollback,
     Raise, HandleException, HandleBare, HandleBaseless, RemoveWorktree,
     RemoveWorktreeRaises, EndRecord, ConcludeFailure, ConcludeDryRun,
     ConcludeSuccess, ConcludeUncleaned
<1> QED BY <1>1, <1>2, <1>3 DEF Next

\* Updating one field of a result leaves its other fields alone.
LEMMA ResultKeeps ==
  ASSUME result \in [Txs -> Results], NEW t \in Txs, NEW x
  PROVE  /\ LET r == [result EXCEPT ![t].status = x][t]
            IN /\ r.status = x /\ r.failure = result[t].failure
               /\ r.success = result[t].success
         /\ LET r == [result EXCEPT ![t].failure = x][t]
            IN /\ r.failure = x /\ r.status = result[t].status
               /\ r.success = result[t].success
         /\ LET r == [result EXCEPT ![t].success = x][t]
            IN /\ r.success = x /\ r.status = result[t].status
               /\ r.failure = result[t].failure
         /\ LET r == [result EXCEPT ![t].cleanupError = x][t]
            IN /\ r.failure = result[t].failure /\ r.status = result[t].status
               /\ r.success = result[t].success
BY DEF Results

\* A thread's step keeps its own result in order.
LEMMA OwnResult ==
  ASSUME TypeOK, StepsKnow, ResultsGrow, NEW t \in Txs, Start(t) \/ Execute(t)
  PROVE  Reports(t)'
<1> Reports(t) /\ StatusAtStep(t) /\ LandedAtStep(t)
  BY DEF StepsKnow, Knows, ResultsGrow
<1> USE ResultKeeps, TxAssumption
    DEF Reports, StatusGrows, FailureGrows, StatusTrue, EndsAsOutcome, Ends,
        GivingUp, Failures,
        StatusAtStep, LandedAtStep, Discarding, AfterMerge, Pending, Step, TypeOK,
        mainVars, worldVars
<1>1. CASE FailClosed(t)
  BY <1>1 DEF FailClosed, Fail
<1>2. CASE ReadBase(t)
  BY <1>2 DEF ReadBase
<1>3. CASE ReadBaseFails(t)
  BY <1>3 DEF ReadBaseFails, Fail
<1>4. CASE AddWorktree(t)
  BY <1>4 DEF AddWorktree
<1>5. CASE AddWorktreeFails(t)
  BY <1>5 DEF AddWorktreeFails, Fail
<1>6. CASE RecordStart(t)
  BY <1>6 DEF RecordStart
<1>7. CASE CaptureBaseline(t)
  BY <1>7 DEF CaptureBaseline
<1>8. CASE BeginValidation(t)
  BY <1>8 DEF BeginValidation
<1>9. CASE StructuralReject(t)
  BY <1>9 DEF StructuralReject, Fail
<1>10. CASE ReserveBudget(t)
  BY <1>10 DEF ReserveBudget
<1>11. CASE ReserveRefused(t)
  BY <1>11 DEF ReserveRefused, Fail
<1>12. CASE RiskReject(t)
  BY <1>12 DEF RiskReject, Fail
<1>13. CASE ApplyPatch(t)
  BY <1>13 DEF ApplyPatch
<1>14. CASE PostApplyReject(t)
  BY <1>14 DEF PostApplyReject, Fail
<1>15. CASE PostApplyPass(t)
  BY <1>15 DEF PostApplyPass
<1>16. CASE UnexpectedChanges(t)
  BY <1>16 DEF UnexpectedChanges, Fail
<1>17. CASE DryRun(t)
  BY <1>17 DEF DryRun
<1>18. CASE Stage(t)
  BY <1>18 DEF Stage
<1>19. CASE CommitInWorktree(t)
  BY <1>19 DEF CommitInWorktree
<1>20. CASE LockIntegration(t)
  BY <1>20 DEF LockIntegration
<1>21. CASE StaleBase(t)
  BY <1>21 DEF StaleBase, Decide, HeadMoved
<1>22. CASE HeadMatches(t)
  BY <1>22 DEF HeadMatches, HeadMoved
<1>23. CASE MainDirty(t)
  BY <1>23 DEF MainDirty, Decide
<1>24. CASE MainClean(t)
  BY <1>24 DEF MainClean
<1>25. CASE FastForward(t)
  BY <1>25 DEF FastForward, Decide, Merge
<1>26. CASE FastForwardFails(t)
  BY <1>26 DEF FastForwardFails, Decide
<1>27. CASE FastForwardTimesOut(t)
  BY <1>27 DEF FastForwardTimesOut, Decide, Merge
<1>28. CASE Publish(t)
  BY <1>28 DEF Publish
<1>29. CASE Park(t)
  BY <1>29 DEF Park
<1>30. CASE Rollback(t)
  BY <1>30 DEF Rollback
<1>31. CASE Raise(t)
  BY <1>31 DEF Raise, Fail, MayRaise
<1>32. CASE HandleException(t)
  BY <1>32 DEF HandleException
<1>33. CASE HandleBare(t)
  BY <1>33 DEF HandleBare
<1>34. CASE HandleBaseless(t)
  <2>1. CASE Step(t, "baseless", "done") /\ result' = [result EXCEPT ![t].status = "FAILED"]
    BY <1>34, <2>1 DEF HandleBaseless
  <2>2. CASE Step(t, "baseless", "escaped") /\ UNCHANGED result
    BY <1>34, <2>2 DEF HandleBaseless
  <2> QED BY <1>34, <2>1, <2>2 DEF HandleBaseless
<1>35. CASE RemoveWorktree(t)
  BY <1>35 DEF RemoveWorktree
<1>36. CASE RemoveWorktreeRaises(t)
  BY <1>36 DEF RemoveWorktreeRaises
<1>37. CASE EndRecord(t)
  BY <1>37 DEF EndRecord
<1>38. CASE ConcludeFailure(t)
  BY <1>38 DEF ConcludeFailure
<1>39. CASE ConcludeDryRun(t)
  BY <1>39 DEF ConcludeDryRun
<1>40. CASE ConcludeSuccess(t)
  BY <1>40 DEF ConcludeSuccess
<1>41. CASE ConcludeUncleaned(t)
  BY <1>41 DEF ConcludeUncleaned
<1> QED BY <1>1, <1>2, <1>3, <1>4, <1>5, <1>6, <1>7, <1>8, <1>9, <1>10, <1>11,
    <1>12, <1>13, <1>14, <1>15, <1>16, <1>17, <1>18, <1>19, <1>20, <1>21, <1>22,
    <1>23, <1>24, <1>25, <1>26, <1>27, <1>28, <1>29, <1>30, <1>31, <1>32, <1>33,
    <1>34, <1>35, <1>36, <1>37, <1>38, <1>39, <1>40, <1>41 DEF Start, Execute

LEMMA InitResultsGrow == Init => ResultsGrow
BY DEF Init, NoResult, ResultsGrow, Reports, StatusGrows, FailureGrows, StatusTrue,
       EndsAsOutcome, GivingUp, Discarding

LEMMA NextResultsGrow ==
  TypeOK /\ StepsKnow /\ ResultsGrow /\ [Next]_vars => ResultsGrow'
<1> SUFFICES ASSUME TypeOK, StepsKnow, ResultsGrow, [Next]_vars PROVE ResultsGrow'
  OBVIOUS
<1> USE DEF Reports, StatusGrows, FailureGrows, StatusTrue, EndsAsOutcome, Ends
<1>1. ASSUME NEW u \in Txs, pc'[u] = pc[u], result'[u] = result[u],
             u \in landed' <=> u \in landed
      PROVE  Reports(u)'
  BY <1>1, ConfigStays DEF ResultsGrow
<1>2. ASSUME NEW t \in Txs, Start(t) \/ Execute(t) PROVE ResultsGrow'
  <2>1. ASSUME NEW u \in Txs \ {t} PROVE Reports(u)'
    <3>1. Untouched(u)
      BY <1>2, OthersUntouched
    <3> QED BY <1>1, <3>1 DEF Untouched
  <2>2. Reports(t)'
    BY <1>2, OwnResult
  <2> QED BY <2>1, <2>2 DEF ResultsGrow
<1>3. ASSUME Environment PROVE ResultsGrow'
  <2> SUFFICES ASSUME NEW u \in Txs PROVE Reports(u)'
    BY DEF ResultsGrow
  <2> USE DEF threadVars, mainVars
  <2>1. pc' = pc /\ result' = result
    BY <1>3 DEF Environment, UserCommit, UserEdit, Crash, MergeOutlivesCrash,
                CleanupScan, CleanupOrphan
  <2>2. CASE landed' = landed
    BY <1>1, <2>1, <2>2
  <2>3. ASSUME NEW t \in Txs, MergeOutlivesCrash(t) PROVE Reports(u)'
    <3>1. CASE u = t
      BY <2>1, <2>3, <3>1, ConfigStays
      DEF MergeOutlivesCrash, Merge, ResultsGrow, AfterMerge, Discarding, GivingUp
    <3>2. CASE u # t
      BY <1>1, <2>1, <2>3, <3>2 DEF MergeOutlivesCrash, Merge
    <3> QED BY <3>1, <3>2
  <2> QED BY <1>3, <2>2, <2>3 DEF Environment, UserCommit, UserEdit, Crash, CleanupScan,
                                  CleanupOrphan
<1>4. CASE UNCHANGED vars
  BY <1>1, <1>4 DEF vars, mainVars, ResultsGrow
<1> QED BY <1>2, <1>3, <1>4 DEF Next

\* In every reachable state the result of each transaction agrees with its step
\* and with main: the success flag, the status and the failure are set together.
THEOREM ResultBookkeeping == Spec => []ResultsGrow
BY InitResultsGrow, NextResultsGrow, Bookkeeping, PTL DEF Spec

\* A finished transaction is on main exactly if its result says INTEGRATED,
\* through crashes, failed commands and the user's commits, unless a merge is
\* killed after it moved the ref.
THEOREM StatusIsTrue == Spec => []OutcomeTruthful
<1>1. TypeOK /\ ResultsGrow => OutcomeTruthful
  BY DEF OutcomeTruthful, ResultsGrow, Reports, StatusTrue, AfterMerge
<1> QED BY <1>1, Bookkeeping, ResultBookkeeping, PTL

\* Every way out of execute_transaction is one of the outcomes of module Outcomes,
\* which is what the recovery loop assumes: a failure that may be retried has
\* left no commit on main and no retained worktree.
THEOREM ContractKept == Spec => []EndsAsPromised
<1>1. TypeOK /\ ResultsGrow => EndsAsPromised
  <2> SUFFICES ASSUME TypeOK, NEW t \in Txs, Ends(t)
               PROVE  OutcomeOf(t) \in X!TransactionOutcomes
    BY DEF EndsAsPromised, ResultsGrow, Reports, EndsAsOutcome
  <2>1. result[t].success \in BOOLEAN
    BY DEF TypeOK, Results
  <2> USE DEF OutcomeOf, X!Outcome, X!TransactionOutcomes
  <2>2. CASE result[t].status = "INTEGRATED"
    BY <2>1, <2>2 DEF Ends, Pending, X!Integrated, X!Uncleaned
  <2>3. CASE result[t].status \in Pending
    BY <2>1, <2>3 DEF Ends, Pending, X!Parked, X!ParkedLanded
  <2>4. CASE result[t].status = "DRY_RUN"
    <3>1. /\ (result[t].status \in Pending \cup {"INTEGRATED"}) = FALSE
          /\ result[t].status \notin Pending
      BY <2>4 DEF Pending
    <3>2. result[t].success = TRUE /\ result[t].failure = "NONE" /\ t \notin landed
      BY <2>1, <2>4 DEF Ends, Pending
    <3>3. OutcomeOf(t) = X!DryRunPassed
      BY <3>1, <3>2 DEF X!DryRunPassed
    <3> QED BY <3>3
  <2>5. CASE result[t].status \in {"NONE", "ROLLED_BACK", "FAILED"}
    <3>1. result[t].failure \in {"RETRYABLE", "HARD_STOP", "ROLLBACK_FAILED"}
      BY <2>5 DEF Ends, Failures, Pending
    <3>2. /\ (result[t].status \in Pending \cup {"INTEGRATED"}) = FALSE
          /\ result[t].status \notin Pending
      BY <2>5 DEF Pending
    <3>3. result[t].success = FALSE /\ t \notin landed
      BY <2>1, <2>5 DEF Ends, Pending
    <3>4. OutcomeOf(t) = X!Failed(result[t].failure)
      BY <3>2, <3>3 DEF X!Failed
    <3> QED BY <3>1, <3>4
  <2> QED BY <2>2, <2>3, <2>4, <2>5 DEF Ends
<1> QED BY <1>1, Bookkeeping, ResultBookkeeping, PTL

-----------------------------------------------------------------------------
\* The inductive invariant: where a transaction stands tells which of its
\* worktree and its journal record exist.

Recorded(t) == disk[t] # J!Absent

Unrecorded == {"idle", "based", "bare", "baseless", "escaped"}

Gone(t) == t \notin wt /\ ~Recorded(t)

\* Without a swallowed fault: nothing before the worktree is added, no worktree
\* without a record after record_start, nothing after a cleanup that worked.
NothingLost(t) ==
  /\ pc[t] \in Unrecorded => Gone(t)
  /\ pc[t] = "added" => ~Recorded(t)
  /\ (pc[t] # "added" /\ t \in wt) => Recorded(t)
  /\ pc[t] = "ending" => t \notin wt
  /\ (pc[t] = "cleaned" /\ ~result[t].cleanupError) => Gone(t)
  /\ (pc[t] = "done" /\ result[t].status \notin Pending /\ ~result[t].cleanupError)
        => Gone(t)

\* The steps that still need the worktree.
Working == {"added", "recorded", "baselined", "validating", "reserved", "applied",
            "validated", "staged", "committed", "locked", "headok", "cleanok",
            "decided", "parking"}

\* Without an operator and while the journal file can be written: the worktree
\* is there, with its record, for as long as it is needed, and stays when parked.
Retained(t) ==
  (pc[t] \in Working \/ (pc[t] = "done" /\ result[t].status \in Pending)) =>
     t \in wt /\ (pc[t] # "added" => Recorded(t))

Clean == config.faults \cap Swallowed = {}
Undisturbed == ~config.operator /\ "journal" \notin config.faults

StoresAgree ==
  /\ Clean => \A t \in Txs : NothingLost(t)
  /\ Undisturbed => orphans = {} /\ \A t \in Txs : Retained(t)

-----------------------------------------------------------------------------
\* The journal's operations.

\* While the file can be read and written, an operation on one record makes and
\* removes that record and no other.
LEMMA JournalOps ==
  ASSUME J!JournalTypeOK, "journal" \notin config.faults, NEW t \in Txs,
         NEW s \in J!States
  PROVE  /\ J!RecordStart(t, s) => Recorded(t)'
         /\ J!UpdateState(t, s) => disk' = disk
         /\ J!RecordEnd(t) => ~Recorded(t)'
         /\ (J!RecordStart(t, s) \/ J!UpdateState(t, s) \/ J!RecordEnd(t)) =>
               \A u \in Txs \ {t} : Recorded(u)' <=> Recorded(u)
<1> USE DEF Recorded, J!JournalTypeOK, J!Read, J!Write, J!States, J!Absent
<1>1. J!RecordStart(t, s) => disk' = [disk EXCEPT ![t] = s]
  BY DEF J!RecordStart
<1>2. J!UpdateState(t, s) => disk' = disk
  BY DEF J!UpdateState
<1>3. ASSUME J!RecordEnd(t)
      PROVE  ~Recorded(t)' /\ \A u \in Txs \ {t} : Recorded(u)' <=> Recorded(u)
  <2>1. \/ disk' = [J!Overlay(disk, pending) EXCEPT ![t] = J!Absent]
        \/ disk[t] = J!Absent /\ disk' = disk
    BY <1>3 DEF J!RecordEnd
  <2>2. \A u \in Txs : J!Overlay(disk, pending)[u] = J!Absent <=> disk[u] = J!Absent
    BY DEF J!Overlay
  <2>3. DOMAIN J!Overlay(disk, pending) = Txs
    BY DEF J!Overlay
  <2>4. J!Overlay(disk, pending) = [u \in Txs |-> J!Overlay(disk, pending)[u]]
    BY DEF J!Overlay
  <2> QED BY <2>1, <2>2, <2>4
<1> QED BY <1>1, <1>2, <1>3

-----------------------------------------------------------------------------
\* The steps of a thread.

\* What a step of another thread leaves of thread u's worktree and record.
KeepsStore(u) ==
  /\ u \in wt' <=> u \in wt
  /\ "journal" \notin config.faults => (Recorded(u)' <=> Recorded(u))

\* The steps that create or remove a worktree or a record.
StoreStep(t) == \/ AddWorktree(t) \/ AddWorktreeFails(t) \/ RecordStart(t)
                \/ RemoveWorktree(t) \/ RemoveWorktreeRaises(t) \/ EndRecord(t)

LEMMA OtherSteps ==
  ASSUME NEW t \in Txs, Start(t) \/ Execute(t)
  PROVE  StoreStep(t) \/ (wt' = wt /\ disk' = disk)
<1> USE DEF journalVars, J!UpdateState
<1>1. CASE \/ FailClosed(t) \/ ReadBase(t) \/ ReadBaseFails(t) \/ CaptureBaseline(t)
          \/ BeginValidation(t) \/ StructuralReject(t) \/ ReserveBudget(t)
          \/ ReserveRefused(t) \/ RiskReject(t) \/ ApplyPatch(t) \/ PostApplyReject(t)
  BY <1>1 DEF FailClosed, ReadBase, ReadBaseFails, CaptureBaseline, BeginValidation,
     StructuralReject, ReserveBudget, ReserveRefused, RiskReject, ApplyPatch,
     PostApplyReject
<1>2. CASE \/ PostApplyPass(t) \/ UnexpectedChanges(t) \/ DryRun(t) \/ Stage(t)
          \/ CommitInWorktree(t) \/ LockIntegration(t) \/ StaleBase(t)
          \/ HeadMatches(t) \/ MainDirty(t) \/ MainClean(t)
  BY <1>2 DEF PostApplyPass, UnexpectedChanges, DryRun, Stage, CommitInWorktree,
     LockIntegration, StaleBase, HeadMatches, MainDirty, MainClean, Decide
<1>3. CASE \/ FastForward(t) \/ FastForwardFails(t) \/ FastForwardTimesOut(t)
          \/ Publish(t) \/ Park(t) \/ Rollback(t) \/ Raise(t) \/ HandleException(t)
  BY <1>3 DEF FastForward, FastForwardFails, FastForwardTimesOut, Publish, Park,
     Rollback, Raise, HandleException, Decide
<1>4. CASE \/ HandleBare(t) \/ HandleBaseless(t) \/ ConcludeFailure(t)
          \/ ConcludeDryRun(t) \/ ConcludeSuccess(t) \/ ConcludeUncleaned(t)
  BY <1>4 DEF HandleBare, HandleBaseless, ConcludeFailure, ConcludeDryRun,
     ConcludeSuccess, ConcludeUncleaned
<1> QED BY <1>1, <1>2, <1>3, <1>4 DEF Start, Execute, StoreStep

\* A thread's step leaves the stores of the others alone, and the operator's list.
LEMMA OthersKeepStores ==
  ASSUME TypeOK, NEW t \in Txs, Start(t) \/ Execute(t)
  PROVE  \A u \in Txs \ {t} : KeepsStore(u)
<1> SUFFICES ASSUME NEW u \in Txs \ {t} PROVE KeepsStore(u)
  OBVIOUS
<1> USE DEF KeepsStore, Recorded
<1>1. CASE wt' = wt /\ disk' = disk
  BY <1>1
<1>2. CASE RecordStart(t) \/ EndRecord(t)
  BY <1>2, JournalOps DEF RecordStart, EndRecord, TypeOK, J!States
<1>3. CASE AddWorktree(t) \/ AddWorktreeFails(t) \/ RemoveWorktree(t) \/ RemoveWorktreeRaises(t)
  BY <1>3 DEF AddWorktree, AddWorktreeFails, RemoveWorktree, RemoveWorktreeRaises, journalVars
<1> QED BY <1>1, <1>2, <1>3, OtherSteps DEF StoreStep

LEMMA ThreadsKeepOrphans ==
  ASSUME NEW t \in Txs, Start(t) \/ Execute(t)
  PROVE  orphans' = orphans
<1> USE DEF worldVars
<1>1. CASE FailClosed(t)
  BY <1>1 DEF FailClosed, Fail
<1>2. CASE ReadBase(t)
  BY <1>2 DEF ReadBase
<1>3. CASE ReadBaseFails(t)
  BY <1>3 DEF ReadBaseFails, Fail
<1>4. CASE AddWorktree(t)
  BY <1>4 DEF AddWorktree
<1>5. CASE AddWorktreeFails(t)
  BY <1>5 DEF AddWorktreeFails, Fail
<1>6. CASE RecordStart(t)
  BY <1>6 DEF RecordStart
<1>7. CASE CaptureBaseline(t)
  BY <1>7 DEF CaptureBaseline
<1>8. CASE BeginValidation(t)
  BY <1>8 DEF BeginValidation
<1>9. CASE StructuralReject(t)
  BY <1>9 DEF StructuralReject, Fail
<1>10. CASE ReserveBudget(t)
  BY <1>10 DEF ReserveBudget
<1>11. CASE ReserveRefused(t)
  BY <1>11 DEF ReserveRefused, Fail
<1>12. CASE RiskReject(t)
  BY <1>12 DEF RiskReject, Fail
<1>13. CASE ApplyPatch(t)
  BY <1>13 DEF ApplyPatch
<1>14. CASE PostApplyReject(t)
  BY <1>14 DEF PostApplyReject, Fail
<1>15. CASE PostApplyPass(t)
  BY <1>15 DEF PostApplyPass
<1>16. CASE UnexpectedChanges(t)
  BY <1>16 DEF UnexpectedChanges, Fail
<1>17. CASE DryRun(t)
  BY <1>17 DEF DryRun
<1>18. CASE Stage(t)
  BY <1>18 DEF Stage
<1>19. CASE CommitInWorktree(t)
  BY <1>19 DEF CommitInWorktree
<1>20. CASE LockIntegration(t)
  BY <1>20 DEF LockIntegration
<1>21. CASE StaleBase(t)
  BY <1>21 DEF StaleBase, Decide, HeadMoved
<1>22. CASE HeadMatches(t)
  BY <1>22 DEF HeadMatches, HeadMoved
<1>23. CASE MainDirty(t)
  BY <1>23 DEF MainDirty, Decide
<1>24. CASE MainClean(t)
  BY <1>24 DEF MainClean
<1>25. CASE FastForward(t)
  BY <1>25 DEF FastForward, Decide, Merge
<1>26. CASE FastForwardFails(t)
  BY <1>26 DEF FastForwardFails, Decide
<1>27. CASE FastForwardTimesOut(t)
  BY <1>27 DEF FastForwardTimesOut, Decide, Merge
<1>28. CASE Publish(t)
  BY <1>28 DEF Publish
<1>29. CASE Park(t)
  BY <1>29 DEF Park
<1>30. CASE Rollback(t)
  BY <1>30 DEF Rollback
<1>31. CASE Raise(t)
  BY <1>31 DEF Raise, Fail, MayRaise
<1>32. CASE HandleException(t)
  BY <1>32 DEF HandleException
<1>33. CASE HandleBare(t)
  BY <1>33 DEF HandleBare
<1>34. CASE HandleBaseless(t)
  BY <1>34 DEF HandleBaseless
<1>35. CASE RemoveWorktree(t)
  BY <1>35 DEF RemoveWorktree
<1>36. CASE RemoveWorktreeRaises(t)
  BY <1>36 DEF RemoveWorktreeRaises
<1>37. CASE EndRecord(t)
  BY <1>37 DEF EndRecord
<1>38. CASE ConcludeFailure(t)
  BY <1>38 DEF ConcludeFailure
<1>39. CASE ConcludeDryRun(t)
  BY <1>39 DEF ConcludeDryRun
<1>40. CASE ConcludeSuccess(t)
  BY <1>40 DEF ConcludeSuccess
<1>41. CASE ConcludeUncleaned(t)
  BY <1>41 DEF ConcludeUncleaned
<1> QED BY <1>1, <1>2, <1>3, <1>4, <1>5, <1>6, <1>7, <1>8, <1>9, <1>10, <1>11,
    <1>12, <1>13, <1>14, <1>15, <1>16, <1>17, <1>18, <1>19, <1>20, <1>21, <1>22,
    <1>23, <1>24, <1>25, <1>26, <1>27, <1>28, <1>29, <1>30, <1>31, <1>32, <1>33,
    <1>34, <1>35, <1>36, <1>37, <1>38, <1>39, <1>40, <1>41 DEF Start, Execute

\* Updating the result's other fields does not set a cleanup error.
LEMMA CleanupErrorKept ==
  ASSUME result \in [Txs -> Results], NEW t \in Txs, NEW x
  PROVE  /\ [result EXCEPT ![t].status = x][t].cleanupError = result[t].cleanupError
         /\ [result EXCEPT ![t].failure = x][t].cleanupError = result[t].cleanupError
         /\ [result EXCEPT ![t].success = x][t].cleanupError = result[t].cleanupError
         /\ [result EXCEPT ![t].cleanupError = x][t].cleanupError = x
BY DEF Results

\* A thread's step keeps its own stores in order.
LEMMA OwnStores ==
  ASSUME TypeOK, StepsKnow, ResultsGrow, StoresAgree, NEW t \in Txs,
         Start(t) \/ Execute(t)
  PROVE  /\ Clean => NothingLost(t)'
         /\ Undisturbed => Retained(t)'
<1> DEFINE Kept == (Clean => NothingLost(t)') /\ (Undisturbed => Retained(t)')
<1> SUFFICES Kept
  OBVIOUS
<1>0. /\ Clean => NothingLost(t)
      /\ Undisturbed => Retained(t)
      /\ StatusAtStep(t) /\ StatusGrows(t)
      /\ J!JournalTypeOK
      /\ Clean => "journal" \notin config.faults
  BY DEF StoresAgree, StepsKnow, Knows, ResultsGrow, Reports, TypeOK, Clean, Swallowed
<1> USE <1>0, ResultKeeps, CleanupErrorKept
    DEF Undisturbed, NothingLost, Retained, Gone, Recorded, Unrecorded, Working,
        StatusAtStep, StatusGrows, Discarding, Pending, Step, TypeOK, journalVars,
        J!UpdateState
<1>1. CASE FailClosed(t)
  BY <1>1 DEF FailClosed, Fail
<1>2. CASE ReadBase(t)
  BY <1>2 DEF ReadBase
<1>3. CASE ReadBaseFails(t)
  BY <1>3 DEF ReadBaseFails, Fail
<1>4. CASE AddWorktree(t)
  BY <1>4 DEF AddWorktree
<1>5. CASE AddWorktreeFails(t)
  BY <1>5 DEF AddWorktreeFails, Fail, Clean, Swallowed
<1>6. CASE RecordStart(t)
  <2>1. "journal" \notin config.faults => disk'[t] # J!Absent
    BY <1>6, JournalOps DEF RecordStart, J!States
  <2> QED BY <1>6, <2>1 DEF RecordStart
<1>7. CASE CaptureBaseline(t)
  BY <1>7 DEF CaptureBaseline
<1>8. CASE BeginValidation(t)
  BY <1>8 DEF BeginValidation
<1>9. CASE StructuralReject(t)
  BY <1>9 DEF StructuralReject, Fail
<1>10. CASE ReserveBudget(t)
  BY <1>10 DEF ReserveBudget
<1>11. CASE ReserveRefused(t)
  BY <1>11 DEF ReserveRefused, Fail
<1>12. CASE RiskReject(t)
  BY <1>12 DEF RiskReject, Fail
<1>13. CASE ApplyPatch(t)
  BY <1>13 DEF ApplyPatch
<1>14. CASE PostApplyReject(t)
  BY <1>14 DEF PostApplyReject, Fail
<1>15. CASE PostApplyPass(t)
  BY <1>15 DEF PostApplyPass
<1>16. CASE UnexpectedChanges(t)
  BY <1>16 DEF UnexpectedChanges, Fail
<1>17. CASE DryRun(t)
  BY <1>17 DEF DryRun
<1>18. CASE Stage(t)
  BY <1>18 DEF Stage
<1>19. CASE CommitInWorktree(t)
  BY <1>19 DEF CommitInWorktree
<1>20. CASE LockIntegration(t)
  BY <1>20 DEF LockIntegration
<1>21. CASE StaleBase(t)
  BY <1>21 DEF StaleBase, Decide, HeadMoved
<1>22. CASE HeadMatches(t)
  BY <1>22 DEF HeadMatches, HeadMoved
<1>23. CASE MainDirty(t)
  BY <1>23 DEF MainDirty, Decide
<1>24. CASE MainClean(t)
  BY <1>24 DEF MainClean
<1>25. CASE FastForward(t)
  BY <1>25 DEF FastForward, Decide, Merge
<1>26. CASE FastForwardFails(t)
  BY <1>26 DEF FastForwardFails, Decide
<1>27. CASE FastForwardTimesOut(t)
  BY <1>27 DEF FastForwardTimesOut, Decide, Merge
<1>28. CASE Publish(t)
  BY <1>28 DEF Publish
<1>29. CASE Park(t)
  BY <1>29 DEF Park
<1>30. CASE Rollback(t)
  BY <1>30 DEF Rollback
<1>31. CASE Raise(t)
  BY <1>31 DEF Raise, Fail, MayRaise
<1>32. CASE HandleException(t)
  BY <1>32 DEF HandleException
<1>33. CASE HandleBare(t)
  BY <1>33 DEF HandleBare
<1>34. CASE HandleBaseless(t)
  <2>1. CASE Step(t, "baseless", "done") /\ result' = [result EXCEPT ![t].status = "FAILED"]
    BY <1>34, <2>1 DEF HandleBaseless
  <2>2. CASE Step(t, "baseless", "escaped") /\ UNCHANGED result
    BY <1>34, <2>2 DEF HandleBaseless
  <2> QED BY <1>34, <2>1, <2>2 DEF HandleBaseless
<1>35. CASE RemoveWorktree(t)
  BY <1>35 DEF RemoveWorktree, Clean, Swallowed
<1>36. CASE RemoveWorktreeRaises(t)
  BY <1>36 DEF RemoveWorktreeRaises
<1>37. CASE EndRecord(t)
  <2>1. "journal" \notin config.faults => disk'[t] = J!Absent
    BY <1>37, JournalOps DEF EndRecord, J!States
  <2> QED BY <1>37, <2>1 DEF EndRecord
<1>38. CASE ConcludeFailure(t)
  BY <1>38 DEF ConcludeFailure
<1>39. CASE ConcludeDryRun(t)
  BY <1>39 DEF ConcludeDryRun
<1>40. CASE ConcludeSuccess(t)
  BY <1>40 DEF ConcludeSuccess
<1>41. CASE ConcludeUncleaned(t)
  BY <1>41 DEF ConcludeUncleaned
<1> QED BY <1>1, <1>2, <1>3, <1>4, <1>5, <1>6, <1>7, <1>8, <1>9, <1>10, <1>11,
    <1>12, <1>13, <1>14, <1>15, <1>16, <1>17, <1>18, <1>19, <1>20, <1>21, <1>22,
    <1>23, <1>24, <1>25, <1>26, <1>27, <1>28, <1>29, <1>30, <1>31, <1>32, <1>33,
    <1>34, <1>35, <1>36, <1>37, <1>38, <1>39, <1>40, <1>41 DEF Start, Execute

LEMMA InitStoresAgree == Init => StoresAgree
BY DEF Init, NoResult, StoresAgree, NothingLost, Retained, Gone, Recorded, Unrecorded,
       Working, Pending, J!JournalInit, J!NoRecords

LEMMA NextStoresAgree ==
  TypeOK /\ StepsKnow /\ ResultsGrow /\ StoresAgree /\ [Next]_vars => StoresAgree'
<1> SUFFICES ASSUME TypeOK, StepsKnow, ResultsGrow, StoresAgree, [Next]_vars
             PROVE  StoresAgree'
  OBVIOUS
<1>1. (Clean' <=> Clean) /\ (Undisturbed' <=> Undisturbed)
  BY ConfigStays DEF Clean, Undisturbed
<1>2. Clean => "journal" \notin config.faults /\ "rmtree" \notin config.faults
  BY DEF Clean, Swallowed
\* What happens to other transactions does not matter to u.
<1>3. ASSUME NEW u \in Txs, pc'[u] = pc[u], result'[u] = result[u], KeepsStore(u)
      PROVE  (Clean => NothingLost(u)') /\ (Undisturbed => Retained(u)')
  BY <1>2, <1>3 DEF StoresAgree, KeepsStore, NothingLost, Retained, Gone, Undisturbed
<1>4. ASSUME orphans' = orphans, \A u \in Txs :
                (Clean => NothingLost(u)') /\ (Undisturbed => Retained(u)')
      PROVE  StoresAgree'
  BY <1>1, <1>4 DEF StoresAgree
<1>5. ASSUME NEW t \in Txs, Start(t) \/ Execute(t) PROVE StoresAgree'
  <2>1. ASSUME NEW u \in Txs \ {t}
        PROVE  (Clean => NothingLost(u)') /\ (Undisturbed => Retained(u)')
    <3>1. Untouched(u) /\ KeepsStore(u)
      BY <1>5, OthersUntouched, OthersKeepStores
    <3> QED BY <1>3, <3>1 DEF Untouched
  <2> QED BY <1>4, <1>5, <2>1, OwnStores, ThreadsKeepOrphans
<1>6. ASSUME Environment PROVE StoresAgree'
  <2> USE DEF threadVars, journalVars, worldVars
  <2>1. pc' = pc /\ result' = result
    BY <1>6 DEF Environment, UserCommit, UserEdit, Crash, MergeOutlivesCrash,
                CleanupScan, CleanupOrphan
  <2>2. ASSUME wt' = wt, disk' = disk, Undisturbed => orphans' = {} PROVE StoresAgree'
    <3>1. \A u \in Txs : KeepsStore(u)
      BY <2>2 DEF KeepsStore, Recorded
    <3> QED BY <1>1, <1>3, <2>1, <2>2, <3>1 DEF StoresAgree
  <2>3. CASE \/ UserEdit \/ Crash \/ CleanupScan \/ \E c \in UserCommits : UserCommit(c)
            \/ \E t \in Txs : MergeOutlivesCrash(t)
    <3>1. wt' = wt /\ disk' = disk
      BY <2>3 DEF UserCommit, UserEdit, Crash, MergeOutlivesCrash, CleanupScan, J!LoseMemory
    <3>2. Undisturbed => orphans' = {}
      BY <2>3 DEF UserCommit, UserEdit, Crash, MergeOutlivesCrash, CleanupScan,
                  Undisturbed, StoresAgree
    <3> QED BY <2>2, <3>1, <3>2
  <2>4. ASSUME NEW t \in Txs, CleanupOrphan(t) PROVE StoresAgree'
    <3>1. ~Undisturbed
      BY <2>4 DEF CleanupOrphan, StoresAgree
    <3>2. ASSUME NEW u \in Txs, Clean PROVE NothingLost(u)'
      <4>1. "journal" \notin config.faults /\ J!JournalTypeOK
        BY <1>2, <3>2 DEF TypeOK
      <4>2. CASE u # t
        <5>1. (u \in wt' <=> u \in wt) /\ (Recorded(u)' <=> Recorded(u))
          BY <2>4, <4>1, <4>2, JournalOps DEF CleanupOrphan, Recorded, J!States
        <5> QED BY <1>3, <2>1, <3>2, <5>1 DEF KeepsStore
      <4>3. CASE u = t
        <5>1. \/ t \notin wt' /\ ~Recorded(t)'
              \/ wt' \in {wt, wt \ {t}} /\ disk' = disk
          BY <1>2, <2>4, <3>2, <4>1, JournalOps DEF CleanupOrphan, J!States
        <5> QED BY <2>1, <3>2, <4>3, <5>1 DEF StoresAgree, NothingLost, Gone, Recorded
      <4> QED BY <4>2, <4>3
    <3> QED BY <1>1, <3>1, <3>2 DEF StoresAgree
  <2> QED BY <1>6, <2>3, <2>4 DEF Environment
<1>7. CASE UNCHANGED vars
  <2>1. \A u \in Txs : KeepsStore(u)
    BY <1>7 DEF vars, journalVars, KeepsStore, Recorded
  <2> QED BY <1>3, <1>4, <1>7, <2>1 DEF vars, worldVars
<1> QED BY <1>5, <1>6, <1>7 DEF Next

-----------------------------------------------------------------------------
\* The theorems.

\* In every reachable state worktrees and journal records agree with the steps
\* of their transactions.
THEOREM StoreBookkeeping == Spec => []StoresAgree
BY InitStoresAgree, NextStoresAgree, Bookkeeping, ResultBookkeeping, PTL DEF Spec

\* From record_start on orphan detection finds every worktree that exists,
\* whatever git makes fail and wherever the process crashes.
THEOREM NoUnknownWorktree == Spec => []RecordedWorktrees
<1>1. TypeOK /\ StoresAgree => RecordedWorktrees
  BY DEF RecordedWorktrees, StoresAgree, NothingLost, Recorded, Clean, TypeOK
<1> QED BY <1>1, Bookkeeping, StoreBookkeeping, PTL

\* execute_transaction leaves neither a worktree nor a journal record behind
\* without saying so, whatever git makes fail.
THEOREM CleanedUp == Spec => []NoResidue
<1>1. StoresAgree => NoResidue
  BY DEF NoResidue, StoresAgree, NothingLost, Gone, Recorded, Clean
<1> QED BY <1>1, StoreBookkeeping, PTL

\* The worktree of a pending transaction stays, with its record, through crashes
\* and everything other transactions do.
THEOREM PendingStays == Spec => []PendingIsRetained
<1>1. StoresAgree => PendingIsRetained
  BY DEF PendingIsRetained, RetainedForIntegration, StoresAgree, Retained, Recorded,
         Undisturbed
<1> QED BY <1>1, StoreBookkeeping, PTL
=============================================================================

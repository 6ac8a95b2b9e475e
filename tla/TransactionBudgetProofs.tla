----------------------- MODULE TransactionBudgetProofs -----------------------
(* Proofs about the lines that the transactions of a session spend, for any   *)
(* transactions, patches, limits and faults: the tracker's totals are those   *)
(* of the successes it reported, and what reaches main stays within limits.   *)
EXTENDS TransactionEndProofs, SumProofs

-----------------------------------------------------------------------------
\* The tracker's totals and those of the properties are sums.

CostAdded == [t \in Txs |-> config.cost[t].added]
CostDeleted == [t \in Txs |-> config.cost[t].deleted]
HeldAdded == [t \in Txs |-> reservations[t].added]
HeldDeleted == [t \in Txs |-> reservations[t].deleted]

LEMMA TotalsAreSums ==
  \A ids \in SUBSET Txs :
     /\ TotalAdded(ids) = Sum(CostAdded, ids) /\ TotalDeleted(ids) = Sum(CostDeleted, ids)
     /\ B!AddedBy(ids) = Sum(HeldAdded, ids) /\ B!DeletedBy(ids) = Sum(HeldDeleted, ids)
<1> SUFFICES ASSUME NEW ids \in SUBSET Txs
             PROVE  /\ TotalAdded(ids) = Sum(CostAdded, ids)
                    /\ TotalDeleted(ids) = Sum(CostDeleted, ids)
                    /\ B!AddedBy(ids) = Sum(HeldAdded, ids)
                    /\ B!DeletedBy(ids) = Sum(HeldDeleted, ids)
  OBVIOUS
<1>0. IsFiniteSet(Txs)
  BY TxAssumption
<1>1. TotalAdded(ids) = Sum(CostAdded, ids)
  BY <1>0, AddedSum DEF TotalAdded, CostAdded
<1>2. TotalDeleted(ids) = Sum(CostDeleted, ids)
  BY <1>0, DeletedSum DEF TotalDeleted, CostDeleted
<1>3. B!AddedBy(ids) = Sum(HeldAdded, ids)
  <2>1. B!AddedBy(ids) = MapThenSumSet(LAMBDA i : reservations[i].added, ids)
    BY DEF B!AddedBy, B!MapThenSumSet, B!MapThenFoldSet, MapThenSumSet, MapThenFoldSet
  <2>2. MapThenSumSet(LAMBDA i : reservations[i].added, ids) = Sum(HeldAdded, ids)
    BY <1>0, AddedSum DEF HeldAdded
  <2> QED BY <2>1, <2>2
<1>4. B!DeletedBy(ids) = Sum(HeldDeleted, ids)
  <2>1. B!DeletedBy(ids) = MapThenSumSet(LAMBDA i : reservations[i].deleted, ids)
    BY DEF B!DeletedBy, B!MapThenSumSet, B!MapThenFoldSet, MapThenSumSet, MapThenFoldSet
  <2>2. MapThenSumSet(LAMBDA i : reservations[i].deleted, ids) = Sum(HeldDeleted, ids)
    BY <1>0, DeletedSum DEF HeldDeleted
  <2> QED BY <2>1, <2>2
<1> QED BY <1>1, <1>2, <1>3, <1>4

-----------------------------------------------------------------------------
\* The inductive invariant: the budget is charged for the transactions whose
\* success was reported and holds the cost of those that are under way.

Counts(t) == pc[t] = "done" /\ result[t].success /\ result[t].status = "INTEGRATED"
Counted == {t \in session : Counts(t)}
Held == {t \in Txs : reservations[t].held}

HoldsItsCost(t) ==
  IF reservations[t].held
  THEN /\ reservations[t].added = config.cost[t].added
       /\ reservations[t].deleted = config.cost[t].deleted
  ELSE reservations[t].added = 0 /\ reservations[t].deleted = 0

\* A thread that reached its worktree belongs to the session, unless it crashed.
InSession(t) ==
  (t \notin dead /\ pc[t] \notin Final \cup {"idle", "baseless"}) => t \in session

\* Only a worktree removal that raises makes a cleanup error.
CleanedUnlessPruned(t) ==
  "prune" \notin config.faults =>
     ~result[t].cleanupError /\ result[t].failure # "ROLLBACK_FAILED"

BookKept(t) == HoldsItsCost(t) /\ InSession(t) /\ CleanedUnlessPruned(t)

SpentIsCounted ==
  spent.added = Sum(CostAdded, Counted) /\ spent.deleted = Sum(CostDeleted, Counted)

ChargedFits ==
  /\ Sum(CostAdded, Counted \cup Held) <= MaxAdded
  /\ Sum(CostDeleted, Counted \cup Held) <= MaxDeleted

BooksBalance == (\A t \in Txs : BookKept(t)) /\ SpentIsCounted /\ ChargedFits

\* The books, as functions and sets of the right types.
LEMMA BookTypes ==
  ASSUME TypeOK, StepsKnow
  PROVE  /\ CostAdded \in [Txs -> Nat] /\ CostDeleted \in [Txs -> Nat]
         /\ HeldAdded \in [Txs -> Nat] /\ HeldDeleted \in [Txs -> Nat]
         /\ Counted \subseteq Txs /\ Held \subseteq Txs /\ Counted \cap Held = {}
         /\ IsFiniteSet(Txs)
<1>1. CostAdded \in [Txs -> Nat] /\ CostDeleted \in [Txs -> Nat]
  BY ConfigAssumption DEF TypeOK, CostAdded, CostDeleted
<1>2. HeldAdded \in [Txs -> Nat] /\ HeldDeleted \in [Txs -> Nat]
  BY DEF TypeOK, B!BudgetTypeOK, HeldAdded, HeldDeleted
<1>3. Counted \cap Held = {}
  BY DEF Counted, Counts, Held, StepsKnow, Knows, HeldAtStep, Final, TypeOK
<1> QED BY <1>1, <1>2, <1>3, TxAssumption DEF Counted, Held, TypeOK

\* What an operation leaves in the reservation of its transaction.
LEMMA BudgetEffects ==
  ASSUME B!BudgetTypeOK, NEW t \in Txs
  PROVE  /\ B!Reserve(t, config.cost[t]) =>
              /\ reservations'[t].held /\ spent' = spent
              /\ reservations'[t].added = config.cost[t].added
              /\ reservations'[t].deleted = config.cost[t].deleted
         /\ (B!Release(t) \/ B!Commit(t)) =>
              /\ ~reservations'[t].held
              /\ reservations'[t].added = 0 /\ reservations'[t].deleted = 0
         /\ B!Release(t) => spent' = spent
BY DEF B!BudgetTypeOK, B!Reserve, B!Release, B!Commit, B!Holding, B!NotHeld

\* What a thread's step makes of its own book.  Only two steps do more to the
\* budget than to release the thread's reservation, and only one counts.
LEMMA OwnBook ==
  ASSUME TypeOK, StepsKnow, ResultsGrow, NEW t \in Txs, BookKept(t),
         Start(t) \/ Execute(t)
  PROVE  /\ BookKept(t)'
         /\ ~Counts(t)
         /\ \/ ReserveBudget(t) \/ ConcludeSuccess(t)
            \/ /\ ~Counts(t)' /\ spent' = spent
               /\ reservations' = reservations \/ B!Release(t)
<1> StatusAtStep(t) /\ StatusGrows(t)
  BY DEF StepsKnow, Knows, ResultsGrow, Reports
<1> config.cost[t].added \in Nat /\ config.cost[t].deleted \in Nat
  BY ConfigAssumption DEF TypeOK
<1> USE ResultKeeps, CleanupErrorKept, BudgetEffects, TxAssumption
    DEF BookKept, HoldsItsCost, InSession, CleanedUnlessPruned, Counts, Pending,
        StatusAtStep, StatusGrows, Discarding, Final, Step, TypeOK, budgetVars, worldVars
<1>1. CASE FailClosed(t)
  BY <1>1 DEF FailClosed, Fail
<1>2. CASE ReadBase(t)
  BY <1>2 DEF ReadBase
<1>3. CASE ReadBaseFails(t)
  BY <1>3 DEF ReadBaseFails, Fail
<1>4. CASE AddWorktree(t)
  BY <1>4 DEF AddWorktree
<1>5. CASE AddWorktreeFails(t)
  BY <1>5 DEF AddWorktreeFails, Fail
<1>6. CASE RecordStart(t)
  BY <1>6 DEF RecordStart
<1>7. CASE CaptureBaseline(t)
  BY <1>7 DEF CaptureBaseline
<1>8. CASE BeginValidation(t)
  BY <1>8 DEF BeginValidation
<1>9. CASE StructuralReject(t)
  BY <1>9 DEF StructuralReject, Fail
<1>10. CASE ReserveBudget(t)
  BY <1>10 DEF ReserveBudget
<1>11. CASE ReserveRefused(t)
  BY <1>11 DEF ReserveRefused, Fail
<1>12. CASE RiskReject(t)
  BY <1>12 DEF RiskReject, Fail
<1>13. CASE ApplyPatch(t)
  BY <1>13 DEF ApplyPatch
<1>14. CASE PostApplyReject(t)
  BY <1>14 DEF PostApplyReject, Fail
<1>15. CASE PostApplyPass(t)
  BY <1>15 DEF PostApplyPass
<1>16. CASE UnexpectedChanges(t)
  BY <1>16 DEF UnexpectedChanges, Fail
<1>17. CASE DryRun(t)
  BY <1>17 DEF DryRun
<1>18. CASE Stage(t)
  BY <1>18 DEF Stage
<1>19. CASE CommitInWorktree(t)
  BY <1>19 DEF CommitInWorktree
<1>20. CASE LockIntegration(t)
  BY <1>20 DEF LockIntegration
<1>21. CASE StaleBase(t)
  BY <1>21 DEF StaleBase, Decide, HeadMoved
<1>22. CASE HeadMatches(t)
  BY <1>22 DEF HeadMatches, HeadMoved
<1>23. CASE MainDirty(t)
  BY <1>23 DEF MainDirty, Decide
<1>24. CASE MainClean(t)
  BY <1>24 DEF MainClean
<1>25. CASE FastForward(t)
  BY <1>25 DEF FastForward, Decide, Merge
<1>26. CASE FastForwardFails(t)
  BY <1>26 DEF FastForwardFails, Decide
<1>27. CASE FastForwardTimesOut(t)
  BY <1>27 DEF FastForwardTimesOut, Decide, Merge
<1>28. CASE Publish(t)
  BY <1>28 DEF Publish
<1>29. CASE Park(t)
  BY <1>29 DEF Park
<1>30. CASE Rollback(t)
  BY <1>30 DEF Rollback
<1>31. CASE Raise(t)
  BY <1>31 DEF Raise, Fail, MayRaise
<1>32. CASE HandleException(t)
  BY <1>32 DEF HandleException
<1>33. CASE HandleBare(t)
  BY <1>33 DEF HandleBare
<1>34. CASE HandleBaseless(t)
  <2>1. CASE /\ Step(t, "baseless", "done")
             /\ result' = [result EXCEPT ![t].status = "FAILED"]
    BY <1>34, <2>1 DEF HandleBaseless
  <2>2. CASE Step(t, "baseless", "escaped") /\ UNCHANGED result
    BY <1>34, <2>2 DEF HandleBaseless
  <2> QED BY <1>34, <2>1, <2>2 DEF HandleBaseless
<1>35. CASE RemoveWorktree(t)
  BY <1>35 DEF RemoveWorktree
<1>36. CASE RemoveWorktreeRaises(t)
  BY <1>36 DEF RemoveWorktreeRaises
<1>37. CASE EndRecord(t)
  BY <1>37 DEF EndRecord
<1>38. CASE ConcludeFailure(t)
  BY <1>38 DEF ConcludeFailure
<1>39. CASE ConcludeDryRun(t)
  BY <1>39 DEF ConcludeDryRun
<1>40. CASE ConcludeSuccess(t)
  BY <1>40 DEF ConcludeSuccess
<1>41. CASE ConcludeUncleaned(t)
  BY <1>41 DEF ConcludeUncleaned
<1> QED BY <1>1, <1>2, <1>3, <1>4, <1>5, <1>6, <1>7, <1>8, <1>9, <1>10, <1>11,
    <1>12, <1>13, <1>14, <1>15, <1>16, <1>17, <1>18, <1>19, <1>20, <1>21, <1>22,
    <1>23, <1>24, <1>25, <1>26, <1>27, <1>28, <1>29, <1>30, <1>31, <1>32, <1>33,
    <1>34, <1>35, <1>36, <1>37, <1>38, <1>39, <1>40, <1>41 DEF Start, Execute

\* The steps of the books: none of a thread's steps charges more than it may.
LEMMA ReserveBalances ==
  ASSUME TypeOK, StepsKnow, BooksBalance, NEW t \in Txs, ReserveBudget(t),
         CostAdded' = CostAdded, CostDeleted' = CostDeleted,
         Counted' = Counted, Held' = Held \cup {t}
  PROVE  ChargedFits'
<1> USE BookTypes
<1> DEFINE rest == Txs \ {t}
           others == (Counted \cup Held) \ {t}
           H == Held \ {t}
<1>0. /\ B!Fits(t, config.cost[t]) /\ t \notin Counted
      /\ (Counted \cup Held)' = others \cup {t}
  BY DEF ReserveBudget, B!Reserve, Step, Counted, Counts, Held, StepsKnow, Knows,
         HeldAtStep, BooksBalance
<1>1. SpentIsCounted /\ \A u \in Txs : HoldsItsCost(u)
  BY DEF BooksBalance, BookKept
<1>2. IsFiniteSet(rest) /\ IsFiniteSet(others)
  BY FS_Subset
<1>3. /\ spent.added + B!AddedBy(rest) + config.cost[t].added <= MaxAdded
      /\ spent.deleted + B!DeletedBy(rest) + config.cost[t].deleted <= MaxDeleted
  BY <1>0 DEF B!Fits, B!FitsOver
<1>4. ASSUME NEW held \in [Txs -> Nat], NEW cost \in [Txs -> Nat], NEW total, NEW limit,
             total = Sum(cost, Counted),
             \A u \in Txs : held[u] = IF u \in Held THEN cost[u] ELSE 0,
             total + Sum(held, rest) + cost[t] <= limit
      PROVE  Sum(cost, others \cup {t}) <= limit
  <2>0. H \subseteq rest /\ rest \ H \subseteq rest /\ IsFiniteSet(H)
        /\ IsFiniteSet(rest \ H) /\ IsFiniteSet(Counted)
    BY <1>0, FS_Subset
  <2>1. Sum(held, rest) = Sum(held, H) + Sum(held, rest \ H)
    <3>1. H \cup (rest \ H) = rest
      BY <2>0
    <3>2. Sum(held, H \cup (rest \ H)) = Sum(held, H) + Sum(held, rest \ H)
      <4> \A u \in rest : held[u] \in Nat
        BY <1>4
      <4> HIDE DEF rest
      <4> QED BY <1>2, <2>0, SumOfBoth
    <3> QED BY <3>1, <3>2
  <2>2. Sum(held, rest \ H) = 0
    BY <1>4, <2>0, SumOfZeros
  <2>3. Sum(held, H) = Sum(cost, H)
    BY <1>4, <2>0, SumSame
  <2>4. others = Counted \cup H
    BY <1>0
  <2>5. Sum(cost, others) = Sum(cost, Counted) + Sum(cost, H)
    BY <1>4, <2>4, SumOfBoth
  <2>6. Sum(cost, others \cup {t}) = cost[t] + Sum(cost, others)
    BY <1>2, <1>4, SumAdd
  <2>7. /\ Sum(cost, Counted) \in Nat /\ Sum(cost, H) \in Nat /\ cost[t] \in Nat
    BY <1>4, <2>0, SumNat
  <2> QED BY <1>4, <2>1, <2>2, <2>3, <2>5, <2>6, <2>7
<1>5. /\ \A u \in Txs : HeldAdded[u] = IF u \in Held THEN CostAdded[u] ELSE 0
      /\ \A u \in Txs : HeldDeleted[u] = IF u \in Held THEN CostDeleted[u] ELSE 0
      /\ CostAdded[t] = config.cost[t].added /\ CostDeleted[t] = config.cost[t].deleted
  BY <1>1 DEF HoldsItsCost, Held, HeldAdded, HeldDeleted, CostAdded, CostDeleted
<1>6. Sum(CostAdded, others \cup {t}) <= MaxAdded
  BY <1>1, <1>3, <1>4, <1>5, TotalsAreSums DEF SpentIsCounted
<1>7. Sum(CostDeleted, others \cup {t}) <= MaxDeleted
  BY <1>1, <1>3, <1>4, <1>5, TotalsAreSums DEF SpentIsCounted
<1> QED BY <1>0, <1>6, <1>7 DEF ChargedFits

\* Charging for fewer transactions never goes over the limits.
LEMMA FewerFit ==
  ASSUME TypeOK, StepsKnow, ChargedFits, CostAdded' = CostAdded, CostDeleted' = CostDeleted,
         (Counted \cup Held)' \subseteq Counted \cup Held
  PROVE  ChargedFits'
<1> DEFINE all == Counted \cup Held
           fewer == (Counted \cup Held)'
<1>1. IsFiniteSet(all) /\ IsFiniteSet(fewer) /\ all \subseteq Txs /\ fewer \in SUBSET all
  BY BookTypes, FS_Subset
<1>2. ASSUME NEW cost \in [Txs -> Nat], NEW limit \in Nat, Sum(cost, all) <= limit
      PROVE  Sum(cost, fewer) <= limit
  <2> HIDE DEF all, fewer
  <2>1. \A u \in all : cost[u] \in Nat
    BY <1>1
  <2>2. Sum(cost, fewer) <= Sum(cost, all)
    BY <1>1, <2>1, SumMonotone
  <2>3. Sum(cost, fewer) \in Nat /\ Sum(cost, all) \in Nat
    BY <1>1, <2>1, SumNat
  <2> QED BY <1>2, <2>2, <2>3
<1>3. Sum(CostAdded, fewer) <= MaxAdded /\ Sum(CostDeleted, fewer) <= MaxDeleted
  BY <1>2, BookTypes, LimitAssumption DEF ChargedFits
<1> QED BY <1>3 DEF ChargedFits

LEMMA NextBooksBalance ==
  TypeOK /\ StepsKnow /\ ResultsGrow /\ BooksBalance /\ [Next]_vars => BooksBalance'
<1> SUFFICES ASSUME TypeOK, StepsKnow, ResultsGrow, BooksBalance, [Next]_vars
             PROVE  BooksBalance'
  OBVIOUS
<1>0. /\ config' = config /\ CostAdded' = CostAdded /\ CostDeleted' = CostDeleted
      /\ TypeOK' /\ StepsKnow'
  BY ConfigStays, NextTypeOK, NextStepsKnow DEF CostAdded, CostDeleted
<1>1. ASSUME NEW t \in Txs, Start(t) \/ Execute(t) PROVE BooksBalance'
  <2>1. \A u \in Txs \ {t} : Untouched(u)
    BY <1>1, OthersUntouched
  <2>2. /\ BookKept(t)' /\ ~Counts(t)
        /\ \/ ReserveBudget(t) \/ ConcludeSuccess(t)
           \/ /\ ~Counts(t)' /\ spent' = spent
              /\ reservations' = reservations \/ B!Release(t)
    BY <1>1, OwnBook DEF BooksBalance
  <2>3. \A u \in Txs : BookKept(u)'
    <3> SUFFICES ASSUME NEW u \in Txs \ {t} PROVE BookKept(u)'
      BY <2>2
    <3> QED BY <1>0, <2>1 DEF BooksBalance, BookKept, HoldsItsCost, InSession,
                              CleanedUnlessPruned, Untouched
  <2>4. \A u \in Txs \ {t} : (u \in Counted' <=> u \in Counted) /\ (u \in Held' <=> u \in Held)
    BY <2>1 DEF Untouched, Counted, Counts, Held
  <2>5. Counted \subseteq Txs /\ Held \subseteq Txs /\ Counted' \subseteq Txs /\ Held' \subseteq Txs
    BY <1>0, BookTypes DEF Counted, Held, TypeOK
  <2>6. CASE ReserveBudget(t)
    <3>1. spent' = spent /\ reservations'[t].held /\ ~Counts(t)'
      BY <2>6, BudgetEffects DEF ReserveBudget, Step, Counts, TypeOK
    <3>2. Counted' = Counted /\ Held' = Held \cup {t}
      BY <2>2, <2>4, <2>5, <3>1 DEF Counted, Held
    <3>3. ChargedFits'
      BY <1>0, <2>6, <3>2, ReserveBalances
    <3> QED BY <1>0, <2>3, <3>1, <3>2, <3>3 DEF BooksBalance, SpentIsCounted
  <2>7. CASE ConcludeSuccess(t)
    <3>1. /\ reservations[t].held /\ t \in session /\ session' = session
          /\ Counts(t)' /\ ~reservations'[t].held
      BY <2>7, BudgetEffects, ResultKeeps DEF ConcludeSuccess, Step, StepsKnow, Knows,
         HeldAtStep, Discarding, BooksBalance, BookKept, InSession, Final, Counts, TypeOK, worldVars
    <3>2. Counted' = Counted \cup {t} /\ t \notin Counted /\ t \in Held
          /\ (Counted \cup Held)' = Counted \cup Held
      BY <2>2, <2>4, <2>5, <3>1 DEF Counted, Held
    <3>3. ChargedFits'
      BY <1>0, <3>2, FewerFit DEF BooksBalance
    <3>4. /\ spent'.added = spent.added + CostAdded[t]
          /\ spent'.deleted = spent.deleted + CostDeleted[t]
      BY <2>7, <3>1 DEF ConcludeSuccess, B!Commit, B!Plus, BooksBalance, BookKept, HoldsItsCost,
         CostAdded, CostDeleted
    <3>5. /\ Sum(CostAdded, Counted') = CostAdded[t] + Sum(CostAdded, Counted)
          /\ Sum(CostDeleted, Counted') = CostDeleted[t] + Sum(CostDeleted, Counted)
          /\ Sum(CostAdded, Counted) \in Nat /\ Sum(CostDeleted, Counted) \in Nat
      <4>1. IsFiniteSet(Counted) /\ \A u \in Counted \cup {t} : u \in Txs
        BY <2>5, BookTypes, FS_Subset
      <4> QED BY <3>2, <4>1, BookTypes, SumAdd, SumNat
    <3>6. SpentIsCounted'
      BY <1>0, <3>4, <3>5, BookTypes DEF BooksBalance, SpentIsCounted
    <3> QED BY <2>3, <3>3, <3>6 DEF BooksBalance
  <2>8. CASE ~Counts(t)' /\ spent' = spent /\ (reservations' = reservations \/ B!Release(t))
    <3>1. Counted' = Counted
      BY <2>2, <2>4, <2>5, <2>8 DEF Counted
    <3>2. Held' \subseteq Held
      <4>1. t \in Held' => t \in Held
        BY <2>8, BudgetEffects DEF Held, TypeOK
      <4> QED BY <2>4, <2>5, <4>1
    <3>3. ChargedFits'
      BY <1>0, <3>1, <3>2, FewerFit DEF BooksBalance
    <3> QED BY <1>0, <2>3, <2>8, <3>1, <3>3 DEF BooksBalance, SpentIsCounted
  <2> QED BY <2>2, <2>6, <2>7, <2>8
<1>2. CASE Crash
  <2>1. /\ session' = {} /\ pc' = pc /\ result' = result /\ spent' = B!NothingSpent
        /\ reservations' = [u \in Txs |-> B!NotHeld]
        /\ dead' = dead \cup {u \in Txs : Running(u)}
    BY <1>2 DEF Crash, B!Reset
  <2>2. \A u \in Txs : BookKept(u)'
    BY <1>0, <2>1 DEF BooksBalance, BookKept, HoldsItsCost, InSession, CleanedUnlessPruned,
                      Running, B!NotHeld, Final
  <2>3. Counted' = {} /\ Held' = {}
    BY <2>1 DEF Counted, Held, B!NotHeld
  <2>4. SpentIsCounted'
    BY <1>0, <2>1, <2>3, SumEmpty DEF SpentIsCounted, B!NothingSpent
  <2>5. ChargedFits'
    BY <1>0, <2>3, FewerFit DEF BooksBalance
  <2> QED BY <2>2, <2>4, <2>5 DEF BooksBalance
<1>3. ASSUME pc' = pc, result' = result, session' = session, reservations' = reservations,
             spent' = spent, dead' = dead
      PROVE  BooksBalance'
  BY <1>0, <1>3 DEF BooksBalance, BookKept, HoldsItsCost, InSession, CleanedUnlessPruned,
     SpentIsCounted, ChargedFits, Counted, Counts, Held
<1>4. CASE Environment
  BY <1>2, <1>3, <1>4 DEF Environment, UserCommit, UserEdit, MergeOutlivesCrash, CleanupScan,
     CleanupOrphan, threadVars, budgetVars, worldVars
<1>5. CASE UNCHANGED vars
  BY <1>3, <1>5 DEF vars, budgetVars, worldVars
<1> QED BY <1>1, <1>4, <1>5 DEF Next

LEMMA InitBooksBalance == Init => BooksBalance
<1> SUFFICES ASSUME Init PROVE BooksBalance
  OBVIOUS
<1>1. \A t \in Txs : BookKept(t)
  BY DEF Init, BookKept, HoldsItsCost, InSession, CleanedUnlessPruned, B!BudgetInit, B!NotHeld,
         NoResult, Final
<1>2. Counted = {} /\ Held = {}
  BY DEF Init, Counted, Held, B!BudgetInit, B!NotHeld
<1>3. Sum(CostAdded, {}) = 0 /\ Sum(CostDeleted, {}) = 0
  BY SumEmpty
<1>4. spent.added = 0 /\ spent.deleted = 0
  BY DEF Init, B!BudgetInit, B!NothingSpent
<1> QED BY <1>1, <1>2, <1>3, <1>4, LimitAssumption DEF BooksBalance, SpentIsCounted, ChargedFits

-----------------------------------------------------------------------------
\* The theorems.

\* In every reachable state the budget has charged exactly the successes it was told
\* of, holds exactly the cost of what is under way, and both fit together.
THEOREM BudgetBookkeeping == Spec => []BooksBalance
BY InitBooksBalance, NextBooksBalance, Bookkeeping, ResultBookkeeping, PTL DEF Spec

\* The session's spent lines are those of the transactions whose success it reported:
\* no failure, retry or crash makes the tracker count a patch twice or not at all.
THEOREM SpentTruthful == Spec => []SpentIsReported
<1>1. TypeOK /\ StepsKnow /\ BooksBalance => SpentIsReported
  <2> SUFFICES ASSUME TypeOK, StepsKnow, BooksBalance PROVE SpentIsReported
    OBVIOUS
  <2>1. spent = [added |-> spent.added, deleted |-> spent.deleted]
    BY DEF TypeOK, B!BudgetTypeOK, B!Lines
  <2>2. TotalAdded(Counted) = spent.added /\ TotalDeleted(Counted) = spent.deleted
    BY BookTypes, TotalsAreSums DEF BooksBalance, SpentIsCounted
  <2>3. Counted = {t \in session : /\ pc[t] = "done" /\ result[t].success
                                  /\ result[t].status = "INTEGRATED"}
    BY DEF Counted, Counts
  <2> QED BY <2>1, <2>2, <2>3 DEF SpentIsReported
<1> QED BY <1>1, Bookkeeping, BudgetBookkeeping, PTL

\* The patches that one session puts on main stay within its line limits together,
\* unless a fault releases the reservation of a patch that has landed.
THEOREM LimitsKept == Spec => []LandedWithinLimits
<1>1. TypeOK /\ StepsKnow /\ ResultsGrow /\ BooksBalance => LandedWithinLimits
  <2> SUFFICES ASSUME TypeOK, StepsKnow, ResultsGrow, BooksBalance,
                      config.faults \cap {"timeout", "prune"} = {}
               PROVE  SessionLimitsHold
    BY DEF LandedWithinLimits
  <2>1. landed \cap session \in SUBSET (Counted \cup Held)
    <3> SUFFICES ASSUME NEW t \in landed \cap session, t \notin Held PROVE t \in Counted
      OBVIOUS
    <3>1. t \in Txs /\ "timeout" \notin config.faults /\ "prune" \notin config.faults
      BY DEF TypeOK
    <3>2. Knows(t) /\ Reports(t) /\ BookKept(t)
      BY <3>1 DEF StepsKnow, ResultsGrow, BooksBalance
    <3>3. t \notin dead /\ ~reservations[t].held
      BY <3>1, <3>2 DEF Knows, DeadAtStep, Held
    <3>4. pc[t] \in AfterMerge
      BY <3>2, <3>3 DEF Knows, LandedAtStep
    <3>5. pc[t] = "done"
      BY <3>2, <3>3, <3>4 DEF Knows, LandedAtStep, HeldAtStep, AfterMerge, Discarding, Reserved
    <3>6. result[t].status = "INTEGRATED" /\ Ends(t) /\ result[t].failure # "ROLLBACK_FAILED"
      BY <3>1, <3>2, <3>4, <3>5 DEF Reports, StatusTrue, EndsAsOutcome, BookKept,
                                    CleanedUnlessPruned
    <3>7. result[t].success
      BY <3>6 DEF Ends, Pending
    <3> QED BY <3>5, <3>6, <3>7 DEF Counted, Counts
  <2>2. /\ IsFiniteSet(Counted \cup Held) /\ Counted \cup Held \subseteq Txs
        /\ IsFiniteSet(landed \cap session) /\ landed \cap session \subseteq Txs
    BY <2>1, BookTypes, FS_Subset
  <2>3. ASSUME NEW cost \in [Txs -> Nat], NEW limit \in Nat, Sum(cost, Counted \cup Held) <= limit
        PROVE  Sum(cost, landed \cap session) <= limit
    <3>1. \A u \in Counted \cup Held : cost[u] \in Nat
      BY <2>2
    <3>2. Sum(cost, landed \cap session) <= Sum(cost, Counted \cup Held)
      BY <2>1, <2>2, <3>1, SumMonotone
    <3>3. Sum(cost, landed \cap session) \in Nat /\ Sum(cost, Counted \cup Held) \in Nat
      BY <2>2, SumNat
    <3> QED BY <2>3, <3>2, <3>3
  <2> QED BY <2>2, <2>3, BookTypes, TotalsAreSums, LimitAssumption
          DEF BooksBalance, ChargedFits, SessionLimitsHold
<1> QED BY <1>1, Bookkeeping, ResultBookkeeping, BudgetBookkeeping, PTL
=============================================================================

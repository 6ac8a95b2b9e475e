---------------------------- MODULE StoresProofs ----------------------------
(* Proofs about the three stores on their own, for any callers: the budget   *)
(* of any limits, the baseline cache of any revisions, suites and threads,   *)
(* and the crash journal of any transactions.                                *)
EXTENDS MCStores, SumProofs

-----------------------------------------------------------------------------
\* The session budget.

Added == [i \in Txs |-> reservations[i].added]
Deleted == [i \in Txs |-> reservations[i].deleted]

\* The totals of the tracker are sums over its reservations.
LEMMA TotalsAreSums ==
  \A ids \in SUBSET Txs : AddedBy(ids) = Sum(Added, ids) /\ DeletedBy(ids) = Sum(Deleted, ids)
BY BudgetAssumption, AddedSum, DeletedSum DEF AddedBy, DeletedBy, Added, Deleted

\* Replacing one weight replaces one summand; the sum of the rest is a number.
LEMMA TotalWithout ==
  ASSUME NEW w \in [Txs -> Nat], NEW v \in [Txs -> Nat], NEW t \in Txs,
         \A i \in Txs \ {t} : v[i] = w[i]
  PROVE  /\ Sum(w, Txs \ {t}) \in Nat
         /\ Sum(w, Txs) = w[t] + Sum(w, Txs \ {t})
         /\ Sum(v, Txs) = v[t] + Sum(w, Txs \ {t})
<1>1. IsFiniteSet(Txs) /\ IsFiniteSet(Txs \ {t})
  BY BudgetAssumption, FS_RemoveElement
<1>2. Sum(w, Txs \ {t}) \in Nat
  BY <1>1, SumNat
<1>3. Sum(w, Txs) = w[t] + Sum(w, Txs \ {t}) /\ Sum(v, Txs) = v[t] + Sum(v, Txs \ {t})
  BY <1>1, SumRemove
<1>4. Sum(v, Txs \ {t}) = Sum(w, Txs \ {t})
  BY <1>1, SumSame
<1> QED BY <1>2, <1>3, <1>4

BudgetInv ==
  /\ BudgetTypeOK
  /\ spent.added + Sum(Added, Txs) <= MaxAdded
  /\ spent.deleted + Sum(Deleted, Txs) <= MaxDeleted

\* With no reservation both totals are zero.
LEMMA NothingReserved ==
  ASSUME NEW r, r = [t \in Txs |-> NotHeld]
  PROVE  /\ Sum([i \in Txs |-> r[i].added], Txs) = 0
         /\ Sum([i \in Txs |-> r[i].deleted], Txs) = 0
<1>1. /\ [i \in Txs |-> r[i].added] = [i \in Txs |-> 0]
      /\ [i \in Txs |-> r[i].deleted] = [i \in Txs |-> 0]
  BY DEF NotHeld
<1>2. ASSUME NEW w, w = [i \in Txs |-> 0] PROVE Sum(w, Txs) = 0
  BY <1>2, BudgetAssumption, SumOfZeros
<1> QED BY <1>1, <1>2

\* reserve, commit, release, the legacy helper and reset never promise more than
\* the limits.
LEMMA BudgetNextInv == BudgetInv /\ [BudgetNext]_budgetVars => BudgetInv'
<1> SUFFICES ASSUME BudgetInv, [BudgetNext]_budgetVars PROVE BudgetInv'
  OBVIOUS
<1> DEFINE add == [i \in Txs |-> reservations'[i].added]
           del == [i \in Txs |-> reservations'[i].deleted]
<1>1. Added' = add /\ Deleted' = del
  BY DEF Added, Deleted
<1>2. Added \in [Txs -> Nat] /\ Deleted \in [Txs -> Nat]
  BY DEF BudgetInv, BudgetTypeOK, Added, Deleted
<1>3. /\ spent.added \in Nat /\ spent.deleted \in Nat
      /\ spent.added + Sum(Added, Txs) <= MaxAdded
      /\ spent.deleted + Sum(Deleted, Txs) <= MaxDeleted
  BY DEF BudgetInv, BudgetTypeOK, Lines
\* A step that touches the reservation of t alone.
<1>4. ASSUME NEW t \in Txs, BudgetTypeOK',
             \A i \in Txs \ {t} : reservations'[i] = reservations[i],
             \A ra, rd \in Nat :
               /\ spent.added + (Added[t] + ra) <= MaxAdded =>
                    spent'.added + (reservations'[t].added + ra) <= MaxAdded
               /\ spent.deleted + (Deleted[t] + rd) <= MaxDeleted =>
                    spent'.deleted + (reservations'[t].deleted + rd) <= MaxDeleted
      PROVE  BudgetInv'
  <2>1. add \in [Txs -> Nat] /\ del \in [Txs -> Nat]
    BY <1>4 DEF BudgetTypeOK
  <2>2. \A i \in Txs \ {t} : add[i] = Added[i] /\ del[i] = Deleted[i]
    BY <1>4 DEF Added, Deleted
  <2>3. add[t] = reservations'[t].added /\ del[t] = reservations'[t].deleted
    OBVIOUS
  <2> HIDE DEF add, del
  <2>4. /\ Sum(Added, Txs \ {t}) \in Nat
        /\ Sum(Added, Txs) = Added[t] + Sum(Added, Txs \ {t})
        /\ Sum(add, Txs) = add[t] + Sum(Added, Txs \ {t})
    BY <1>2, <2>1, <2>2, TotalWithout
  <2>5. /\ Sum(Deleted, Txs \ {t}) \in Nat
        /\ Sum(Deleted, Txs) = Deleted[t] + Sum(Deleted, Txs \ {t})
        /\ Sum(del, Txs) = del[t] + Sum(Deleted, Txs \ {t})
    BY <1>2, <2>1, <2>2, TotalWithout
  <2>6. /\ spent'.added + Sum(add, Txs) <= MaxAdded
        /\ spent'.deleted + Sum(del, Txs) <= MaxDeleted
    BY <1>3, <1>4, <2>3, <2>4, <2>5
  <2> QED BY <1>1, <1>4, <2>6 DEF BudgetInv
<1>5. ASSUME NEW t \in Txs, NEW lines \in Sizes, Reserve(t, lines) PROVE BudgetInv'
  <2>1. lines \in Lines
    BY SizesAssumption
  <2>2. BudgetTypeOK' /\ spent' = spent
    BY <1>5, <2>1 DEF Reserve, Holding, Lines, BudgetInv, BudgetTypeOK
  <2>3. \A i \in Txs \ {t} : reservations'[i] = reservations[i]
    BY <1>5 DEF Reserve, BudgetInv, BudgetTypeOK
  <2>4. reservations'[t].added = lines.added /\ reservations'[t].deleted = lines.deleted
    BY <1>5 DEF Reserve, Holding, BudgetInv, BudgetTypeOK
  <2>5. /\ spent.added + Sum(Added, Txs \ {t}) + lines.added <= MaxAdded
        /\ spent.deleted + Sum(Deleted, Txs \ {t}) + lines.deleted <= MaxDeleted
    BY <1>5, TotalsAreSums DEF Reserve, Fits, FitsOver
  <2>6. /\ Sum(Added, Txs \ {t}) \in Nat /\ Sum(Deleted, Txs \ {t}) \in Nat
        /\ Sum(add, Txs) = add[t] + Sum(Added, Txs \ {t})
        /\ Sum(del, Txs) = del[t] + Sum(Deleted, Txs \ {t})
    <3>1. add \in [Txs -> Nat] /\ del \in [Txs -> Nat]
      BY <2>2 DEF BudgetTypeOK
    <3>2. \A i \in Txs \ {t} : add[i] = Added[i] /\ del[i] = Deleted[i]
      BY <2>3 DEF Added, Deleted
    <3> HIDE DEF add, del
    <3> QED BY <1>2, <3>1, <3>2, TotalWithout
  <2>7. add[t] = lines.added /\ del[t] = lines.deleted
    BY <2>4
  <2> HIDE DEF add, del
  <2>8. /\ spent.added + Sum(add, Txs) <= MaxAdded
        /\ spent.deleted + Sum(del, Txs) <= MaxDeleted
    BY <1>3, <2>1, <2>5, <2>6, <2>7, BudgetAssumption DEF Lines
  <2> QED BY <1>1, <2>2, <2>8 DEF BudgetInv
<1>6. ASSUME NEW t \in Txs, Commit(t) PROVE BudgetInv'
  <2>1. /\ BudgetTypeOK'
        /\ \A i \in Txs \ {t} : reservations'[i] = reservations[i]
        /\ reservations'[t].added = 0 /\ reservations'[t].deleted = 0
        /\ spent'.added \in {spent.added, spent.added + Added[t]}
        /\ spent'.deleted \in {spent.deleted, spent.deleted + Deleted[t]}
    BY <1>6 DEF Commit, Plus, NotHeld, Lines, BudgetInv, BudgetTypeOK, Added, Deleted
  <2>2. Added[t] \in Nat /\ Deleted[t] \in Nat
    BY <1>2
  <2> QED BY <1>3, <1>4, <2>1, <2>2, BudgetAssumption
<1>7. ASSUME NEW t \in Txs, Release(t) PROVE BudgetInv'
  <2>1. /\ BudgetTypeOK' /\ spent' = spent
        /\ \A i \in Txs \ {t} : reservations'[i] = reservations[i]
        /\ reservations'[t].added = 0 /\ reservations'[t].deleted = 0
    BY <1>7 DEF Release, NotHeld, BudgetInv, BudgetTypeOK
  <2>2. Added[t] \in Nat /\ Deleted[t] \in Nat
    BY <1>2
  <2> QED BY <1>3, <1>4, <2>1, <2>2, BudgetAssumption
<1>8. ASSUME NEW lines \in Sizes, CheckAndAdd(lines) PROVE BudgetInv'
  <2>1. lines \in Lines
    BY SizesAssumption
  <2>2. BudgetTypeOK' /\ Added' = Added /\ Deleted' = Deleted
    BY <1>8, <2>1 DEF CheckAndAdd, Plus, Lines, BudgetInv, BudgetTypeOK, Added, Deleted
  <2>3. spent'.added = spent.added + lines.added /\ spent'.deleted = spent.deleted + lines.deleted
    BY <1>8 DEF CheckAndAdd, Plus
  <2>4. /\ spent.added + Sum(Added, Txs) + lines.added <= MaxAdded
        /\ spent.deleted + Sum(Deleted, Txs) + lines.deleted <= MaxDeleted
    BY <1>8, TotalsAreSums DEF CheckAndAdd, FitsOver
  <2>5. Sum(Added, Txs) \in Nat /\ Sum(Deleted, Txs) \in Nat
    BY <1>2, SumNat, BudgetAssumption
  <2>6. /\ spent'.added + Sum(Added, Txs) <= MaxAdded
        /\ spent'.deleted + Sum(Deleted, Txs) <= MaxDeleted
    BY <1>3, <2>1, <2>3, <2>4, <2>5, BudgetAssumption DEF Lines
  <2> QED BY <2>2, <2>6 DEF BudgetInv
<1>9. CASE Reset
  <2>1. BudgetTypeOK' /\ spent'.added = 0 /\ spent'.deleted = 0
    BY <1>9 DEF Reset, NotHeld, NothingSpent, Lines, BudgetTypeOK
  <2>2. Sum(add, Txs) = 0 /\ Sum(del, Txs) = 0
    BY <1>9, NothingReserved DEF Reset
  <2> HIDE DEF add, del
  <2> QED BY <1>1, <2>1, <2>2, BudgetAssumption DEF BudgetInv
<1>10. CASE UNCHANGED budgetVars
  BY <1>10 DEF budgetVars, BudgetInv, BudgetTypeOK, Added, Deleted
<1> QED BY <1>5, <1>6, <1>7, <1>8, <1>9, <1>10 DEF BudgetNext

\* Whoever calls the tracker, in whatever order: what is spent and what is promised
\* stay within the session's limits together.
THEOREM BudgetHolds == BudgetSpec => []WithinSessionBudget
<1>1. BudgetInit => BudgetInv
  <2> SUFFICES ASSUME BudgetInit PROVE BudgetInv
    OBVIOUS
  <2>1. BudgetTypeOK /\ spent.added = 0 /\ spent.deleted = 0
    BY DEF BudgetInit, NotHeld, NothingSpent, Lines, BudgetTypeOK
  <2>2. Sum(Added, Txs) = 0 /\ Sum(Deleted, Txs) = 0
    BY NothingReserved DEF BudgetInit, Added, Deleted
  <2> QED BY <2>1, <2>2, BudgetAssumption DEF BudgetInv
<1>2. BudgetInv => WithinSessionBudget
  BY TotalsAreSums DEF BudgetInv, WithinSessionBudget
<1> QED BY <1>1, <1>2, BudgetNextInv, PTL DEF BudgetSpec

-----------------------------------------------------------------------------
\* The baseline and the cache that the threads share.

\* b is what a run at revision r may report.
Measured(b, r) ==
  /\ b.build = health[r].build
  /\ b.behavioral \in Run("behavioral", health[r])
  /\ b.regression \in Run("regression", health[r])

Reported(kind) == {{}} \cup UNION {Run(kind, h) : h \in Healths}

Baselines == [build : BOOLEAN, behavioral : Reported("behavioral"),
              regression : Reported("regression")]

Threads == [step : {"idle", "lookup", "measuring", "storing", "changed", "judged"},
            base : Revisions, baseline : Baselines, change : Healths,
            verdict : {"NONE", "BUILD", "BEHAVIORAL", "REGRESSION", "PASSED"}]

ValidationTypeOK ==
  /\ health \in [Revisions -> Healths] /\ checks \in Checks /\ tip \in Revisions
  /\ DOMAIN cached \subseteq Revisions /\ \A r \in DOMAIN cached : cached[r] \in Baselines
  /\ val \in [Validators -> Threads]

\* What a thread relies on: the baseline it compares with is one of its own base.
KnowsBase(v) ==
  /\ val[v].step \in {"storing", "changed"} => Measured(val[v].baseline, val[v].base)
  /\ val[v].step # "judged" => val[v].verdict = "NONE"

\* What a verdict is worth.
VerdictHolds(v) ==
  val[v].verdict = "PASSED" =>
    /\ val[v].change.build
    /\ \A k \in checks : ~Excusable(v, k) =>
         /\ val[v].change[k].end = "done"
         /\ val[v].change[k].failing \subseteq health[val[v].base][k].failing

ValidationInv ==
  /\ ValidationTypeOK
  /\ \A r \in DOMAIN cached : Measured(cached[r], r)
  /\ \A v \in Validators : KnowsBase(v) /\ VerdictHolds(v)

\* A report without anything new comes from a suite that ended and that fails
\* nothing that does not fail at the base, unless the messages could not tell.
LEMMA NothingNew ==
  ASSUME NEW before, NEW now,
         \A s \in {before, now} : /\ s.end \in {"done", "cut", "hung"}
                                 /\ s.failing \cap {"timed out", "exit code"} = {},
         NEW was \in Reports(before), NEW is \in Reports(now), is \ was = {},
         before.end = "done", ~(now.end = "cut" /\ before.failing # {})
  PROVE  now.end = "done" /\ now.failing \subseteq before.failing
<1>1. was = before.failing
  BY DEF Reports
<1>2. CASE now.end = "done"
  BY <1>1, <1>2 DEF Reports
<1>3. CASE now.end = "hung"
  <2>1. is = {"timed out"}
    BY <1>3 DEF Reports
  <2>2. "timed out" \in before.failing
    BY <1>1, <2>1
  <2> QED BY <2>2
<1>4. CASE now.end = "cut"
  <2>1. is # {}
    BY <1>4 DEF Reports
  <2>2. was = {}
    BY <1>1, <1>4
  <2> QED BY <2>1, <2>2
<1> QED BY <1>2, <1>3, <1>4

LEMMA JudgeHolds ==
  ASSUME ValidationInv, NEW v \in Validators, NEW h \in Healths, Judge(v, h)
  PROVE  VerdictHolds(v)' /\ val'[v].verdict \in {"BUILD", "BEHAVIORAL", "REGRESSION", "PASSED"}
<1>1. /\ val[v] \in Threads /\ val \in [Validators -> Threads]
      /\ Measured(val[v].baseline, val[v].base)
      /\ health[val[v].base] \in Healths
      /\ checks \subseteq Suites
  BY CheckAssumption DEF ValidationInv, ValidationTypeOK, KnowsBase, Judge, Threads
<1>2. PICK b \in Run("behavioral", h), r \in Run("regression", h), injected \in BOOLEAN :
         val' = [val EXCEPT ![v].step = "judged", ![v].change = h, ![v].verdict =
                   CASE ~h.build -> IF val[v].baseline.build THEN "REGRESSION" ELSE "BUILD"
                     [] h.build /\ NewIn(v, "behavioral", b) # {} -> "BEHAVIORAL"
                     [] h.build /\ NewIn(v, "behavioral", b) = {}
                          /\ (~injected \/ NewIn(v, "regression", r) # {}) -> "REGRESSION"
                     [] OTHER -> "PASSED"]
  BY DEF Judge
<1>3. h.build \in BOOLEAN
  BY HealthAssumption
<1>4. /\ val'[v].change = h /\ val'[v].base = val[v].base
      /\ val'[v].verdict \in {"BUILD", "BEHAVIORAL", "REGRESSION", "PASSED"}
      /\ val'[v].verdict = "PASSED" =>
           /\ h.build /\ NewIn(v, "behavioral", b) = {} /\ NewIn(v, "regression", r) = {}
  BY <1>1, <1>2, <1>3 DEF Threads
<1>5. health' = health /\ checks' = checks
  BY DEF Judge
<1>6. ASSUME val'[v].verdict = "PASSED", NEW k \in checks, ~Excusable(v, k)'
      PROVE  /\ h[k].end = "done"
             /\ h[k].failing \subseteq health[val[v].base][k].failing
  <2> DEFINE before == health[val[v].base][k]
  <2>1. k \in {"behavioral", "regression"}
    BY <1>1 DEF Suites
  <2>2. before.end = "done" /\ ~(h[k].end = "cut" /\ before.failing # {})
    BY <1>4, <1>5, <1>6 DEF Excusable
  <2>3. \A s \in {before, h[k]} : /\ s.end \in {"done", "cut", "hung"}
                                /\ s.failing \cap {"timed out", "exit code"} = {}
    BY <1>1, <2>1, HealthAssumption DEF Suites
  <2>4. \E was \in Reports(before), is \in Reports(h[k]) : is \ was = {}
    <3>1. CASE k = "behavioral"
      BY <1>1, <1>4, <1>6, <3>1 DEF Measured, Run, NewIn
    <3>2. CASE k = "regression"
      BY <1>1, <1>4, <1>6, <3>2 DEF Measured, Run, NewIn
    <3> QED BY <2>1, <3>1, <3>2
  <2> HIDE DEF before
  <2> QED BY <2>2, <2>3, <2>4, NothingNew DEF before
<1> QED BY <1>4, <1>5, <1>6 DEF VerdictHolds

\* The types depend on no variable that changes.
LEMMA TypesStay ==
  ASSUME checks' = checks
  PROVE  Baselines' = Baselines /\ Threads' = Threads
<1>1. \A kind, h : Run(kind, h)' = Run(kind, h)
  BY DEF Run
<1>2. Baselines' = Baselines
  BY <1>1 DEF Baselines, Reported
<1> QED BY <1>2 DEF Threads

\* A step of one thread that leaves the rest of the state alone.
LEMMA ThreadStep ==
  ASSUME ValidationInv, NEW v \in Validators, NEW a \in Threads,
         val' = [val EXCEPT ![v] = a],
         health' = health, checks' = checks, tip' = tip, cached' = cached,
         KnowsBase(v)', VerdictHolds(v)'
  PROVE  ValidationInv'
<1>1. ValidationTypeOK'
  BY TypesStay DEF ValidationInv, ValidationTypeOK
<1>2. (\A r \in DOMAIN cached : Measured(cached[r], r))'
  BY DEF ValidationInv, Measured, Run
<1>3. ASSUME NEW u \in Validators, u # v PROVE KnowsBase(u)' /\ VerdictHolds(u)'
  <2>1. val'[u] = val[u]
    BY <1>3 DEF ValidationInv, ValidationTypeOK
  <2> QED BY <2>1 DEF ValidationInv, KnowsBase, VerdictHolds, Excusable, Measured, Run
<1> QED BY <1>1, <1>2, <1>3 DEF ValidationInv

\* No step of a thread, and no move of main, spoils what a verdict is worth.
LEMMA ValidationNextInv == ValidationInv /\ [ValidationNext]_vaVars => ValidationInv'
<1> SUFFICES ASSUME ValidationInv, [ValidationNext]_vaVars PROVE ValidationInv'
  OBVIOUS
<1>0. /\ val \in [Validators -> Threads] /\ tip \in Revisions
      /\ health \in [Revisions -> Healths] /\ {} \in Reported("behavioral")
      /\ {} \in Reported("regression")
  BY DEF ValidationInv, ValidationTypeOK, Reported
<1>1. ASSUME NEW r \in Revisions, TipMoves(r) PROVE ValidationInv'
  BY <1>1, TypesStay DEF TipMoves, ValidationInv, ValidationTypeOK, KnowsBase, VerdictHolds,
     Excusable, Measured, Run
<1>2. ASSUME NEW v \in Validators, Begin(v) PROVE ValidationInv'
  <2> DEFINE a == [val[v] EXCEPT !.step = "lookup", !.base = tip]
  <2>1. a \in Threads /\ val' = [val EXCEPT ![v] = a]
    BY <1>0, <1>2 DEF Begin, Threads
  <2>2. KnowsBase(v)' /\ VerdictHolds(v)'
    BY <1>0, <1>2 DEF Begin, Threads, KnowsBase, VerdictHolds, ValidationInv
  <2> HIDE DEF a
  <2> QED BY <1>2, <2>1, <2>2, ThreadStep DEF Begin
<1>3. ASSUME NEW v \in Validators, Hit(v) PROVE ValidationInv'
  <2> DEFINE a == [val[v] EXCEPT !.step = "changed", !.baseline = cached[Key(val[v].base)]]
  <2>1. cached[Key(val[v].base)] \in Baselines /\ Measured(cached[Key(val[v].base)], val[v].base)
    BY <1>3 DEF Hit, Key, ValidationInv, ValidationTypeOK
  <2>2. a \in Threads /\ val' = [val EXCEPT ![v] = a]
    BY <1>0, <1>3, <2>1 DEF Hit, Threads
  <2>3. KnowsBase(v)' /\ VerdictHolds(v)'
    BY <1>0, <1>3, <2>1 DEF Hit, Threads, KnowsBase, VerdictHolds, ValidationInv, Measured, Run
  <2> HIDE DEF a
  <2> QED BY <1>3, <2>2, <2>3, ThreadStep DEF Hit
<1>4. ASSUME NEW v \in Validators, Miss(v) PROVE ValidationInv'
  <2> DEFINE a == [val[v] EXCEPT !.step = "measuring"]
  <2>1. a \in Threads /\ val' = [val EXCEPT ![v] = a]
    BY <1>0, <1>4 DEF Miss, Go, Threads
  <2>2. KnowsBase(v)' /\ VerdictHolds(v)'
    BY <1>0, <1>4 DEF Miss, Go, Threads, KnowsBase, VerdictHolds, ValidationInv
  <2> HIDE DEF a
  <2> QED BY <1>4, <2>1, <2>2, ThreadStep DEF Miss
<1>5. ASSUME NEW v \in Validators, Measure(v) PROVE ValidationInv'
  <2>1. PICK b \in Run("behavioral", health[val[v].base]), r \in Run("regression", health[val[v].base]) :
          val' = [val EXCEPT ![v].step = IF caching THEN "storing" ELSE "changed",
                    ![v].baseline = [build |-> health[val[v].base].build,
                                     behavioral |-> b, regression |-> r]]
    BY <1>5 DEF Measure
  <2> DEFINE m == [build |-> health[val[v].base].build, behavioral |-> b, regression |-> r]
             a == [val[v] EXCEPT !.step = IF caching THEN "storing" ELSE "changed", !.baseline = m]
  <2>2. health[val[v].base] \in Healths
    BY <1>0 DEF Threads
  <2>3. m \in Baselines /\ Measured(m, val[v].base)
    BY <2>2, HealthAssumption DEF Baselines, Reported, Measured
  <2> HIDE DEF m
  <2>4. a \in Threads /\ val' = [val EXCEPT ![v] = a]
    BY <1>0, <2>1, <2>3 DEF Threads, m
  <2>5. health' = health /\ checks' = checks /\ val'[v].baseline = m /\ val'[v].base = val[v].base
        /\ val'[v].step \in {"storing", "changed"} /\ val'[v].verdict = "NONE"
    BY <1>0, <1>5, <2>1 DEF Measure, Threads, m, KnowsBase, ValidationInv
  <2>6. KnowsBase(v)' /\ VerdictHolds(v)'
    BY <2>3, <2>5 DEF KnowsBase, VerdictHolds, Measured, Run
  <2> HIDE DEF a
  <2> QED BY <1>5, <2>4, <2>6, ThreadStep DEF Measure
<1>6. ASSUME NEW v \in Validators, Store(v) PROVE ValidationInv'
  <2> DEFINE base == val[v].base
  <2>1. /\ val[v].baseline \in Baselines /\ base \in Revisions /\ Measured(val[v].baseline, base)
        /\ Key(base) = base
    BY <1>0, <1>6 DEF Store, Threads, KnowsBase, ValidationInv, Key
  <2>2. cached' = [k \in DOMAIN cached \cup {base} |->
                     IF k = base THEN val[v].baseline ELSE cached[k]]
    BY <1>6, <2>1 DEF Store
  <2>3. /\ DOMAIN cached' \subseteq Revisions
        /\ \A r \in DOMAIN cached' : cached'[r] \in Baselines /\ Measured(cached'[r], r)
    BY <2>1, <2>2 DEF ValidationInv, ValidationTypeOK
  <2>4. UNCHANGED <<health, checks, caching, tip>>
    BY <1>6 DEF Store
  <2>5. val' = [val EXCEPT ![v].step = "changed"]
    BY <1>6 DEF Store, Go
  <2>6. ValidationTypeOK'
    <3>1. [val[v] EXCEPT !.step = "changed"] \in Threads
      BY <1>0 DEF Threads
    <3>2. val' \in [Validators -> Threads]
      BY <1>0, <2>5, <3>1
    <3> QED BY <1>0, <2>3, <2>4, <3>2, TypesStay DEF ValidationInv, ValidationTypeOK
  <2>7. (\A r \in DOMAIN cached : Measured(cached[r], r))'
    BY <2>3, <2>4 DEF Measured, Run
  <2>8. ASSUME NEW u \in Validators PROVE KnowsBase(u)' /\ VerdictHolds(u)'
    <3>1. /\ val'[u].baseline = val[u].baseline /\ val'[u].base = val[u].base
          /\ val'[u].change = val[u].change /\ val'[u].verdict = val[u].verdict
          /\ val'[u].step = val[u].step \/ (u = v /\ val'[u].step = "changed")
      BY <1>0, <2>5 DEF Threads
    <3>2. val[v].step = "storing"
      BY <1>6 DEF Store
    <3> QED BY <2>1, <2>4, <3>1, <3>2
        DEF ValidationInv, KnowsBase, VerdictHolds, Excusable, Measured, Run
  <2> QED BY <2>6, <2>7, <2>8 DEF ValidationInv
<1>7. ASSUME NEW v \in Validators, NEW h \in Healths, Judge(v, h) PROVE ValidationInv'
  <2> DEFINE a == val'[v]
  <2>1. VerdictHolds(v)' /\ a.verdict \in {"BUILD", "BEHAVIORAL", "REGRESSION", "PASSED"}
    BY <1>7, JudgeHolds
  <2>2. PICK verdict : val' = [val EXCEPT ![v].step = "judged", ![v].change = h,
                                          ![v].verdict = verdict]
    BY <1>7 DEF Judge
  <2>3. a.step = "judged"
    BY <1>0, <2>2 DEF Threads
  <2>4. a = [val[v] EXCEPT !.step = "judged", !.change = h, !.verdict = verdict]
    BY <1>0, <2>2
  <2>5. a \in Threads /\ val' = [val EXCEPT ![v] = a]
    <3>1. val[v] \in Threads /\ a.verdict = verdict
      BY <1>0, <2>4 DEF Threads
    <3>2. [val[v] EXCEPT !.step = "judged", !.change = h, !.verdict = verdict] \in Threads
      BY <2>1, <3>1 DEF Threads
    <3> QED BY <1>0, <2>2, <2>4, <3>2
  <2>6. KnowsBase(v)'
    BY <2>3 DEF KnowsBase
  <2> HIDE DEF a
  <2> QED BY <1>7, <2>1, <2>5, <2>6, ThreadStep DEF Judge
<1>8. ASSUME NEW v \in Validators, NextTransaction(v) PROVE ValidationInv'
  <2> DEFINE a == [val[v] EXCEPT !.step = "idle", !.verdict = "NONE", !.baseline = Unmeasured,
                                 !.change = health[tip], !.base = tip]
  <2>1. Unmeasured \in Baselines
    BY <1>0 DEF Unmeasured, Baselines
  <2>2. a \in Threads /\ val' = [val EXCEPT ![v] = a]
    BY <1>0, <1>8, <2>1 DEF NextTransaction, Threads
  <2>3. KnowsBase(v)' /\ VerdictHolds(v)'
    BY <1>0, <2>2 DEF Threads, KnowsBase, VerdictHolds
  <2> HIDE DEF a
  <2> QED BY <1>8, <2>2, <2>3, ThreadStep DEF NextTransaction
<1>9. CASE UNCHANGED vaVars
  BY <1>9, TypesStay DEF vaVars, ValidationInv, ValidationTypeOK, KnowsBase, VerdictHolds,
     Excusable, Measured, Run
<1> QED BY <1>1, <1>2, <1>3, <1>4, <1>5, <1>6, <1>7, <1>8, <1>9 DEF ValidationNext

\* A change that passes builds and fails no test that passes at its own base,
\* whichever thread measured that base, for any revisions, suites and threads.
THEOREM PassedBreaksNothing == ValidationSpec => []NothingNewBroken
<1>1. ValidationInit => ValidationInv
  <2> SUFFICES ASSUME ValidationInit PROVE ValidationInv
    OBVIOUS
  <2>1. Unmeasured \in Baselines
    BY DEF Unmeasured, Baselines, Reported
  <2>2. ValidationTypeOK
    BY <2>1 DEF ValidationInit, ValidationTypeOK, Threads
  <2> QED BY <2>2 DEF ValidationInit, ValidationInv, KnowsBase, VerdictHolds
<1>2. ValidationInv => NothingNewBroken
  BY DEF ValidationInv, VerdictHolds, NothingNewBroken
<1> QED BY <1>1, <1>2, ValidationNextInv, PTL DEF ValidationSpec

-----------------------------------------------------------------------------
\* The crash journal.

LEMMA JournalKeepsType ==
  ASSUME Journal!JournalTypeOK, [Journal!JournalNext]_journalVars
  PROVE  Journal!JournalTypeOK'
<1> USE DEF Journal!JournalTypeOK, Journal!Read, Journal!Write, Journal!NoRecords
<1>1. \A records \in {disk, Journal!NoRecords} :
        Journal!Overlay(records, pending) \in [Recorded -> Journal!States \cup {Journal!Absent}]
  BY DEF Journal!Overlay
<1>2. ASSUME NEW t \in Recorded, Journal!RecordStart(t, "WORKTREE_READY")
      PROVE  Journal!JournalTypeOK'
  BY <1>2 DEF Journal!RecordStart, Journal!States
<1>3. ASSUME NEW t \in Recorded, NEW s \in {"VALIDATED", "STALE_BASE"}, Journal!UpdateState(t, s)
      PROVE  Journal!JournalTypeOK'
  BY <1>3 DEF Journal!UpdateState, Journal!States
<1>4. ASSUME NEW t \in Recorded, Journal!RecordEnd(t) PROVE Journal!JournalTypeOK'
  <2>1. PICK records \in {disk, Journal!NoRecords} :
          \/ disk' = disk
          \/ disk' = [Journal!Overlay(records, pending) EXCEPT ![t] = Journal!Absent]
    BY <1>4 DEF Journal!RecordEnd
  <2>2. pending' = [pending EXCEPT ![t] = Journal!Absent]
    BY <1>4 DEF Journal!RecordEnd
  <2> QED BY <1>1, <2>1, <2>2
<1>5. CASE Journal!Flush
  <2>1. PICK records \in {disk, Journal!NoRecords} :
          disk' = disk \/ disk' = Journal!Overlay(records, pending)
    BY <1>5 DEF Journal!Flush
  <2>2. pending' = Journal!NoRecords
    BY <1>5 DEF Journal!Flush
  <2> QED BY <1>1, <2>1, <2>2
<1>6. CASE Journal!LoseMemory \/ UNCHANGED journalVars
  BY <1>6 DEF Journal!LoseMemory, journalVars
<1> QED BY <1>2, <1>3, <1>4, <1>5, <1>6 DEF Journal!JournalNext

\* Starting or ending one transaction, and flushing, keeps what the journal reports
\* for the others: the full rewrite reverts no lazy update, in whatever order the
\* transactions use the journal, as long as its file can be read and written.
THEOREM OthersKept == Journal!JournalSpec => RewriteKeepsOthers
<1> USE DEF Journal!JournalTypeOK, Journal!Read, Journal!Write, Journal!Reported
<1>1. Journal!JournalTypeOK => \A u \in Recorded : Journal!Reported(u) =
        IF disk[u] # Journal!Absent /\ pending[u] # Journal!Absent THEN pending[u] ELSE disk[u]
  BY DEF Journal!Overlay
<1>2. ASSUME Journal!JournalTypeOK, ~faulty, NEW t \in Recorded, NEW u \in Recorded \ {t},
             Journal!RecordStart(t, "WORKTREE_READY") \/ Journal!RecordEnd(t)
      PROVE  Journal!Reported(u)' = Journal!Reported(u)
  <2>1. CASE Journal!RecordStart(t, "WORKTREE_READY")
    BY <1>2, <2>1 DEF Journal!RecordStart, Journal!Overlay
  <2>2. CASE Journal!RecordEnd(t)
    <3>1. /\ pending' = [pending EXCEPT ![t] = Journal!Absent]
          /\ \/ disk' = disk
             \/ disk' = [Journal!Overlay(disk, pending) EXCEPT ![t] = Journal!Absent]
      BY <1>2, <2>2 DEF Journal!RecordEnd
    <3>2. pending'[u] = pending[u] /\ disk'[u] \in {disk[u], Journal!Reported(u)}
      BY <1>2, <3>1 DEF Journal!Overlay
    <3> QED BY <1>2, <3>2 DEF Journal!Overlay
  <2> QED BY <1>2, <2>1, <2>2
<1>3. ASSUME Journal!JournalTypeOK, ~faulty, Journal!Flush, NEW u \in Recorded
      PROVE  Journal!Reported(u)' = Journal!Reported(u)
  <2>1. \/ /\ ~\E t \in Recorded : pending[t] # Journal!Absent /\ disk[t] # Journal!Absent
           /\ disk' = disk
        \/ disk' = Journal!Overlay(disk, pending)
    BY <1>3 DEF Journal!Flush
  <2>2. pending'[u] = Journal!Absent
    BY <1>3 DEF Journal!Flush, Journal!NoRecords
  <2>3. disk'[u] = Journal!Reported(u)
    BY <2>1 DEF Journal!Overlay
  <2> QED BY <2>2, <2>3 DEF Journal!Overlay
<1>4. Journal!JournalInit => Journal!JournalTypeOK
  BY DEF Journal!JournalInit, Journal!NoRecords
<1> DEFINE Keeps ==
      ~faulty =>
        /\ \A t \in Recorded : (Journal!RecordEnd(t) \/ Journal!RecordStart(t, "WORKTREE_READY")) =>
              \A u \in Recorded \ {t} : Journal!Reported(u)' = Journal!Reported(u)
        /\ Journal!Flush => \A u \in Recorded : Journal!Reported(u)' = Journal!Reported(u)
<1>5. Journal!JournalTypeOK => Keeps
  BY <1>2, <1>3
<1> HIDE DEF Keeps
<1>6. /\ Journal!JournalTypeOK
      /\ [Journal!JournalNext /\ UNCHANGED faulty]_<<Journal!journalVars, faulty>>
      => Journal!JournalTypeOK'
  BY JournalKeepsType DEF Journal!journalVars, journalVars
<1> QED BY <1>4, <1>5, <1>6, PTL DEF Journal!JournalSpec, RewriteKeepsOthers,
           Journal!RewriteKeepsOthers, Keeps
=============================================================================

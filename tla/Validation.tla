----------------------------- MODULE Validation -----------------------------
(***************************************************************************)
(* validation/baseline.py (BaselineManager) and the tiers T1 to T3 of      *)
(* validation/pipeline.py with their validators: what was broken at the    *)
(* base is measured once per commit and cached, and a change is refused    *)
(* for what is broken in addition. The workers of a run share the cache    *)
(* without a lock.                                                         *)
(***************************************************************************)
EXTENDS Naturals, FiniteSets

CONSTANTS
  Validators,   \* the threads that validate a change each
  Revisions,    \* the commits main may be at
  Healths,      \* the states of health a revision or a changed tree may be in
  Checks        \* the sets of suites that may be configured

\* A suite of tests: what fails, and whether it gets to its end.
Suite(failing, end) == [failing |-> failing, end |-> end]
Suites == {"behavioral", "regression"}

ASSUME CheckAssumption == Checks \subseteq SUBSET Suites
\* What a runner says of itself has none of the words by which the validators
\* recognise a failing test in its output.
ASSUME HealthAssumption ==
  \A h \in Healths :
     /\ h.build \in BOOLEAN
     /\ \A k \in Suites : /\ h[k].end \in {"done", "cut", "hung"}
                          /\ h[k].failing \cap {"timed out", "exit code"} = {}

VARIABLES
  health,    \* of each revision
  checks,    \* the suites that are configured
  caching,   \* enable_cache
  tip,       \* the revision main is at
  cached,    \* the baseline in the cache, by key
  val        \* the threads: step, base, baseline, change and verdict

vaVars == <<health, checks, caching, tip, cached, val>>

Unmeasured == [build |-> FALSE, behavioral |-> {}, regression |-> {}]

ValidationInit ==
  /\ health \in [Revisions -> Healths] /\ checks \in Checks /\ caching \in BOOLEAN
  /\ tip \in Revisions /\ cached = <<>>
  /\ val = [v \in Validators |->
              [step |-> "idle", base |-> tip, baseline |-> Unmeasured,
               change |-> health[tip], verdict |-> "NONE"]]

\* A merge by another worker, or the user.
TipMoves(r) ==
  /\ r # tip /\ tip' = r
  /\ UNCHANGED <<health, checks, caching, cached, val>>

Go(v, step) == val' = [val EXCEPT ![v].step = step]

\* The transaction's worktree is made at the head.
Begin(v) ==
  /\ val[v].step = "idle"
  /\ val' = [val EXCEPT ![v].step = "lookup", ![v].base = tip]
  /\ UNCHANGED <<health, checks, caching, tip, cached>>

\* Mutant: the key is of the environment and the configuration only.
KeyOfSettings(r) == checks

\* compute_cache_key; environment and configuration are those of one process.
Key(r) == r

Hit(v) ==
  /\ val[v].step = "lookup" /\ caching /\ Key(val[v].base) \in DOMAIN cached
  /\ val' = [val EXCEPT ![v].step = "changed", ![v].baseline = cached[Key(val[v].base)]]
  /\ UNCHANGED <<health, checks, caching, tip, cached>>

Miss(v) ==
  /\ val[v].step = "lookup" /\ ~(caching /\ Key(val[v].base) \in DOMAIN cached)
  /\ Go(v, "measuring")
  /\ UNCHANGED <<health, checks, caching, tip, cached>>

\* broken_tests or failures of a run: a timeout hides the output, a runner that dies
\* reports what failed before, and its exit code when that is nothing.
Reports(suite) ==
  CASE suite.end = "done" -> {suite.failing}
    [] suite.end = "hung" -> {{"timed out"}}
    [] suite.end = "cut" -> {IF F = {} THEN {"exit code"} ELSE F : F \in SUBSET suite.failing}

Run(kind, h) == IF kind \in checks THEN Reports(h[kind]) ELSE {{}}

\* In the worktree, which is still at its base: no red test, no patch.
Measure(v) ==
  /\ val[v].step = "measuring"
  /\ \E b \in Run("behavioral", health[val[v].base]),
        r \in Run("regression", health[val[v].base]) :
       val' = [val EXCEPT ![v].step = IF caching THEN "storing" ELSE "changed",
                 ![v].baseline = [build |-> health[val[v].base].build,
                                  behavioral |-> b, regression |-> r]]
  /\ UNCHANGED <<health, checks, caching, tip, cached>>

\* The last of several that measured the same commit wins.
Store(v) ==
  /\ val[v].step = "storing"
  /\ cached' = [k \in DOMAIN cached \cup {Key(val[v].base)} |->
                  IF k = Key(val[v].base) THEN val[v].baseline ELSE cached[k]]
  /\ Go(v, "changed")
  /\ UNCHANGED <<health, checks, caching, tip>>

\* compare_behavioral and compare_regression: what is reported now and was not then.
NewIn(v, kind, report) == report \ val[v].baseline[kind]

\* Red test and patch are applied; the tiers are run in order, T3 after the holdout.
Judge(v, h) ==
  /\ val[v].step = "changed"
  /\ \E b \in Run("behavioral", h), r \in Run("regression", h), injected \in BOOLEAN :
       LET verdict == CASE ~h.build -> IF val[v].baseline.build THEN "REGRESSION" ELSE "BUILD"
                        [] h.build /\ NewIn(v, "behavioral", b) # {} -> "BEHAVIORAL"
                        [] h.build /\ NewIn(v, "behavioral", b) = {}
                             /\ (~injected \/ NewIn(v, "regression", r) # {}) -> "REGRESSION"
                        [] OTHER -> "PASSED"
       IN val' = [val EXCEPT ![v].step = "judged", ![v].change = h, ![v].verdict = verdict]
  /\ UNCHANGED <<health, checks, caching, tip, cached>>

\* The manager stays for the runtime's next transaction.
NextTransaction(v) ==
  /\ val[v].step = "judged"
  /\ val' = [val EXCEPT ![v].step = "idle", ![v].verdict = "NONE",
               ![v].baseline = Unmeasured, ![v].change = health[tip], ![v].base = tip]
  /\ UNCHANGED <<health, checks, caching, tip, cached>>

ValidationNext ==
  \/ \E r \in Revisions : TipMoves(r)
  \/ \E v \in Validators :
       \/ Begin(v) \/ Hit(v) \/ Miss(v) \/ Measure(v) \/ Store(v) \/ NextTransaction(v)
       \/ \E h \in Healths : Judge(v, h)

ValidationSpec == ValidationInit /\ [][ValidationNext]_vaVars

-----------------------------------------------------------------------------
\* Properties.

Excusable(v, kind) ==
  LET before == health[val[v].base][kind] now == val[v].change[kind]
  IN before.end # "done" \/ (now.end = "cut" /\ before.failing # {})

\* A change that passes builds, and fails no test that passes at its own base,
\* whichever worker measured that base and wherever main has moved meanwhile. The
\* comparison is of messages, so it cannot tell when the base's suite hung or died,
\* nor when the suite dies after a failure that the base has too.
NothingNewBroken ==
  \A v \in Validators : val[v].verdict = "PASSED" =>
    /\ val[v].change.build
    /\ \A k \in checks : ~Excusable(v, k) =>
         /\ val[v].change[k].end = "done"
         /\ val[v].change[k].failing \subseteq health[val[v].base][k].failing
=============================================================================

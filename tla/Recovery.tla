------------------------------ MODULE Recovery ------------------------------
(***************************************************************************)
(* recovery/manager.py (run_recovery_loop) with model/router.py,           *)
(* recovery/classifier.py and the HTTP retries of model/providers.py: a    *)
(* task gets up to MaxAttempts model calls and transactions, and each      *)
(* model call up to MaxRetries repeated requests.                          *)
(***************************************************************************)
EXTENDS Naturals, Sequences, FiniteSets

CONSTANTS
  MaxAttempts,    \* RecoveryManager.MAX_ATTEMPTS
  MaxRetries      \* max_retries of the provider

ASSUME AttemptsAssumption == MaxAttempts \in Nat \ {0}
ASSUME RetriesAssumption == MaxRetries \in Nat

VARIABLES
  task,           \* its risk, the confidence of its evidence, is it a dry run
  phase,
  attempt,        \* the attempt in progress, from 0
  tries,          \* HTTP requests made for the current model call
  model,          \* the model of the current attempt
  last,           \* last_failure_type
  history,        \* RecoveryHistory: the failure of each attempt
  kept,           \* what each executed attempt left of its commit
  answer          \* the failure of the result the loop returns, or SUCCESS

vars == <<task, phase, attempt, tries, model, last, history, kept, answer>>

X == INSTANCE Outcomes

\* ModelResponse failures of the provider, and those that are tried again.
TransientHttp == {"RATE_LIMIT", "SERVER_ERROR", "TIMEOUT", "NETWORK_ERROR"}
OtherHttp == {"AUTH_ERROR", "UNKNOWN_PROVIDER_ERROR", "MODEL_FORMAT_ERROR",
              "MODEL_CONTENT_INVALID"}

\* The failures of execute_transaction by class.
HardStopTypes == {"SCOPE_VIOLATION", "AUTH_ERROR", "CONFIG_MISSING",
                  "TRANSACTION_INTEGRITY_FAILURE", "ROLLBACK_FAILED"}
ExecutionFailures(class) ==
  CASE class = "HARD_STOP" -> {"SCOPE_VIOLATION", "CONFIG_MISSING",
                               "TRANSACTION_INTEGRITY_FAILURE"}
    [] class = "ROLLBACK_FAILED" -> {"ROLLBACK_FAILED"}
    [] class = "RETRYABLE" -> {"PATCH_INVALID", "SYNTAX", "TYPE_SEMANTIC",
                               "BEHAVIORAL", "REGRESSION", "BUILD_FAILED", "PROCESS_FAILURE",
                               "ENV_TRANSIENT", "TIMEOUT", "UNKNOWN"}
    \* FailureType(None) is no member: the loop takes it for UNKNOWN.
    [] class = "NONE" -> {"UNKNOWN"}

Failures == TransientHttp \cup OtherHttp \cup
            UNION {ExecutionFailures(class) : class \in {"HARD_STOP", "ROLLBACK_FAILED",
                                                         "RETRYABLE"}}
Answers == Failures \cup {"SUCCESS", "PENDING_INTEGRATION", "CONTEXT_BUDGET_EXCEEDED",
                          "HARD_HALT", "NONE"}

RecoveryTypeOK ==
  /\ task \in [highRisk : BOOLEAN, evidence : {"missing", "low", "high"}, dryRun : BOOLEAN]
  /\ phase \in {"routing", "posting", "executing", "ended", "escaped"}
  /\ attempt \in 0..MaxAttempts /\ tries \in 0..(MaxRetries + 1)
  /\ model \in {"FAST", "REASONING", "NONE"}
  /\ last \in Failures /\ history \in Seq(Failures) /\ answer \in Answers
  /\ kept \in Seq({"landed", "parked", "nothing"})

Init ==
  /\ task \in [highRisk : BOOLEAN, evidence : {"missing", "low", "high"}, dryRun : BOOLEAN]
  /\ phase = "routing" /\ attempt = 0 /\ tries = 0
  /\ model = "NONE" /\ last = "UNKNOWN" /\ history = <<>> /\ kept = <<>>
  /\ answer = "NONE"

\* ModelRouter.route, whose rules are tried in order.
Route(failure, n, evidence) ==
  IF task.highRisk \/ n >= 2 THEN "REASONING"
  ELSE IF failure = "SYNTAX" THEN "FAST"
  ELSE IF failure \in {"TYPE_SEMANTIC", "PATCH_INVALID"} /\ n < 1 THEN "FAST"
  ELSE IF failure \in {"TYPE_SEMANTIC", "PATCH_INVALID", "BEHAVIORAL", "UNKNOWN"}
       THEN "REASONING"
  ELSE IF evidence = "high" THEN "FAST" ELSE "REASONING"

\* The evidence is passed to the router for the first attempt only.
RouteAttempt ==
  IF attempt = 0 THEN Route("NONE", 0, task.evidence)
  ELSE IF attempt = 1 THEN Route(last, 1, "missing")
  ELSE "REASONING"

BuildContext ==
  /\ phase = "routing" /\ attempt < MaxAttempts
  /\ model' = RouteAttempt
  /\ \/ phase' = "posting" /\ tries' = 0 /\ UNCHANGED answer
     \/ phase' = "ended" /\ answer' = "CONTEXT_BUDGET_EXCEEDED" /\ UNCHANGED tries
  /\ UNCHANGED <<task, attempt, last, history, kept>>

HardHalt ==
  /\ phase = "routing" /\ attempt = MaxAttempts
  /\ phase' = "ended" /\ answer' = "HARD_HALT"
  /\ UNCHANGED <<task, attempt, tries, model, last, history, kept>>

\* Mutant: a rejected key is tried again.
EndUnlessAuth(failure) ==
  /\ last' = failure
  /\ IF failure \in HardStopTypes \ {"AUTH_ERROR"}
     THEN /\ phase' = "ended" /\ answer' = failure
          /\ UNCHANGED <<attempt, history>>
     ELSE /\ phase' = "routing" /\ attempt' = attempt + 1
          /\ history' = Append(history, failure)
          /\ UNCHANGED answer

\* The attempt failed: stop at once, or remember the failure and go on.
EndAttempt(failure) ==
  /\ last' = failure
  /\ IF failure \in HardStopTypes
     THEN /\ phase' = "ended" /\ answer' = failure
          /\ UNCHANGED <<attempt, history>>
     ELSE /\ phase' = "routing" /\ attempt' = attempt + 1
          /\ history' = Append(history, failure)
          /\ UNCHANGED answer

\* Mutant: one request too many.
PostFailsOnceMore(failure) ==
  /\ phase = "posting" /\ failure \in TransientHttp
  /\ tries' = tries + 1
  /\ IF tries <= MaxRetries
     THEN UNCHANGED <<phase, attempt, last, history, answer>>
     ELSE EndAttempt(failure)
  /\ UNCHANGED <<task, model, kept>>

\* Mutant: the retries of a request are never exhausted.
PostFailsForever(failure) ==
  /\ phase = "posting" /\ failure \in TransientHttp
  /\ tries' = IF tries < MaxRetries THEN tries + 1 ELSE 0
  /\ UNCHANGED <<task, phase, attempt, last, history, answer, model, kept>>

\* A request that fails in a way that may pass: sleep and repeat, or give up.
PostFails(failure) ==
  /\ phase = "posting" /\ failure \in TransientHttp
  /\ tries' = tries + 1
  /\ IF tries < MaxRetries
     THEN UNCHANGED <<phase, attempt, last, history, answer>>
     ELSE EndAttempt(failure)
  /\ UNCHANGED <<task, model, kept>>

\* No key or a rejected one, an unexpected error, or an answer without a patch.
NoProposal(failure) ==
  /\ phase = "posting" /\ failure \in OtherHttp
  /\ tries' = tries + 1
  /\ EndAttempt(failure)
  /\ UNCHANGED <<task, model, kept>>

Proposal ==
  /\ phase = "posting"
  /\ tries' = tries + 1 /\ phase' = "executing"
  /\ UNCHANGED <<task, attempt, model, last, history, kept, answer>>

\* What this task's transaction may come to; a dry run never commits.
Possible == {o \in X!TransactionOutcomes :
               IF task.dryRun THEN ~o.committed ELSE o # X!DryRunPassed}

Execute(o) ==
  /\ phase = "executing" /\ o \in Possible
  /\ kept' = Append(kept, o.kept)
  /\ UNCHANGED <<task, tries, model>>

Succeed(o) ==
  /\ Execute(o) /\ o.success
  /\ phase' = "ended" /\ answer' = "SUCCESS"
  /\ UNCHANGED <<attempt, last, history>>

\* Mutant: a pending commit is reported as a success.
SucceedPending(o) ==
  /\ Execute(o) /\ ~o.success
  /\ o.committed /\ o.class = "NONE"
  /\ phase' = "ended" /\ answer' = "SUCCESS" /\ last' = "UNKNOWN"
  /\ UNCHANGED <<attempt, history>>

\* The commit waits for integration: running the model again cannot help.
StopPending(o) ==
  /\ Execute(o) /\ ~o.success
  /\ o.committed /\ o.class = "NONE"
  /\ phase' = "ended" /\ answer' = "PENDING_INTEGRATION" /\ last' = "UNKNOWN"
  /\ UNCHANGED <<attempt, history>>

\* Mutant: a pending commit is treated like any failure.
ExecutionFailsPending(o) ==
  /\ Execute(o) /\ ~o.success
  /\ \E failure \in ExecutionFailures(o.class) : EndAttempt(failure)

ExecutionFails(o) ==
  /\ Execute(o) /\ ~o.success
  /\ ~(o.committed /\ o.class = "NONE")
  /\ \E failure \in ExecutionFailures(o.class) : EndAttempt(failure)

\* Nothing in the loop catches what leaves execute_transaction.
Escape ==
  /\ phase = "executing"
  /\ phase' = "escaped"
  /\ UNCHANGED <<task, attempt, tries, model, last, history, kept, answer>>

Step ==
  \/ BuildContext \/ HardHalt \/ Proposal \/ Escape
  \/ \E failure \in Failures : PostFails(failure) \/ NoProposal(failure)
  \/ \E o \in X!TransactionOutcomes : Succeed(o) \/ StopPending(o) \/ ExecutionFails(o)

Ended == phase \in {"ended", "escaped"} /\ UNCHANGED vars

Next == Step \/ Ended

Spec == Init /\ [][Next]_vars

\* Requests and transactions end, because each has a timeout.
RecoveryFairness == WF_vars(Step)
FairSpec == Spec /\ RecoveryFairness

-----------------------------------------------------------------------------
\* Properties.

\* "stopping retries to avoid duplicate commits": whatever the model and the
\* transactions do, at most one attempt leaves a commit, on main or parked, and
\* it is the last one.
OneCommitPerTask ==
  \A i \in 1..Len(kept) : kept[i] # "nothing" => i = Len(kept)

\* The answer tells what was left behind: SUCCESS (of no dry run) means that the
\* commit is on main, PENDING that there is one to integrate, and HARD_HALT or a
\* failure other than a failed cleanup that the task left nothing.
AnswerTruthful ==
  phase = "ended" =>
    LET left == {kept[i] : i \in 1..Len(kept)} \ {"nothing"}
    IN CASE answer = "SUCCESS" -> left = IF task.dryRun THEN {} ELSE {"landed"}
         [] answer = "PENDING_INTEGRATION" -> left # {}
         [] answer = "ROLLBACK_FAILED" -> left \subseteq {"landed"}
         [] OTHER -> left = {}

\* Each retry knows every failure before it, in order: the history has one entry
\* per failed attempt and the newest is the one the router goes by. None of them is
\* one that "cannot and must not be retried": after a rejected key, an escape from
\* the scope or a failed cleanup there is no further request and no transaction.
HistoryComplete ==
  phase \in {"routing", "posting", "executing"} =>
     /\ Len(history) = attempt
     /\ attempt > 0 => history[attempt] = last
     /\ \A n \in 1..Len(history) : history[n] \notin HardStopTypes

Part == CASE phase = "routing" -> 0
          [] phase = "posting" -> 1
          [] phase = "executing" -> 2
          [] OTHER -> 3

Advance ==
  \/ attempt < attempt'
  \/ attempt = attempt' /\ Part < Part'
  \/ attempt = attempt' /\ Part = Part' /\ tries < tries'

\* The retries of the provider and those of the loop do not start one another again: every
\* step begins a new attempt, goes on to the next part of the attempt or makes one more
\* request, and all three are bounded (RecoveryTypeOK).
LoopAdvances == [][Advance]_vars

\* The loop ends: with a result, or by an exception of the runtime.
LoopEnds == <>(phase \in {"ended", "escaped"})
=============================================================================

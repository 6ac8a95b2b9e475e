--------------------------- MODULE CallersProofs ---------------------------
(* Proofs about the callers of the transaction engine, for any limits on    *)
(* attempts and retries, any queue, workers, plans and command line.        *)
EXTENDS Recovery, CloudQueue, Coordinator, CommandLine, FiniteSetTheorems, TLAPS

-----------------------------------------------------------------------------
\* The outcomes of a transaction.

LEMMA OutcomeFacts ==
  \A o \in TransactionOutcomes :
     /\ o.success \in BOOLEAN /\ o.committed \in BOOLEAN
     /\ o.kept \in {"landed", "parked", "nothing"}
     /\ o.success => o = Integrated \/ o = DryRunPassed
     /\ ~o.committed => o.kept = "nothing"
     /\ o.success /\ o # DryRunPassed => o.kept = "landed"
     /\ o.committed /\ o.class = "NONE" => o.kept # "nothing"
     /\ ~o.success /\ o.committed /\ o.class # "NONE" =>
           o.class = "ROLLBACK_FAILED" /\ o.kept = "landed"
     /\ ~o.success =>
           \/ o.class \in {"RETRYABLE", "HARD_STOP", "ROLLBACK_FAILED"}
           \/ o.committed /\ o.class = "NONE"
  <1>1. \A class : Failed(class) = [success |-> FALSE, committed |-> FALSE, class |-> class,
                                    kept |-> "nothing"]
    BY DEF Failed, Outcome
  <1>2. \A o \in TransactionOutcomes :
           \/ o = [success |-> TRUE, committed |-> TRUE, class |-> "NONE", kept |-> "landed"]
           \/ o = [success |-> TRUE, committed |-> FALSE, class |-> "NONE", kept |-> "nothing"]
           \/ o = [success |-> FALSE, committed |-> TRUE, class |-> "NONE", kept |-> "parked"]
           \/ o = [success |-> FALSE, committed |-> TRUE, class |-> "NONE", kept |-> "landed"]
           \/ o = [success |-> FALSE, committed |-> TRUE, class |-> "ROLLBACK_FAILED",
                   kept |-> "landed"]
           \/ \E class \in {"RETRYABLE", "HARD_STOP", "ROLLBACK_FAILED"} :
                 o = [success |-> FALSE, committed |-> FALSE, class |-> class,
                      kept |-> "nothing"]
    BY <1>1 DEF TransactionOutcomes, Integrated, DryRunPassed, Parked, ParkedLanded, Uncleaned,
                Outcome
  <1>3. /\ Integrated = [success |-> TRUE, committed |-> TRUE, class |-> "NONE",
                         kept |-> "landed"]
        /\ DryRunPassed = [success |-> TRUE, committed |-> FALSE, class |-> "NONE",
                           kept |-> "nothing"]
    BY DEF Integrated, DryRunPassed, Outcome
  <1> DEFINE Contract == [success : BOOLEAN, committed : BOOLEAN,
                          class : {"NONE", "RETRYABLE", "HARD_STOP", "ROLLBACK_FAILED"},
                          kept : {"landed", "parked", "nothing"}]
  <1>4. Outcome(TRUE, TRUE, "NONE", "landed") \in Contract
    BY DEF Outcome
  <1>5. Outcome(TRUE, FALSE, "NONE", "nothing") \in Contract
    BY DEF Outcome
  <1>6. Outcome(FALSE, TRUE, "NONE", "parked") \in Contract
    BY DEF Outcome
  <1>7. Outcome(FALSE, TRUE, "NONE", "landed") \in Contract
    BY DEF Outcome
  <1>8. Outcome(FALSE, TRUE, "ROLLBACK_FAILED", "landed") \in Contract
    BY DEF Outcome
  <1>9. \A class \in {"RETRYABLE", "HARD_STOP", "ROLLBACK_FAILED"} :
           Outcome(FALSE, FALSE, class, "nothing") \in Contract
    BY DEF Outcome
  <1> HIDE DEF Contract
  <1>10. \A o \in TransactionOutcomes : o \in Contract
    BY <1>4, <1>5, <1>6, <1>7, <1>8, <1>9
    DEF TransactionOutcomes, Integrated, DryRunPassed, Parked, ParkedLanded, Uncleaned, Failed
  <1>11. \A o \in TransactionOutcomes : o.success \in BOOLEAN /\ o.committed \in BOOLEAN
    BY <1>10 DEF Contract
  <1>12. \A o \in TransactionOutcomes :
            /\ o.kept \in {"landed", "parked", "nothing"}
            /\ ~o.committed => o.kept = "nothing"
            /\ o.committed /\ o.class = "NONE" => o.kept # "nothing"
    BY <1>2
  <1>13. \A o \in TransactionOutcomes :
            /\ o.success => o = Integrated \/ o = DryRunPassed
            /\ o.success /\ o # DryRunPassed => o.kept = "landed"
    BY <1>2, <1>3
  <1>14. \A o \in TransactionOutcomes :
            /\ ~o.success /\ o.committed /\ o.class # "NONE" =>
                  o.class = "ROLLBACK_FAILED" /\ o.kept = "landed"
            /\ ~o.success =>
                  \/ o.class \in {"RETRYABLE", "HARD_STOP", "ROLLBACK_FAILED"}
                  \/ o.committed /\ o.class = "NONE"
    BY <1>2
  <1> QED BY <1>11, <1>12, <1>13, <1>14

LEMMA SameOutcomes == X!TransactionOutcomes = TransactionOutcomes /\ X!DryRunPassed = DryRunPassed
  BY DEF X!TransactionOutcomes, TransactionOutcomes, X!Outcome, Outcome, X!Integrated,
     Integrated, X!DryRunPassed, DryRunPassed, X!Parked, Parked, X!ParkedLanded, ParkedLanded,
     X!Uncleaned, Uncleaned, X!Failed, Failed

-----------------------------------------------------------------------------
\* The recovery loop.

\* While the loop goes on, no attempt has left anything behind, one failure that
\* may be retried is remembered for each of them, and the request is in its limit.
GoesOn ==
  /\ \A i \in 1..Len(kept) : kept[i] = "nothing"
  /\ Len(history) = attempt
  /\ attempt > 0 => history[attempt] = last
  /\ \A n \in 1..Len(history) : history[n] \notin HardStopTypes
  /\ phase # "routing" => attempt < MaxAttempts
  /\ phase = "posting" => tries <= MaxRetries

RecoveryInv ==
  /\ RecoveryTypeOK
  /\ phase \in {"routing", "posting", "executing"} => GoesOn
  /\ phase = "escaped" => \A i \in 1..Len(kept) : kept[i] = "nothing"
  /\ OneCommitPerTask /\ AnswerTruthful

\* The classes of failures are kept apart from the answers that are none.
LEMMA FailureFacts ==
  /\ "UNKNOWN" \in Failures
  /\ Failures \subseteq Answers
  /\ \A f \in Failures : f # "SUCCESS" /\ f # "PENDING_INTEGRATION"
  /\ \A f \in TransientHttp \cup OtherHttp : f \in Failures /\ f # "ROLLBACK_FAILED"
  /\ \A class \in {"RETRYABLE", "HARD_STOP", "ROLLBACK_FAILED"} :
        ExecutionFailures(class) \subseteq Failures
  /\ ExecutionFailures("ROLLBACK_FAILED") = {"ROLLBACK_FAILED"}
  <1>1. /\ "UNKNOWN" \in ExecutionFailures("RETRYABLE")
        /\ ExecutionFailures("ROLLBACK_FAILED") = {"ROLLBACK_FAILED"}
        /\ \A class \in {"RETRYABLE", "HARD_STOP", "ROLLBACK_FAILED"} :
              \A f \in ExecutionFailures(class) : f # "SUCCESS" /\ f # "PENDING_INTEGRATION"
    BY DEF ExecutionFailures
  <1>2. \A f \in TransientHttp \cup OtherHttp :
           f # "ROLLBACK_FAILED" /\ f # "SUCCESS" /\ f # "PENDING_INTEGRATION"
    BY DEF TransientHttp, OtherHttp
  <1> QED BY <1>1, <1>2 DEF Failures, Answers

LEMMA RecoveryStarts == Init => RecoveryInv
  BY AttemptsAssumption, RetriesAssumption, FailureFacts
  DEF Init, RecoveryInv, RecoveryTypeOK, GoesOn, OneCommitPerTask, AnswerTruthful, Answers

\* A failure ends the attempt: by itself, or of an outcome that left nothing.
LEMMA AttemptEnds ==
  ASSUME RecoveryInv, NEW f \in Failures, EndAttempt(f),
         phase \in {"posting", "executing"},
         task' = task, model' = model, tries' \in 0..(MaxRetries + 1),
         \/ kept' = kept /\ f # "ROLLBACK_FAILED"
         \/ kept' = Append(kept, "nothing")
         \/ kept' = Append(kept, "landed") /\ f = "ROLLBACK_FAILED"
  PROVE  RecoveryInv'
  <1> USE AttemptsAssumption, RetriesAssumption
  <1>1. /\ GoesOn /\ kept \in Seq({"landed", "parked", "nothing"})
        /\ history \in Seq(Failures) /\ attempt \in Nat /\ attempt < MaxAttempts
    BY DEF RecoveryInv, RecoveryTypeOK, GoesOn
  <1>2. /\ kept' \in Seq({"landed", "parked", "nothing"})
        /\ \A i \in 1..Len(kept') :
             \/ kept'[i] = "nothing"
             \/ i = Len(kept') /\ kept'[i] = "landed" /\ f = "ROLLBACK_FAILED"
    <2>1. CASE kept' = kept
      BY <1>1, <2>1 DEF GoesOn
    <2>2. CASE kept' = Append(kept, "nothing")
      BY <1>1, <2>2 DEF GoesOn
    <2>3. CASE kept' = Append(kept, "landed") /\ f = "ROLLBACK_FAILED"
      BY <1>1, <2>3 DEF GoesOn
    <2> QED BY <2>1, <2>2, <2>3
  <1>3. CASE f \in HardStopTypes
    <2>1. phase' = "ended" /\ answer' = f /\ last' = f /\ UNCHANGED <<attempt, history>>
      BY <1>3 DEF EndAttempt
    <2>2. RecoveryTypeOK'
      BY <1>2, <2>1, FailureFacts DEF RecoveryInv, RecoveryTypeOK
    <2>4. OneCommitPerTask'
      BY <1>2 DEF OneCommitPerTask
    <2>5. AnswerTruthful'
      <3> DEFINE left == {kept'[i] : i \in 1..Len(kept')} \ {"nothing"}
      <3>1. /\ f = "ROLLBACK_FAILED" => left \subseteq {"landed"}
            /\ f # "ROLLBACK_FAILED" => left = {}
        BY <1>2
      <3>2. f # "SUCCESS" /\ f # "PENDING_INTEGRATION"
        BY FailureFacts
      <3> QED BY <2>1, <3>1, <3>2 DEF AnswerTruthful
    <2> QED BY <2>1, <2>2, <2>4, <2>5 DEF RecoveryInv
  <1>4. CASE f \notin HardStopTypes
    <2>1. /\ phase' = "routing" /\ attempt' = attempt + 1 /\ last' = f
          /\ history' = Append(history, f) /\ answer' = answer
      BY <1>4 DEF EndAttempt
    <2>2. f # "ROLLBACK_FAILED"
      BY <1>4 DEF HardStopTypes
    <2>3. RecoveryTypeOK'
      BY <1>1, <1>2, <2>1 DEF RecoveryInv, RecoveryTypeOK
    <2>4. \A i \in 1..Len(kept') : kept'[i] = "nothing"
      BY <1>2, <2>2
    <2>5. GoesOn'
      BY <1>1, <1>4, <2>1, <2>4 DEF GoesOn
    <2> QED BY <2>1, <2>3, <2>4, <2>5 DEF RecoveryInv, OneCommitPerTask, AnswerTruthful
  <1> QED BY <1>3, <1>4

\* An executed attempt ends the loop with a success or a commit to integrate.
LEMMA LoopEndsWith ==
  ASSUME RecoveryInv, NEW o \in TransactionOutcomes, Succeed(o) \/ StopPending(o)
  PROVE  RecoveryInv'
  <1> USE AttemptsAssumption, RetriesAssumption
  <1>1. /\ phase = "executing" /\ phase' = "ended" /\ kept' = Append(kept, o.kept)
        /\ UNCHANGED <<task, tries, model, attempt, history>>
        /\ (last' = last \/ last' = "UNKNOWN")
        /\ o \in Possible
    BY DEF Succeed, StopPending, Execute
  <1>2. /\ GoesOn /\ kept \in Seq({"landed", "parked", "nothing"})
        /\ o.kept \in {"landed", "parked", "nothing"}
    BY <1>1, OutcomeFacts DEF RecoveryInv, RecoveryTypeOK
  <1>3. /\ \A i \in 1..Len(kept') : i # Len(kept') => kept'[i] = "nothing"
        /\ Len(kept') \in 1..Len(kept') /\ kept'[Len(kept')] = o.kept
        /\ kept' \in Seq({"landed", "parked", "nothing"})
    BY <1>1, <1>2 DEF GoesOn
  <1>4. OneCommitPerTask'
    BY <1>3 DEF OneCommitPerTask
  <1> DEFINE left == {kept'[i] : i \in 1..Len(kept')} \ {"nothing"}
  <1>5. left = {o.kept} \ {"nothing"}
    BY <1>3
  <1>6. task.dryRun \in BOOLEAN
    BY DEF RecoveryInv, RecoveryTypeOK
  <1>7. CASE Succeed(o)
    <2>1. answer' = "SUCCESS" /\ o.success
      BY <1>7 DEF Succeed
    <2>2. IF task.dryRun THEN ~o.committed ELSE o # DryRunPassed
      BY <1>1, SameOutcomes DEF Possible
    <2>3. left = IF task.dryRun THEN {} ELSE {"landed"}
      BY <1>5, <2>1, <2>2, OutcomeFacts
    <2> HIDE DEF left
    <2>4. AnswerTruthful'
      BY <1>1, <2>1, <2>3 DEF AnswerTruthful, left
    <2> QED BY <1>1, <1>3, <1>4, <2>1, <2>4, FailureFacts
            DEF RecoveryInv, RecoveryTypeOK, Answers
  <1>8. CASE StopPending(o)
    <2>1. answer' = "PENDING_INTEGRATION" /\ o.committed /\ o.class = "NONE"
      BY <1>8 DEF StopPending
    <2>2. left # {}
      BY <1>5, <2>1, OutcomeFacts
    <2> HIDE DEF left
    <2>3. AnswerTruthful'
      BY <1>1, <2>1, <2>2 DEF AnswerTruthful, left
    <2> QED BY <1>1, <1>3, <1>4, <2>1, <2>3, FailureFacts
            DEF RecoveryInv, RecoveryTypeOK, Answers
  <1> QED BY <1>7, <1>8

LEMMA RecoverySteps == RecoveryInv /\ [Next]_vars => RecoveryInv'
  <1> USE AttemptsAssumption, RetriesAssumption
  <1> SUFFICES ASSUME RecoveryInv, [Next]_vars PROVE RecoveryInv'
    OBVIOUS
  <1>1. CASE BuildContext
    <2>1. GoesOn /\ phase = "routing" /\ attempt < MaxAttempts
      BY <1>1 DEF BuildContext, RecoveryInv
    <2>2. model' \in {"FAST", "REASONING", "NONE"}
      BY <1>1 DEF BuildContext, RouteAttempt, Route
    <2>3. CASE phase' = "posting"
      BY <1>1, <2>1, <2>2, <2>3
      DEF BuildContext, RecoveryInv, RecoveryTypeOK, GoesOn, OneCommitPerTask, AnswerTruthful
    <2>4. CASE phase' = "ended"
      <3>1. answer' = "CONTEXT_BUDGET_EXCEEDED"
        BY <1>1, <2>4 DEF BuildContext
      <3>2. UNCHANGED <<task, attempt, tries, last, history, kept>>
        BY <1>1, <2>4 DEF BuildContext
      <3>3. AnswerTruthful'
        BY <2>1, <3>1, <3>2 DEF GoesOn, AnswerTruthful
      <3> QED BY <2>1, <2>2, <2>4, <3>1, <3>2, <3>3
              DEF RecoveryInv, RecoveryTypeOK, GoesOn, OneCommitPerTask, Answers
    <2> QED BY <1>1, <2>3, <2>4 DEF BuildContext
  <1>2. CASE HardHalt
    <2>1. GoesOn /\ phase' = "ended" /\ answer' = "HARD_HALT"
      BY <1>2 DEF HardHalt, RecoveryInv
    <2>2. UNCHANGED <<task, attempt, tries, model, last, history, kept>>
      BY <1>2 DEF HardHalt
    <2>3. AnswerTruthful'
      BY <2>1, <2>2 DEF GoesOn, AnswerTruthful
    <2> QED BY <2>1, <2>2, <2>3 DEF RecoveryInv, RecoveryTypeOK, OneCommitPerTask, Answers
  <1>3. CASE Proposal
    BY <1>3
    DEF Proposal, RecoveryInv, RecoveryTypeOK, GoesOn, OneCommitPerTask, AnswerTruthful
  <1>4. CASE Escape
    BY <1>4
    DEF Escape, RecoveryInv, RecoveryTypeOK, GoesOn, OneCommitPerTask, AnswerTruthful
  <1>5. ASSUME NEW f \in Failures, PostFails(f) PROVE RecoveryInv'
    <2>1. /\ phase = "posting" /\ f \in TransientHttp /\ tries' = tries + 1
          /\ UNCHANGED <<task, model, kept>>
      BY <1>5 DEF PostFails
    <2>2. CASE tries < MaxRetries
      <3>1. UNCHANGED <<phase, attempt, last, history, answer>>
        BY <1>5, <2>2 DEF PostFails
      <3> QED BY <2>1, <2>2, <3>1
              DEF RecoveryInv, RecoveryTypeOK, GoesOn, OneCommitPerTask, AnswerTruthful
    <2>3. CASE ~(tries < MaxRetries)
      <3>1. EndAttempt(f) /\ f # "ROLLBACK_FAILED"
        BY <1>5, <2>1, <2>3, FailureFacts DEF PostFails
      <3>2. tries' \in 0..(MaxRetries + 1)
        BY <2>1 DEF RecoveryInv, RecoveryTypeOK, GoesOn
      <3> QED BY <2>1, <3>1, <3>2, AttemptEnds
    <2> QED BY <2>2, <2>3
  <1>6. ASSUME NEW f \in Failures, NoProposal(f) PROVE RecoveryInv'
    <2>1. /\ phase = "posting" /\ f \in OtherHttp /\ tries' = tries + 1 /\ EndAttempt(f)
          /\ UNCHANGED <<task, model, kept>>
      BY <1>6 DEF NoProposal
    <2>2. tries' \in 0..(MaxRetries + 1) /\ f # "ROLLBACK_FAILED"
      BY <2>1, FailureFacts DEF RecoveryInv, RecoveryTypeOK, GoesOn
    <2> QED BY <2>1, <2>2, AttemptEnds
  <1>7. ASSUME NEW o \in TransactionOutcomes, Succeed(o) \/ StopPending(o)
        PROVE  RecoveryInv'
    BY <1>7, LoopEndsWith
  <1>8. ASSUME NEW o \in TransactionOutcomes, ExecutionFails(o) PROVE RecoveryInv'
    <2>1. /\ phase = "executing" /\ kept' = Append(kept, o.kept) /\ ~o.success
          /\ UNCHANGED <<task, tries, model>> /\ ~(o.committed /\ o.class = "NONE")
      BY <1>8 DEF ExecutionFails, Execute
    <2>2. PICK f \in ExecutionFailures(o.class) : EndAttempt(f)
      BY <1>8 DEF ExecutionFails
    <2>3. o.class \in {"RETRYABLE", "HARD_STOP", "ROLLBACK_FAILED"}
      BY <2>1, OutcomeFacts
    <2>4. f \in Failures
      BY <2>3, FailureFacts
    <2>5. o.kept = "nothing" \/ (o.kept = "landed" /\ f = "ROLLBACK_FAILED")
      BY <2>1, <2>2, OutcomeFacts, FailureFacts
    <2>6. tries' \in 0..(MaxRetries + 1)
      BY <2>1 DEF RecoveryInv, RecoveryTypeOK
    <2> QED BY <2>1, <2>2, <2>4, <2>5, <2>6, AttemptEnds
  <1>9. CASE UNCHANGED vars
    <2>1. /\ task' = task /\ phase' = phase /\ attempt' = attempt /\ tries' = tries
          /\ model' = model /\ last' = last /\ history' = history /\ kept' = kept
          /\ answer' = answer
      BY <1>9 DEF vars
    <2>2. RecoveryTypeOK' /\ OneCommitPerTask'
      BY <2>1 DEF RecoveryInv, RecoveryTypeOK, OneCommitPerTask
    <2>3. AnswerTruthful'
      <3> DEFINE Left(k) == {k[i] : i \in 1..Len(k)} \ {"nothing"}
      <3>1. Left(kept') = Left(kept)
        BY <2>1
      <3> QED BY <2>1, <3>1 DEF RecoveryInv, AnswerTruthful
    <2>4. phase' \in {"routing", "posting", "executing"} => GoesOn'
      BY <2>1 DEF RecoveryInv, GoesOn
    <2> QED BY <2>1, <2>2, <2>3, <2>4 DEF RecoveryInv
  <1> QED BY <1>1, <1>2, <1>3, <1>4, <1>5, <1>6, <1>7, <1>8, <1>9, SameOutcomes
          DEF Next, Step, Ended

LEMMA RecoveryHolds == Spec => []RecoveryInv
  BY RecoveryStarts, RecoverySteps, PTL DEF Spec

\* A failure ends the loop or begins a new attempt.
LEMMA EndAdvances ==
  ASSUME RecoveryTypeOK, NEW f, EndAttempt(f), phase \in {"posting", "executing"}
  PROVE  Advance
  <1>1. attempt \in Nat
    BY AttemptsAssumption DEF RecoveryTypeOK
  <1> QED BY <1>1 DEF EndAttempt, Advance, Part

\* Every step of the loop gets on, whatever the model, the provider and the transactions
\* answer; with RecoveryTypeCorrect, which bounds attempts and requests, it cannot run for
\* ever, for any limits.
THEOREM RecoveryGetsOn == Spec => LoopAdvances
  <1>1. RecoveryInv /\ [Next]_vars => [Advance]_vars
    <2> SUFFICES ASSUME RecoveryInv, Next PROVE Advance \/ UNCHANGED vars
      OBVIOUS
    <2>0. RecoveryTypeOK /\ attempt \in Nat /\ tries \in Nat
      BY AttemptsAssumption, RetriesAssumption DEF RecoveryInv, RecoveryTypeOK
    <2>1. CASE BuildContext \/ HardHalt \/ Proposal \/ Escape
      BY <2>0, <2>1 DEF BuildContext, HardHalt, Proposal, Escape, Advance, Part
    <2>2. ASSUME NEW f \in Failures, PostFails(f) PROVE Advance
      <3>1. CASE tries < MaxRetries
        BY <2>0, <2>2, <3>1 DEF PostFails, Advance, Part
      <3>2. CASE ~(tries < MaxRetries)
        BY <2>0, <2>2, <3>2, EndAdvances DEF PostFails
      <3> QED BY <3>1, <3>2
    <2>3. ASSUME NEW f \in Failures, NoProposal(f) PROVE Advance
      BY <2>0, <2>3, EndAdvances DEF NoProposal
    <2>4. ASSUME NEW o \in X!TransactionOutcomes, Succeed(o) \/ StopPending(o) PROVE Advance
      BY <2>0, <2>4 DEF Succeed, StopPending, Execute, Advance, Part
    <2>5. ASSUME NEW o \in X!TransactionOutcomes, ExecutionFails(o) PROVE Advance
      BY <2>0, <2>5, EndAdvances DEF ExecutionFails, Execute
    <2> QED BY <2>1, <2>2, <2>3, <2>4, <2>5 DEF Next, Step, Ended
  <1> QED BY <1>1, RecoveryHolds, PTL DEF Spec, LoopAdvances

\* The loop keeps within its attempts and requests: every state is well typed.
THEOREM RecoveryTypeCorrect == Spec => []RecoveryTypeOK
  <1>1. RecoveryInv => RecoveryTypeOK
    BY DEF RecoveryInv
  <1> QED BY <1>1, RecoveryHolds, PTL

\* "stopping retries to avoid duplicate commits": after an attempt that left a commit
\* there is no other.
THEOREM NoDuplicateCommit == Spec => []OneCommitPerTask
  <1>1. RecoveryInv => OneCommitPerTask
    BY DEF RecoveryInv
  <1> QED BY <1>1, RecoveryHolds, PTL

\* The answer of run_recovery_loop tells what the attempts left behind.
THEOREM AnswersAreTrue == Spec => []AnswerTruthful
  <1>1. RecoveryInv => AnswerTruthful
    BY DEF RecoveryInv
  <1> QED BY <1>1, RecoveryHolds, PTL

\* The history has each failed attempt, and no failure that is never retried.
THEOREM HistoryKept == Spec => []HistoryComplete
  <1>1. RecoveryInv => HistoryComplete
    BY DEF RecoveryInv, GoesOn, HistoryComplete
  <1> QED BY <1>1, RecoveryHolds, PTL

-----------------------------------------------------------------------------
\* The task queue of the cloud workers.

\* What a worker may be doing, and what it carries to the server.
Doings == {Polling} \cup [step : {"claimed"}, item : Items]
          \cup [step : {"ran"}, item : Items, status : {"COMPLETED", "FAILED"}]

QueueTypes ==
  /\ crew \in SUBSET Workers /\ reliable \in BOOLEAN
  /\ status \in [Items -> Statuses] /\ runs \in [Items -> Nat]
  /\ late \subseteq [item : Items, status : Statuses]
  /\ batch \in [Workers -> SUBSET Items] /\ at \in [Workers -> Doings]

\* Only started workers have tasks; and whoever reports a task as completed, now or
\* by an update that is still under way, has landed it.
ReportsMeant ==
  /\ \A w \in Workers \ crew : at[w] = Polling /\ batch[w] = {}
  /\ \A i \in Items : status[i] = "COMPLETED" => i \in onMain
  /\ \A u \in late : u.status # "PENDING" /\ (u.status = "COMPLETED" => u.item \in onMain)
  /\ \A w \in Workers : at[w].step = "ran" /\ at[w].status = "COMPLETED" => at[w].item \in onMain

\* Where updates arrive, nothing is under way, a task in hand is no more PENDING, one
\* that is still PENDING was never run, and a RUNNING one is in hand or was dropped.
StatusFollows ==
  reliable =>
    /\ late = {}
    /\ \A w \in Workers : Busy(w) => status[at[w].item] # "PENDING"
    /\ \A i \in Items : status[i] = "PENDING" => runs[i] = 0
    /\ \A i \in Items : status[i] = "RUNNING" =>
          i \in abandoned \/ \E w \in crew : Busy(w) /\ at[w].item = i

\* A worker that is alone with the server has not run what it is about to run.
AloneRunsOnce ==
  reliable =>
    \A w \in Workers : crew = {w} =>
      /\ \A i \in Items : runs[i] <= 1
      /\ \A i \in batch[w] : runs[i] = 0 /\ (Busy(w) => i # at[w].item)
      /\ at[w].step = "claimed" => runs[at[w].item] = 0

QueueInv == QueueTypes /\ ReportsMeant /\ StatusFollows /\ AloneRunsOnce

LEMMA QueueStarts == QueueInit => QueueInv
  <1> SUFFICES ASSUME QueueInit PROVE QueueInv
    OBVIOUS
  <1>1. crew \in SUBSET Workers /\ reliable \in BOOLEAN
    BY QueueAssumption DEF QueueInit
  <1>2. QueueTypes
    BY <1>1 DEF QueueInit, QueueTypes, Doings, Statuses
  <1>3. ReportsMeant /\ StatusFollows /\ AloneRunsOnce
    BY <1>1 DEF QueueInit, ReportsMeant, StatusFollows, AloneRunsOnce, Polling, Busy
  <1> QED BY <1>2, <1>3 DEF QueueInv

\* What is in hand.
LEMMA DoingFacts ==
  \A d \in Doings :
     /\ d.step \in {"polling", "claimed", "ran"}
     /\ d.step = "polling" => d = Polling
     /\ d.step # "polling" => d.item \in Items
     /\ d.step = "ran" => d.status \in {"COMPLETED", "FAILED"}
  BY DEF Doings, Polling

\* An update changes the status of its task to what is sent, or nothing, or, where
\* updates may be lost, leaves what is sent under way.
LEMMA UpdateFacts ==
  ASSUME NEW i \in Items, NEW s \in Statuses, QueueTypes, Update(i, s)
  PROVE  /\ status' \in [Items -> Statuses]
         /\ late' \subseteq [item : Items, status : Statuses]
         /\ \A j \in Items \ {i} : status'[j] = status[j]
         /\ status'[i] \in {status[i], s}
         /\ reliable => status'[i] = s /\ late' = late
         /\ \A u \in late' : u \in late \/ u = [item |-> i, status |-> s]
  BY DEF Update, QueueTypes

LEMMA QueueSteps == QueueInv /\ [QueueNext]_cqVars => QueueInv'
  <1> SUFFICES ASSUME QueueInv, [QueueNext]_cqVars PROVE QueueInv'
    OBVIOUS
  <1>t. QueueTypes /\ ReportsMeant /\ StatusFollows /\ AloneRunsOnce
    BY DEF QueueInv
  <1>s. {"RUNNING", "FAILED", "COMPLETED"} \subseteq Statuses /\ Polling \in Doings
    BY DEF Statuses, Doings
  <1>p. Polling.step = "polling"
    BY DEF Polling
  <1>w. \A w \in Workers :
           /\ at[w] \in Doings /\ at[w].step \in {"polling", "claimed", "ran"}
           /\ at[w].step = "polling" => at[w] = Polling
           /\ Busy(w) => at[w].item \in Items /\ w \in crew
           /\ at[w].step = "ran" => at[w].status \in {"COMPLETED", "FAILED"}
    BY <1>t, <1>p, DoingFacts DEF QueueTypes, ReportsMeant, Busy
  <1>1. ASSUME NEW w \in Workers, Fetch(w) PROVE QueueInv'
    <2>1. /\ w \in crew /\ ~Busy(w)
          /\ batch' = [batch EXCEPT ![w] = {i \in Items : status[i] = "PENDING"}]
          /\ UNCHANGED <<crew, reliable, status, late, at, runs, onMain, abandoned, crashes>>
      BY <1>1 DEF Fetch
    <2>2. QueueTypes'
      BY <1>t, <2>1 DEF QueueTypes
    <2>3. ReportsMeant' /\ StatusFollows'
      BY <1>t, <2>1 DEF ReportsMeant, StatusFollows, Busy, QueueTypes
    <2>4. AloneRunsOnce'
      BY <1>t, <2>1 DEF AloneRunsOnce, StatusFollows, Busy, QueueTypes
    <2> QED BY <2>2, <2>3, <2>4 DEF QueueInv
  <1>2. ASSUME NEW w \in Workers, NEW i \in Items, Claim(w, i) PROVE QueueInv'
    <2>1. /\ ~Busy(w) /\ i \in batch[w]
          /\ batch' = [batch EXCEPT ![w] = @ \ {i}]
          /\ at' = [at EXCEPT ![w] = [step |-> "claimed", item |-> i]]
          /\ Update(i, "RUNNING")
          /\ UNCHANGED <<crew, reliable, runs, onMain, abandoned, crashes>>
      BY <1>2 DEF Claim
    <2>2. [step |-> "claimed", item |-> i] \in Doings /\ w \in crew
      BY <1>t, <2>1 DEF Doings, ReportsMeant
    <2>3. /\ status' \in [Items -> Statuses]
          /\ late' \subseteq [item : Items, status : Statuses]
          /\ \A j \in Items \ {i} : status'[j] = status[j]
          /\ status'[i] \in {status[i], "RUNNING"}
          /\ reliable => status'[i] = "RUNNING" /\ late' = late
          /\ \A u \in late' : u \in late \/ u = [item |-> i, status |-> "RUNNING"]
      BY <1>t, <1>s, <2>1, UpdateFacts
    <2>4. QueueTypes'
      BY <1>t, <2>1, <2>2, <2>3 DEF QueueTypes
    <2>5. ReportsMeant'
      BY <1>t, <2>1, <2>2, <2>3 DEF ReportsMeant, QueueTypes
    <2>6. StatusFollows'
      BY <1>t, <1>w, <2>1, <2>2, <2>3 DEF StatusFollows, QueueTypes, Busy
    <2>7. AloneRunsOnce'
      BY <1>t, <1>w, <2>1, <2>2, <2>3 DEF AloneRunsOnce, QueueTypes, Busy
    <2> QED BY <2>4, <2>5, <2>6, <2>7 DEF QueueInv
  <1>3. ASSUME NEW w \in Workers, RepoMissing(w) \/ SendResult(w) PROVE QueueInv'
    <2> DEFINE i == at[w].item
    <2>1. PICK s \in {"COMPLETED", "FAILED"} :
             /\ Update(i, s)
             /\ s = "COMPLETED" => at[w].step = "ran" /\ at[w].status = "COMPLETED"
      BY <1>3, <1>w DEF RepoMissing, SendResult
    <2>2. /\ Busy(w) /\ i \in Items /\ w \in crew /\ at' = [at EXCEPT ![w] = Polling]
          /\ UNCHANGED <<crew, reliable, batch, runs, onMain, abandoned, crashes>>
      BY <1>3, <1>w DEF RepoMissing, SendResult, Busy
    <2>3. s = "COMPLETED" => i \in onMain
      BY <1>t, <2>1 DEF ReportsMeant
    <2> HIDE DEF i
    <2>4. /\ status' \in [Items -> Statuses]
          /\ late' \subseteq [item : Items, status : Statuses]
          /\ \A j \in Items \ {i} : status'[j] = status[j]
          /\ status'[i] \in {status[i], s}
          /\ reliable => status'[i] = s /\ late' = late
          /\ \A u \in late' : u \in late \/ u = [item |-> i, status |-> s]
      BY <1>t, <1>s, <2>1, <2>2, UpdateFacts
    <2>5. QueueTypes'
      BY <1>t, <1>s, <2>2, <2>4 DEF QueueTypes
    <2>6. ReportsMeant'
      BY <1>t, <1>p, <2>2, <2>3, <2>4 DEF ReportsMeant, QueueTypes
    <2>7. StatusFollows'
      BY <1>t, <1>w, <1>p, <2>2, <2>4 DEF StatusFollows, QueueTypes, Busy, i
    <2>8. AloneRunsOnce'
      BY <1>t, <1>w, <1>p, <2>2, <2>4 DEF AloneRunsOnce, QueueTypes, Busy
    <2> QED BY <2>5, <2>6, <2>7, <2>8 DEF QueueInv
  <1>4. ASSUME NEW w \in Workers, NEW o \in TransactionOutcomes, RunTask(w, o)
        PROVE  QueueInv'
    <2> DEFINE i == at[w].item
    <2>1. /\ at[w].step = "claimed" /\ i \in Items /\ w \in crew
          /\ runs' = [runs EXCEPT ![i] = @ + 1]
          /\ onMain' = IF o.kept = "landed" THEN onMain \cup {i} ELSE onMain
          /\ at' = [at EXCEPT ![w] = [step |-> "ran", item |-> i, status |-> StatusOf(o)]]
          /\ UNCHANGED <<crew, reliable, status, late, batch, abandoned, crashes>>
      BY <1>4, <1>w DEF RunTask, Busy
    <2>2. StatusOf(o) \in {"COMPLETED", "FAILED"} /\ (StatusOf(o) = "COMPLETED" => i \in onMain')
      BY <1>4, <2>1, OutcomeFacts DEF StatusOf, RunTask
    <2> DEFINE d == [step |-> "ran", item |-> i, status |-> StatusOf(o)]
    <2>3. d \in Doings /\ d.step = "ran" /\ d.item = i /\ d.status = StatusOf(o)
      BY <2>1, <2>2 DEF Doings
    <2>4. at' = [at EXCEPT ![w] = d]
      BY <2>1
    <2> HIDE DEF d, i
    <2>5. QueueTypes'
      BY <1>t, <2>1, <2>3, <2>4 DEF QueueTypes
    <2>6. ReportsMeant'
      BY <1>t, <1>w, <2>1, <2>2, <2>3, <2>4 DEF ReportsMeant, QueueTypes
    <2>7. StatusFollows'
      BY <1>t, <1>w, <2>1, <2>3, <2>4 DEF StatusFollows, QueueTypes, Busy, i
    <2>8. AloneRunsOnce'
      BY <1>t, <1>w, <2>1, <2>3, <2>4 DEF AloneRunsOnce, QueueTypes, Busy, i
    <2> QED BY <2>5, <2>6, <2>7, <2>8 DEF QueueInv
  <1>5. ASSUME NEW w \in Workers, RunRaises(w) \/ WorkerCrashes(w) PROVE QueueInv'
    <2> DEFINE i == at[w].item
    <2>1. /\ at' = [at EXCEPT ![w] = Polling] /\ batch' = [batch EXCEPT ![w] = {}]
          /\ abandoned' = IF Busy(w) THEN abandoned \cup {i} ELSE abandoned
          /\ UNCHANGED <<crew, reliable, status, late>>
          /\ onMain \subseteq onMain'
          /\ w \in crew
      BY <1>5, <1>w DEF RunRaises, WorkerCrashes, Busy
    <2>2. \/ runs' = runs
          \/ /\ at[w].step = "claimed" /\ i \in Items
             /\ runs' = [runs EXCEPT ![i] = @ + 1]
      BY <1>5, <1>w DEF RunRaises, WorkerCrashes, Busy
    <2> HIDE DEF i
    <2>3. QueueTypes'
      BY <1>t, <1>s, <2>1, <2>2 DEF QueueTypes
    <2>4. ReportsMeant'
      BY <1>t, <1>p, <2>1 DEF ReportsMeant, QueueTypes
    <2>5. StatusFollows'
      BY <1>t, <1>w, <1>p, <2>1, <2>2 DEF StatusFollows, QueueTypes, Busy, i
    <2>6. AloneRunsOnce'
      BY <1>t, <1>w, <1>p, <2>1, <2>2 DEF AloneRunsOnce, QueueTypes, Busy, i
    <2> QED BY <2>3, <2>4, <2>5, <2>6 DEF QueueInv
  <1>6. ASSUME NEW u \in late, UpdateArrives(u) PROVE QueueInv'
    <2>1. /\ status' = [status EXCEPT ![u.item] = u.status] /\ late' = late \ {u}
          /\ UNCHANGED <<crew, reliable, batch, at, runs, onMain, abandoned, crashes>>
      BY <1>6 DEF UpdateArrives
    <2>2. u.item \in Items /\ u.status \in Statuses /\ ~reliable
      BY <1>t DEF QueueTypes, StatusFollows
    <2>3. QueueTypes'
      BY <1>t, <2>1, <2>2 DEF QueueTypes
    <2>4. ReportsMeant'
      BY <1>t, <2>1, <2>2 DEF ReportsMeant, QueueTypes
    <2> QED BY <2>1, <2>2, <2>3, <2>4 DEF QueueInv, StatusFollows, AloneRunsOnce
  <1>7. CASE UNCHANGED cqVars
    <2>1. /\ crew' = crew /\ reliable' = reliable /\ status' = status /\ late' = late
          /\ batch' = batch /\ at' = at /\ runs' = runs /\ onMain' = onMain
          /\ abandoned' = abandoned
      BY <1>7 DEF cqVars
    <2>2. QueueTypes' /\ ReportsMeant'
      BY <1>t, <2>1 DEF QueueTypes, ReportsMeant
    <2>3. StatusFollows' /\ AloneRunsOnce'
      BY <1>t, <2>1 DEF StatusFollows, AloneRunsOnce, Busy
    <2> QED BY <2>2, <2>3 DEF QueueInv
  <1> QED BY <1>1, <1>2, <1>3, <1>4, <1>5, <1>6, <1>7 DEF QueueNext, Work

\* The server's word on a task is true, for any number of workers and tasks.
THEOREM QueueIsTruthful == QueueSpec => []QueueTruthful
  <1>1. QueueInv => QueueTruthful
    <2> SUFFICES ASSUME QueueInv, NEW i \in Items PROVE
          /\ status[i] = "COMPLETED" => i \in onMain
          /\ reliable /\ status[i] = "PENDING" => runs[i] = 0
          /\ reliable /\ status[i] = "RUNNING" =>
               i \in abandoned \/ \E w \in crew : Busy(w) /\ at[w].item = i
          /\ reliable /\ Cardinality(crew) = 1 => runs[i] <= 1
      BY DEF QueueTruthful
    <2>1. ASSUME Cardinality(crew) = 1 PROVE \E w \in Workers : crew = {w}
      <3>1. crew \subseteq Workers /\ IsFiniteSet(crew)
        BY QueueAssumption, FS_Subset DEF QueueInv, QueueTypes
      <3> QED BY <2>1, <3>1, FS_Singleton
    <2> QED BY <2>1 DEF QueueInv, ReportsMeant, StatusFollows, AloneRunsOnce
  <1>2. QueueInv /\ [QueueNext]_cqVars => QueueInv'
    BY QueueSteps
  <1> QED BY <1>1, <1>2, QueueStarts, PTL DEF QueueSpec

-----------------------------------------------------------------------------
\* The coordinator.

\* The fates of the tasks behind us, and of the current one once it was executed.
FatesKept ==
  /\ turn \in Nat \ {0} /\ dryRun \in BOOLEAN /\ overall \in BOOLEAN
  /\ fates \in Seq(TransactionOutcomes)
  /\ Len(fates) = turn - 1 \/ Len(fates) = turn
  /\ stage \in {"planning", "checking", "counting", "executing", "reported"} =>
        Len(fates) = turn - 1
  /\ stage \in {"reviewing", "recording"} =>
        Len(fates) = turn /\ result = fates[turn]
  /\ stage = "planning" => turn = 1

\* overall_success is the success of all of them, each of which was reviewed and
\* landed, but for the one that is on its way to the reviewer.
SuccessKept ==
  /\ overall <=> \A k \in 1..Len(fates) : fates[k].success
  /\ \A k \in Behind : fates[k].success => k \in reviewed
  /\ stage = "recording" /\ result.success => turn \in reviewed
  /\ \A k \in 1..Len(fates) : fates[k].success /\ ~dryRun => fates[k].kept = "landed"

\* The last of the tasks the manifest knows of with that id has the entry.
LastOf(k, i) ==
  /\ plan[k].id = i /\ manifest[i] = Entry(fates[k])
  /\ \A j \in Known : plan[j].id = i => j <= k

\* Each entry of the manifest is that of the last task with its id, or older.
EntriesKept ==
  /\ since \in 1..turn
  /\ DOMAIN manifest = DOMAIN earlier \cup {plan[k].id : k \in Known}
  /\ \A i \in DOMAIN manifest :
        \/ \E k \in Known : LastOf(k, i)
        \/ manifest[i] = earlier[i] /\ \A k \in Known : plan[k].id # i

CoordinatorInv == FatesKept /\ SuccessKept /\ EntriesKept /\ MainRestored

LEMMA CoordinatorStarts == CoordinatorInit => CoordinatorInv
  <1> SUFFICES ASSUME CoordinatorInit PROVE CoordinatorInv
    OBVIOUS
  <1>1. FatesKept /\ SuccessKept /\ MainRestored
    BY DEF CoordinatorInit, FatesKept, SuccessKept, MainRestored, Behind
  <1>2. EntriesKept
    BY DEF CoordinatorInit, EntriesKept, Known
  <1> QED BY <1>1, <1>2 DEF CoordinatorInv

\* What moves on within a task keeps what is known of the tasks behind us.
LEMMA MovesOn ==
  ASSUME CoordinatorInv,
         UNCHANGED <<dryRun, turn, fates, result, reviewed, overall>>,
         \/ stage' \in Over
         \/ /\ stage \in {"planning", "checking", "counting", "executing"}
            /\ stage' \in {"checking", "counting", "executing"},
         stage' = "reported" => stage = "checking",
         stage' # stage
  PROVE  FatesKept' /\ SuccessKept'
  <1>1. FatesKept'
    BY DEF CoordinatorInv, FatesKept, Over
  <1>2. SuccessKept'
    BY DEF CoordinatorInv, FatesKept, SuccessKept, Behind, Over
  <1> QED BY <1>1, <1>2

LEMMA CoordinatorSteps == CoordinatorInv /\ [CoordinatorNext]_coVars => CoordinatorInv'
  <1> SUFFICES ASSUME CoordinatorInv, [CoordinatorNext]_coVars PROVE CoordinatorInv'
    OBVIOUS
  <1>t. FatesKept /\ SuccessKept /\ EntriesKept /\ MainRestored
    BY DEF CoordinatorInv
  <1>1. CASE Raises \/ SkipSmokeCheck \/ RefuseStray \/ Report
    <2>1. /\ UNCHANGED <<dryRun, rounds, plan, turn, result, fates, reviewed, manifestVars,
                         overall, strays, excused>>
          /\ stage # "counting"
          /\ \/ stage' \in Over
             \/ stage = "checking" /\ stage' = "executing"
          /\ stage' = "reported" => stage = "checking"
          /\ stage' # stage
      BY <1>1 DEF Raises, SkipSmokeCheck, RefuseStray, Report, NextStage, Over
    <2>2. FatesKept' /\ SuccessKept'
      BY <2>1, MovesOn
    <2>3. EntriesKept'
      BY <1>t, <2>1 DEF EntriesKept, LastOf, Known, manifestVars
    <2>4. MainRestored'
      BY <1>t, <2>1 DEF MainRestored
    <2> QED BY <2>2, <2>3, <2>4 DEF CoordinatorInv
  <1>2. ASSUME NEW p \in Plans, Plan(p) PROVE CoordinatorInv'
    <2>1. /\ stage = "planning" /\ turn = 1 /\ turn' = turn /\ stage' = "checking"
          /\ UNCHANGED <<dryRun, result, fates, reviewed, since, overall, strays, excused>>
          /\ \/ manifest' = <<>> /\ earlier' = <<>>
             \/ UNCHANGED <<manifest, earlier>>
      BY <1>2, <1>t DEF Plan, ManifestInit, FatesKept
    <2>2. FatesKept' /\ SuccessKept'
      BY <2>1, MovesOn
    <2>3. since' = 1 /\ since' \in 1..turn' /\ Known = {} /\ Known' = {}
      BY <1>t, <2>1 DEF EntriesKept, Known
    <2>4. EntriesKept'
      BY <1>t, <2>1, <2>3 DEF EntriesKept
    <2>5. MainRestored'
      BY <1>t, <2>1 DEF MainRestored
    <2> QED BY <2>2, <2>4, <2>5 DEF CoordinatorInv
  <1>3. CASE HideRedTest \/ HideRedTestFails \/ Crash \/ \E found \in BOOLEAN : Count(found)
    <2>1. /\ UNCHANGED <<dryRun, rounds, plan, turn, result, fates, reviewed, manifestVars,
                         overall>>
          /\ \/ stage' \in {"aborted", "crashed"}
             \/ stage \in {"checking", "counting"} /\ stage' \in {"counting", "executing"}
          /\ stage' # stage
      BY <1>3 DEF HideRedTest, HideRedTestFails, Crash, Count, Over
    <2>2. FatesKept' /\ SuccessKept'
      BY <2>1, MovesOn DEF Over
    <2>3. EntriesKept'
      BY <1>t, <2>1 DEF EntriesKept, LastOf, Known, manifestVars
    <2>4. ASSUME HideRedTestFails PROVE MainRestored'
      BY <1>t, <2>1, <2>4 DEF HideRedTestFails, MainRestored, Current
    <2>5. ASSUME HideRedTest PROVE MainRestored'
      BY <1>t, <2>1, <2>5 DEF HideRedTest, MainRestored, Current
    <2>6. ASSUME Crash PROVE MainRestored'
      BY <1>t, <2>1, <2>6 DEF Crash, MainRestored, Current
    <2>7. ASSUME \E found \in BOOLEAN : Count(found) PROVE MainRestored'
      BY <1>t, <2>1, <2>7 DEF Count, MainRestored, Current
    <2> QED BY <1>3, <2>2, <2>3, <2>4, <2>5, <2>6, <2>7 DEF CoordinatorInv
  <1>4. ASSUME NEW o \in TransactionOutcomes, ExecuteTask(o) PROVE CoordinatorInv'
    <2>1. /\ stage = "executing" /\ MayReturn(o) /\ result' = o
          /\ fates' = Append(fates, o) /\ overall' = (overall /\ o.success)
          /\ stage' = IF o.success THEN "reviewing" ELSE "recording"
          /\ UNCHANGED <<dryRun, rounds, plan, turn, reviewed, manifestVars, strays, excused>>
      BY <1>4 DEF ExecuteTask
    <2>2. /\ Len(fates) = turn - 1 /\ turn \in Nat \ {0} /\ fates \in Seq(TransactionOutcomes)
          /\ dryRun \in BOOLEAN /\ overall \in BOOLEAN
      BY <1>t, <2>1 DEF FatesKept
    <2>3. /\ fates' \in Seq(TransactionOutcomes) /\ Len(fates') = turn /\ fates'[turn] = o
          /\ \A k \in 1..(turn - 1) : fates'[k] = fates[k]
      BY <2>1, <2>2
    <2>4. o.success /\ ~dryRun => o.kept = "landed"
      BY <2>1, OutcomeFacts DEF MayReturn
    <2>5. o.success \in BOOLEAN
      BY OutcomeFacts
    <2>6. FatesKept'
      BY <2>1, <2>2, <2>3, <2>5 DEF FatesKept
    <2>7. overall' <=> \A k \in 1..Len(fates') : fates'[k].success
      BY <1>t, <2>1, <2>2, <2>3, <2>5 DEF SuccessKept
    <2>8. SuccessKept'
      BY <1>t, <2>1, <2>2, <2>3, <2>4, <2>7 DEF SuccessKept, Behind
    <2>9. EntriesKept'
      <3>1. since \in 1..turn /\ Known' = Known /\ \A k \in Known : fates'[k] = fates[k]
        BY <1>t, <2>1, <2>2, <2>3 DEF EntriesKept, Known, manifestVars
      <3>2. UNCHANGED <<manifest, since, earlier, plan, turn>>
        BY <2>1 DEF manifestVars
      <3>3. \A k \in Known, i \in DOMAIN manifest : LastOf(k, i) => LastOf(k, i)'
        BY <3>1, <3>2 DEF LastOf
      <3> QED BY <1>t, <3>1, <3>2, <3>3 DEF EntriesKept
    <2>10. MainRestored'
      BY <1>t, <2>1 DEF MainRestored
    <2> QED BY <2>6, <2>8, <2>9, <2>10 DEF CoordinatorInv
  <1>5. CASE Review
    <2>1. /\ stage = "reviewing" /\ stage' = "recording" /\ reviewed' = reviewed \cup {turn}
          /\ UNCHANGED <<dryRun, rounds, plan, turn, result, fates, manifestVars, overall,
                         strays, excused>>
      BY <1>5 DEF Review
    <2>2. FatesKept' /\ SuccessKept'
      BY <1>t, <2>1 DEF FatesKept, SuccessKept, Behind
    <2>3. EntriesKept' /\ MainRestored'
      BY <1>t, <2>1 DEF EntriesKept, LastOf, MainRestored, Known, manifestVars
    <2> QED BY <2>2, <2>3 DEF CoordinatorInv
  <1>6. CASE Record
    <2>1. /\ stage = "recording" /\ stage' = "checking" /\ turn' = turn + 1
          /\ \/ manifest' = EntriesWith(manifest) /\ UNCHANGED <<since, earlier>>
             \/ manifest' = EntriesWith(<<>>) /\ since' = turn /\ earlier' = <<>>
          /\ UNCHANGED <<dryRun, rounds, plan, result, fates, reviewed, overall, strays, excused>>
      BY <1>6 DEF Record
    <2>2. turn \in Nat \ {0} /\ Len(fates) = turn /\ result = fates[turn]
      BY <1>t, <2>1 DEF FatesKept
    <2>3. Behind' = Behind \cup {turn} /\ \A j \in Behind : j < turn
      BY <2>1, <2>2 DEF Behind
    <2>4. FatesKept'
      BY <1>t, <2>1, <2>2 DEF FatesKept
    <2>5. SuccessKept'
      BY <1>t, <2>1, <2>2, <2>3 DEF SuccessKept
    <2>6. ASSUME manifest' = EntriesWith(manifest), UNCHANGED <<since, earlier>>
          PROVE  EntriesKept'
      <3>1. since \in 1..turn /\ turn' = turn + 1 /\ plan' = plan /\ fates' = fates
        BY <1>t, <2>1 DEF EntriesKept
      <3>2. Known' = Known \cup {turn} /\ \A j \in Known : j \in Nat /\ j < turn
        BY <2>2, <2>6, <3>1 DEF Known
      <3>3. /\ DOMAIN manifest' = DOMAIN manifest \cup {plan[turn].id}
            /\ manifest'[plan[turn].id] = Entry(result)
            /\ \A i \in DOMAIN manifest : i # plan[turn].id => manifest'[i] = manifest[i]
        BY <2>6 DEF EntriesWith, Current
      <3>4. DOMAIN manifest' = DOMAIN earlier' \cup {plan'[k].id : k \in Known'}
        BY <1>t, <2>6, <3>1, <3>2, <3>3 DEF EntriesKept
      <3>5. \A k, i : k = turn /\ i = plan[turn].id => LastOf(k, i)'
        BY <2>2, <3>1, <3>2, <3>3 DEF LastOf
      <3>6. ASSUME NEW i \in DOMAIN manifest, i # plan[turn].id
            PROVE  \/ \E k \in Known' : LastOf(k, i)'
                   \/ manifest'[i] = earlier'[i] /\ \A k \in Known' : plan'[k].id # i
        <4>1. \A k \in Known : LastOf(k, i) => LastOf(k, i)'
          BY <3>1, <3>2, <3>3, <3>6 DEF LastOf
        <4> QED BY <1>t, <2>6, <3>1, <3>2, <3>3, <3>6, <4>1 DEF EntriesKept
      <3>7. since' \in 1..turn'
        BY <2>2, <2>6, <3>1
      <3>8. \A i \in DOMAIN manifest' :
               \/ \E k \in Known' : LastOf(k, i)'
               \/ manifest'[i] = earlier'[i] /\ \A k \in Known' : plan'[k].id # i
        BY <3>2, <3>3, <3>5, <3>6
      <3> QED BY <3>4, <3>7, <3>8 DEF EntriesKept
    <2>7. ASSUME manifest' = EntriesWith(<<>>), since' = turn, earlier' = <<>>
          PROVE  EntriesKept'
      <3>1. turn' = turn + 1 /\ plan' = plan /\ fates' = fates
        BY <2>1
      <3>2. Known' = {turn} /\ since' \in 1..turn'
        BY <2>2, <2>7, <3>1 DEF Known
      <3>a. DOMAIN <<>> = {}
        OBVIOUS
      <3>3. DOMAIN manifest' = {plan[turn].id} /\ manifest'[plan[turn].id] = Entry(result)
        BY <2>7, <3>a DEF EntriesWith, Current
      <3>4. DOMAIN manifest' = DOMAIN earlier' \cup {plan'[k].id : k \in Known'}
        BY <2>7, <3>a, <3>1, <3>2, <3>3
      <3>5. \A k, i : k = turn /\ i = plan[turn].id => LastOf(k, i)'
        BY <2>2, <3>1, <3>2, <3>3 DEF LastOf
      <3> QED BY <3>2, <3>3, <3>4, <3>5 DEF EntriesKept
    <2>8. EntriesKept'
      BY <2>1, <2>6, <2>7
    <2>9. MainRestored'
      BY <1>t, <2>1 DEF MainRestored
    <2> QED BY <2>4, <2>5, <2>8, <2>9 DEF CoordinatorInv
  <1>7. CASE StartAgain
    <2>1. /\ stage \in Over /\ stage' = "planning" /\ turn' = 1 /\ fates' = <<>>
          /\ reviewed' = {} /\ overall' = TRUE /\ since' = 1 /\ earlier' = manifest
          /\ UNCHANGED <<dryRun, manifest, strays, excused>>
      BY <1>7 DEF StartAgain
    <2>2. FatesKept' /\ SuccessKept'
      BY <1>t, <2>1 DEF FatesKept, SuccessKept, Behind
    <2>3. EntriesKept'
      <3>1. Known' = {} /\ since' \in 1..turn'
        BY <2>1 DEF Known
      <3> QED BY <2>1, <3>1 DEF EntriesKept
    <2>4. MainRestored'
      BY <1>t, <2>1 DEF MainRestored, Over
    <2> QED BY <2>2, <2>3, <2>4 DEF CoordinatorInv
  <1>8. CASE UNCHANGED coVars
    <2>1. /\ dryRun' = dryRun /\ plan' = plan /\ turn' = turn /\ stage' = stage
          /\ result' = result /\ fates' = fates /\ reviewed' = reviewed
          /\ UNCHANGED <<manifest, since, earlier>> /\ overall' = overall /\ strays' = strays
          /\ excused' = excused
      BY <1>8 DEF coVars, manifestVars
    <2>2. FatesKept' /\ SuccessKept'
      BY <1>t, <2>1 DEF FatesKept, SuccessKept, Behind
    <2>3. EntriesKept' /\ MainRestored'
      BY <1>t, <2>1 DEF EntriesKept, LastOf, MainRestored, Known, Current
    <2> QED BY <2>2, <2>3 DEF CoordinatorInv
  <1> QED BY <1>1, <1>2, <1>3, <1>4, <1>5, <1>6, <1>7, <1>8
          DEF CoordinatorNext, Finished

\* Whatever the plan, the answers of the subagents and the failures, each entry of the
\* manifest is the fate of the last task with its id, the report is true, and main is
\* left without a red test but for a crash, a failed write and a failed unlink.
THEOREM RunIsAccounted == CoordinatorSpec => []RunAccounted
  <1>1. CoordinatorInv => RunAccounted
    <2> SUFFICES ASSUME CoordinatorInv PROVE RunAccounted
      OBVIOUS
    <2>1. ASSUME NEW i \in DOMAIN manifest, \E k \in Known : plan[k].id = i
          PROVE  manifest[i] = Entry(fates[LastWith(i)])
      <3> DEFINE IsLast(k) == plan[k].id = i /\ \A j \in Known : plan[j].id = i => j <= k
      <3>1. PICK k \in Known : IsLast(k) /\ manifest[i] = Entry(fates[k])
        BY <2>1 DEF CoordinatorInv, EntriesKept, LastOf
      <3>2. LastWith(i) \in Known /\ IsLast(LastWith(i))
        BY <3>1 DEF LastWith
      <3>3. LastWith(i) = k
        <4>1. Known \subseteq Int
          BY DEF CoordinatorInv, FatesKept, EntriesKept, Known
        <4>2. k <= LastWith(i)
          BY <3>1, <3>2
        <4>3. LastWith(i) <= k
          BY <3>1, <3>2
        <4>4. k \in Int /\ LastWith(i) \in Int
          BY <3>1, <3>2, <4>1
        <4> QED BY <4>2, <4>3, <4>4
      <3> QED BY <3>1, <3>3
    <2>2. ManifestFollows
      <3>1. \A i \in DOMAIN manifest :
               (\A k \in Known : plan[k].id # i) => manifest[i] = earlier[i]
        BY DEF CoordinatorInv, EntriesKept, LastOf
      <3> QED BY <2>1, <3>1 DEF CoordinatorInv, EntriesKept, ManifestFollows
    <2>3. ReportTruthful
      BY DEF CoordinatorInv, FatesKept, SuccessKept, ReportTruthful, Behind
    <2> QED BY <2>2, <2>3 DEF CoordinatorInv, RunAccounted
  <1> QED BY <1>1, CoordinatorStarts, CoordinatorSteps, PTL DEF CoordinatorSpec

-----------------------------------------------------------------------------
\* The command line.

CommandInv ==
  /\ call \in Calls
  /\ config \in [Kinds -> {"none", "given", "environment"}]
  /\ runner \in [Kinds -> {"none", "given", "environment", "mock"}]
  /\ runner["build"] = "mock" => Mocked
  /\ point \in {"parsing", "constructed", "ready"} => outcome = Failed("NONE")
  /\ outcome.kept = "landed" => call.commit /\ runner["build"] # "none"
  /\ outcome.success /\ call.commit /\ runner # None => outcome.kept = "landed"
  /\ point = "parsing" => runner = None
  /\ point # "exited" => exit = "NONE"
  /\ exit = "zero" /\ call.command # "demo" => outcome.success

LEMMA CommandStarts == CommandInit => CommandInv
  BY DEF CommandInit, CommandInv, None, Failed, Outcome, Kinds

LEMMA CommandSteps == CommandInv /\ [CommandNext]_clVars => CommandInv'
  <1> SUFFICES ASSUME CommandInv, [CommandNext]_clVars PROVE CommandInv'
    OBVIOUS
  <1>f. Failed("NONE").kept = "nothing" /\ Failed("NONE").success = FALSE
    BY DEF Failed, Outcome
  <1>h. Failed("HARD_STOP").kept = "nothing" /\ Failed("HARD_STOP").success = FALSE
    BY DEF Failed, Outcome
  <1>d. DryRunPassed.kept = "nothing"
    BY DEF DryRunPassed, Outcome
  <1>1. CASE Refuse \/ Escapes
    BY <1>1, <1>f DEF Refuse, Escapes, Leave, CommandInv, Mocked
  <1>2. CASE NothingPlanned
    BY <1>2, <1>d DEF NothingPlanned, CommandInv, Mocked
  <1>3. CASE Construct
    <2>1. Configured \in [Kinds -> {"none", "given", "environment"}]
      BY DEF Configured, WithGiven, FromEnvironment
    <2>2. \A c \in [Kinds -> {"none", "given", "environment"}] :
             /\ Runners(c) \in [Kinds -> {"none", "given", "environment", "mock"}]
             /\ Runners(c)["build"] = "mock" => Mocked
      BY DEF Runners, Kinds
    <2>3. /\ config' = Configured /\ runner' = Runners(Configured)
          /\ UNCHANGED <<call, outcome, exit>>
          /\ point = "parsing" /\ point' \in {"constructed", "ready"}
      BY <1>3 DEF Construct
    <2>4. Mocked' <=> Mocked
      BY <2>3 DEF Mocked
    <2> QED BY <1>f, <2>1, <2>2, <2>3, <2>4 DEF CommandInv
  <1>4. CASE SetOptions
    <2>1. WithGiven(config) \in [Kinds -> {"none", "given", "environment"}]
      BY DEF WithGiven, CommandInv
    <2> QED BY <1>4, <2>1 DEF SetOptions, CommandInv, Mocked
  <1>5. CASE FailClosed
    BY <1>5, <1>h DEF FailClosed, CommandInv, Mocked
  <1>6. ASSUME NEW o \in TransactionOutcomes, ExecuteCommand(o) PROVE CommandInv'
    <2>1. /\ point = "ready" /\ runner["build"] # "none" /\ outcome' = o /\ point' = "done"
          /\ IF call.commit THEN o # DryRunPassed ELSE ~o.committed
          /\ UNCHANGED <<call, config, runner, exit>>
      BY <1>6 DEF ExecuteCommand
    <2>2. o.kept = "landed" => call.commit
      BY <2>1, OutcomeFacts
    <2>3. o.success /\ call.commit => o.kept = "landed"
      BY <2>1, OutcomeFacts
    <2> QED BY <2>1, <2>2, <2>3 DEF CommandInv, Mocked
  <1>7. CASE Exit
    BY <1>7 DEF Exit, ExitCode, Leave, CommandInv, Mocked
  <1>8. CASE UNCHANGED clVars
    BY <1>8 DEF clVars, CommandInv, Mocked
  <1> QED BY <1>1, <1>2, <1>3, <1>4, <1>5, <1>6, <1>7, <1>8 DEF CommandNext, Exited

\* Nothing lands unasked or unbuilt, and the exit code is true, for every command.
THEOREM CommandObeys == CommandSpec => []LandsAsAsked
  <1>1. CommandInv => LandsAsAsked
    BY DEF CommandInv, LandsAsAsked, Kinds
  <1> QED BY <1>1, CommandStarts, CommandSteps, PTL DEF CommandSpec
=============================================================================

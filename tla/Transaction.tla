---------------------------- MODULE Transaction ----------------------------
(***************************************************************************)
(* core/runtime.py (execute_transaction) over core/workspace.py: the       *)
(* transactions that worker threads run concurrently on one repository.    *)
(*                                                                         *)
(* A transaction reads main's HEAD, builds and validates its patch in a    *)
(* worktree of its own, commits there and fast-forwards main under the     *)
(* integration lock.  The transactions share main, the crash journal and   *)
(* the session budget.  A user commits to main and edits its working tree  *)
(* at any time, git commands fail or time out, the process crashes and is  *)
(* restarted, and an operator cleans up the orphans the journal lists.     *)
(***************************************************************************)
EXTENDS Naturals, Sequences, FiniteSetsExt

CONSTANTS
  Txs,            \* transaction ids, one per call of execute_transaction
  UserCommits,    \* the commits the user makes to main
  NoTx,           \* "nobody holds the integration lock"
  MaxAdded, MaxDeleted,
  Configs,        \* the circumstances a behaviour may run under, see `config`
  MaxCrashes      \* bound on the number of process crashes

\* git: a command of the transaction fails; prune: worktree removal fails and
\* raises; rmtree: it fails and is ignored; timeout: a git command is killed
\* after it took effect; journal: reading or writing the journal file fails;
\* crash: the process dies and is started again.
FaultKinds == {"git", "prune", "rmtree", "timeout", "journal", "crash"}

ASSUME TxAssumption == IsFiniteSet(Txs) /\ NoTx \notin Txs /\ Txs \cap UserCommits = {}
ASSUME LimitAssumption == MaxAdded \in Nat /\ MaxDeleted \in Nat
ASSUME ConfigAssumption ==
  Configs \subseteq [ runner : BOOLEAN, dryRun : BOOLEAN, operator : BOOLEAN,
                      faults : SUBSET FaultKinds,
                      cost : [Txs -> [added : Nat, deleted : Nat]] ]
ASSUME CrashAssumption == MaxCrashes \in Nat

VARIABLES
  config,         \* never changes: is a build runner configured, is this a dry
                  \* run, is there an operator, which faults may happen, and the
                  \* lines each transaction's patch adds and deletes
  main,           \* main's commits after the initial one
  dirty,          \* main's working tree has uncommitted changes
  pc,             \* where each transaction's thread is
  base,           \* the HEAD each transaction read when it started
  wt,             \* the transactions whose worktree directory exists
  lock,           \* holder of _integrate_lock
  result,         \* the TransactionResult under construction
  dead,           \* the transactions whose process crashed
  session,        \* the transactions the living process started
  landed,         \* the transactions whose commit reached main
  orphans,        \* what cleanup_orphaned_worktrees has still to remove
  crashes,
  disk, pending,          \* see TransactionJournal
  reservations, spent     \* see SessionBudget

mainVars == <<main, dirty, landed>>
journalVars == <<disk, pending>>
budgetVars == <<reservations, spent>>
worldVars == <<config, session, dead, orphans, crashes>>
vars == <<mainVars, journalVars, budgetVars, worldVars, pc, base, wt, lock, result>>

J == INSTANCE TransactionJournal WITH faulty <- ("journal" \in config.faults)
B == INSTANCE SessionBudget WITH Sizes <- {c.cost[t] : c \in Configs, t \in Txs}

Commits == Txs \cup UserCommits

Final == {"done", "escaped"}
Labels == Final \cup
  { "idle", "based", "added", "recorded", "baselined", "validating", "reserved",
    "applied", "validated", "staged", "committed", "locked", "headok", "cleanok",
    "decided", "parking", "rollback", "except", "bare", "baseless", "removing",
    "ending", "cleaned" }

Pending == {"STALE_BASE", "READY_TO_INTEGRATE"}
Statuses == Pending \cup {"NONE", "ROLLED_BACK", "FAILED", "DRY_RUN", "INTEGRATED"}

\* The failure types, as the recovery loop tells them apart.
FailureClasses == {"NONE", "RETRYABLE", "HARD_STOP", "ROLLBACK_FAILED"}

Results == [status : Statuses, success : BOOLEAN, failure : FailureClasses,
            cleanupError : BOOLEAN]
NoResult == [status |-> "NONE", success |-> FALSE, failure |-> "NONE",
             cleanupError |-> FALSE]

TypeOK ==
  /\ config \in Configs
  /\ main \in Seq(Commits) /\ dirty \in BOOLEAN
  /\ pc \in [Txs -> Labels]
  /\ base \in [Txs -> Seq(Commits)]
  /\ wt \subseteq Txs /\ lock \in Txs \cup {NoTx}
  /\ result \in [Txs -> Results]
  /\ dead \subseteq Txs /\ session \subseteq Txs /\ landed \subseteq Txs
  /\ orphans \subseteq Txs /\ crashes \in 0..MaxCrashes
  /\ J!JournalTypeOK /\ B!BudgetTypeOK

Init ==
  /\ config \in Configs
  /\ main = <<>> /\ dirty = FALSE /\ landed = {}
  /\ pc = [t \in Txs |-> "idle"]
  /\ base = [t \in Txs |-> <<>>]
  /\ wt = {} /\ lock = NoTx
  /\ result = [t \in Txs |-> NoResult]
  /\ dead = {} /\ session = {} /\ orphans = {} /\ crashes = 0
  /\ J!JournalInit /\ B!BudgetInit

Step(t, from, to) ==
  /\ t \notin dead /\ pc[t] = from
  /\ pc' = [pc EXCEPT ![t] = to]

\* A step that fails; its caller will act on the class of the failure.
Fail(t, from, to, failure) ==
  /\ Step(t, from, to)
  /\ result' = [result EXCEPT ![t].failure = failure]

Running(t) == t \notin dead /\ pc[t] \notin Final \cup {"idle"}
Quiescent == \A t \in Txs : ~Running(t)

-----------------------------------------------------------------------------
\* Starting a transaction.

\* Without a trusted build runner the runtime refuses to do anything.
FailClosed(t) ==
  /\ ~config.runner /\ orphans = {}
  /\ Fail(t, "idle", "done", "HARD_STOP")
  /\ UNCHANGED <<mainVars, journalVars, budgetVars, worldVars, base, wt, lock>>

ReadBase(t) ==
  /\ config.runner /\ orphans = {}
  /\ Step(t, "idle", "based")
  /\ base' = [base EXCEPT ![t] = main]
  /\ session' = session \cup {t}
  /\ UNCHANGED <<mainVars, journalVars, budgetVars, config, dead, orphans, crashes,
                 wt, lock, result>>

ReadBaseFails(t) ==
  /\ config.runner /\ orphans = {} /\ "git" \in config.faults
  /\ Fail(t, "idle", "baseless", "RETRYABLE")
  /\ UNCHANGED <<mainVars, journalVars, budgetVars, worldVars, base, wt, lock>>

AddWorktree(t) ==
  /\ Step(t, "based", "added")
  /\ wt' = wt \cup {t}
  /\ UNCHANGED <<mainVars, journalVars, budgetVars, worldVars, base, lock, result>>

\* git may be killed half-way, when the directory is already there.
AddWorktreeFails(t) ==
  /\ "git" \in config.faults
  /\ Fail(t, "based", "bare", "RETRYABLE")
  /\ wt' = wt \/ ("timeout" \in config.faults /\ wt' = wt \cup {t})
  /\ UNCHANGED <<mainVars, journalVars, budgetVars, worldVars, base, lock>>

RecordStart(t) ==
  /\ Step(t, "added", "recorded")
  /\ J!RecordStart(t, "WORKTREE_READY")
  /\ UNCHANGED <<mainVars, budgetVars, worldVars, base, wt, lock, result>>

CaptureBaseline(t) ==
  /\ Step(t, "recorded", "baselined")
  /\ J!UpdateState(t, "BASELINE_CAPTURED")
  /\ UNCHANGED <<mainVars, budgetVars, worldVars, base, wt, lock, result>>

-----------------------------------------------------------------------------
\* Validating and applying the patch.

BeginValidation(t) ==
  /\ Step(t, "baselined", "validating")
  /\ J!UpdateState(t, "VALIDATING")
  /\ UNCHANGED <<mainVars, budgetVars, worldVars, base, wt, lock, result>>

\* The checks that come before the reservation: scope violations are hard
\* stops, an invalid patch may be tried again.
StructuralReject(t) ==
  /\ \E failure \in {"HARD_STOP", "RETRYABLE"} :
        Fail(t, "validating", "rollback", failure)
  /\ UNCHANGED <<mainVars, journalVars, budgetVars, worldVars, base, wt, lock>>

\* The scope guard reserves the patch's lines as its last check.
ReserveBudget(t) ==
  /\ Step(t, "validating", "reserved")
  /\ B!Reserve(t, config.cost[t])
  /\ UNCHANGED <<mainVars, journalVars, worldVars, base, wt, lock, result>>

ReserveRefused(t) ==
  /\ ~B!Fits(t, config.cost[t])
  /\ Fail(t, "validating", "rollback", "HARD_STOP")
  /\ UNCHANGED <<mainVars, journalVars, budgetVars, worldVars, base, wt, lock>>

RiskReject(t) ==
  /\ Fail(t, "reserved", "rollback", "HARD_STOP")
  /\ UNCHANGED <<mainVars, journalVars, budgetVars, worldVars, base, wt, lock>>

ApplyPatch(t) ==
  /\ Step(t, "reserved", "applied")
  /\ J!UpdateState(t, "PATCH_APPLIED")
  /\ UNCHANGED <<mainVars, budgetVars, worldVars, base, wt, lock, result>>

\* A build, behavioural or regression failure that the baseline did not have.
PostApplyReject(t) ==
  /\ Fail(t, "applied", "rollback", "RETRYABLE")
  /\ UNCHANGED <<mainVars, journalVars, budgetVars, worldVars, base, wt, lock>>

PostApplyPass(t) ==
  /\ Step(t, "applied", "validated")
  /\ J!UpdateState(t, "VALIDATED")
  /\ UNCHANGED <<mainVars, budgetVars, worldVars, base, wt, lock, result>>

\* verify_changed_paths found files the patch does not name.
UnexpectedChanges(t) ==
  /\ Fail(t, "validated", "rollback", "HARD_STOP")
  /\ UNCHANGED <<mainVars, journalVars, budgetVars, worldVars, base, wt, lock>>

DryRun(t) ==
  /\ config.dryRun
  /\ Step(t, "validated", "removing")
  /\ B!Release(t) /\ J!UpdateState(t, "DISCARDED")
  /\ result' = [result EXCEPT ![t].status = "DRY_RUN"]
  /\ UNCHANGED <<mainVars, worldVars, base, wt, lock>>

Stage(t) ==
  /\ ~config.dryRun
  /\ Step(t, "validated", "staged")
  /\ J!UpdateState(t, "STAGED")
  /\ UNCHANGED <<mainVars, budgetVars, worldVars, base, wt, lock, result>>

CommitInWorktree(t) ==
  /\ Step(t, "staged", "committed")
  /\ J!UpdateState(t, "COMMITTED")
  /\ UNCHANGED <<mainVars, budgetVars, worldVars, base, wt, lock, result>>

-----------------------------------------------------------------------------
\* integrate_transaction, under the integration lock.

\* Mutant: integration without its lock.
EnterUnlocked(t) ==
  /\ Step(t, "committed", "locked")
  /\ lock' = t
  /\ UNCHANGED <<mainVars, journalVars, budgetVars, worldVars, base, wt, result>>

LockIntegration(t) ==
  /\ lock = NoTx
  /\ Step(t, "committed", "locked")
  /\ lock' = t
  /\ UNCHANGED <<mainVars, journalVars, budgetVars, worldVars, base, wt, result>>

\* integrate_transaction returns a status and so leaves the lock.
Decide(t, from, status) ==
  /\ Step(t, from, "decided")
  /\ lock' = NoTx
  /\ result' = [result EXCEPT ![t].status = status]
  /\ UNCHANGED <<journalVars, budgetVars, worldVars, base, wt>>

HeadMoved(t) == main # base[t]

StaleBase(t) ==
  /\ HeadMoved(t)
  /\ Decide(t, "locked", "STALE_BASE")
  /\ UNCHANGED mainVars

\* Mutant: the base is refreshed instead of compared.
HeadRefreshed(t) ==
  /\ Step(t, "locked", "headok")
  /\ base' = [base EXCEPT ![t] = main]
  /\ UNCHANGED <<mainVars, journalVars, budgetVars, worldVars, wt, lock, result>>

HeadMatches(t) ==
  /\ ~HeadMoved(t)
  /\ Step(t, "locked", "headok")
  /\ UNCHANGED <<mainVars, journalVars, budgetVars, worldVars, base, wt, lock, result>>

MainDirty(t) ==
  /\ dirty
  /\ Decide(t, "headok", "READY_TO_INTEGRATE")
  /\ UNCHANGED mainVars

MainClean(t) ==
  /\ ~dirty
  /\ Step(t, "headok", "cleanok")
  /\ UNCHANGED <<mainVars, journalVars, budgetVars, worldVars, base, wt, lock, result>>

\* Mutant: a plain merge, without --ff-only.
MergeAnyway(t) ==
  /\ main' = Append(main, t) /\ landed' = landed \cup {t}
  /\ UNCHANGED dirty

\* git merge --ff-only: refused unless main is still at the commit's parent.
Merge(t) ==
  /\ main = base[t]
  /\ main' = Append(main, t) /\ landed' = landed \cup {t}
  /\ UNCHANGED dirty

FastForward(t) ==
  /\ Decide(t, "cleanok", "INTEGRATED")
  /\ Merge(t)

\* Mutant: the exit code of the merge is ignored.
FastForwardUnchecked(t) ==
  /\ main # base[t] \/ dirty \/ "git" \in config.faults
  /\ Decide(t, "cleanok", "INTEGRATED")
  /\ UNCHANGED mainVars

\* The user moved main or touched a file of the patch since the two checks, or
\* git failed by itself.
FastForwardFails(t) ==
  /\ main # base[t] \/ dirty \/ "git" \in config.faults
  /\ Decide(t, "cleanok", "READY_TO_INTEGRATE")
  /\ UNCHANGED mainVars

\* git was killed at its timeout after it had moved the ref.
FastForwardTimesOut(t) ==
  /\ "timeout" \in config.faults
  /\ Decide(t, "cleanok", "READY_TO_INTEGRATE")
  /\ Merge(t)

Publish(t) ==
  /\ Step(t, "decided", IF result[t].status = "INTEGRATED" THEN "removing" ELSE "parking")
  /\ J!UpdateState(t, result[t].status)
  /\ UNCHANGED <<mainVars, budgetVars, worldVars, base, wt, lock, result>>

\* Mutant: the worktree of a pending transaction is discarded.
ParkAndDiscard(t) ==
  /\ Step(t, "parking", "done")
  /\ B!Release(t) /\ wt' = wt \ {t}
  /\ UNCHANGED <<mainVars, journalVars, worldVars, base, lock, result>>

\* The worktree and its record stay for a later, manual integration.
Park(t) ==
  /\ Step(t, "parking", "done")
  /\ B!Release(t)
  /\ UNCHANGED <<mainVars, journalVars, worldVars, base, wt, lock, result>>

-----------------------------------------------------------------------------
\* Giving up: a rejected patch, or an exception.

\* Mutant: the rollback forgets the reservation.
RollbackReserved(t) ==
  /\ Step(t, "rollback", "removing")
  /\ J!UpdateState(t, "FAILED")
  /\ result' = [result EXCEPT ![t].status = "ROLLED_BACK"]
  /\ UNCHANGED <<mainVars, budgetVars, worldVars, base, wt, lock>>

Rollback(t) ==
  /\ Step(t, "rollback", "removing")
  /\ B!Release(t) /\ J!UpdateState(t, "FAILED")
  /\ result' = [result EXCEPT ![t].status = "ROLLED_BACK"]
  /\ UNCHANGED <<mainVars, worldVars, base, wt, lock>>

\* The steps that call git, the file system or a validator; the risk check is the one of
\* "reserved", while the pipeline makes a rejection of what a check before it raises.  Of
\* what the steps raise classify_exception makes a hard stop only of a staging error.
MayRaise == {"baselined", "reserved", "applied", "validated", "staged", "locked",
             "headok"}

\* Mutant: an exception inside integrate_transaction keeps the lock.
RaiseHolding(t) ==
  /\ "git" \in config.faults
  /\ \E from \in MayRaise : Fail(t, from, "except", "RETRYABLE")
  /\ UNCHANGED <<mainVars, journalVars, budgetVars, worldVars, base, wt, lock>>

Raise(t) ==
  /\ "git" \in config.faults
  /\ \E from \in MayRaise, failure \in {"RETRYABLE", "HARD_STOP"} :
        /\ failure = "HARD_STOP" => from = "staged"
        /\ Fail(t, from, "except", failure)
  /\ lock' = IF lock = t THEN NoTx ELSE lock
  /\ UNCHANGED <<mainVars, journalVars, budgetVars, worldVars, base, wt>>

\* Mutant: the exception handler forgets to discard the worktree.
HandleWithoutCleanup(t) ==
  /\ Step(t, "except", "cleaned")
  /\ B!Release(t) /\ J!UpdateState(t, "FAILED")
  /\ result' = [result EXCEPT ![t].status = "FAILED"]
  /\ UNCHANGED <<mainVars, worldVars, base, wt, lock>>

HandleException(t) ==
  /\ Step(t, "except", "removing")
  /\ B!Release(t) /\ J!UpdateState(t, "FAILED")
  /\ result' = [result EXCEPT ![t].status = "FAILED"]
  /\ UNCHANGED <<mainVars, worldVars, base, wt, lock>>

\* The handler has no worktree to discard ...
HandleBare(t) ==
  /\ Step(t, "bare", "done")
  /\ B!Release(t)
  /\ result' = [result EXCEPT ![t].status = "FAILED"]
  /\ UNCHANGED <<mainVars, journalVars, worldVars, base, wt, lock>>

\* ... and, without a base commit, asks git for HEAD again: if that fails too
\* the exception leaves execute_transaction.
HandleBaseless(t) ==
  /\ \/ /\ Step(t, "baseless", "done")
        /\ result' = [result EXCEPT ![t].status = "FAILED"]
     \/ "git" \in config.faults /\ Step(t, "baseless", "escaped") /\ UNCHANGED result
  /\ B!Release(t)
  /\ UNCHANGED <<mainVars, journalVars, worldVars, base, wt, lock>>

-----------------------------------------------------------------------------
\* remove_transaction_worktree and what execute_transaction makes of it.

RemoveWorktree(t) ==
  /\ Step(t, "removing", "ending")
  /\ wt' = wt \ {t} \/ ("rmtree" \in config.faults /\ wt' = wt)
  /\ UNCHANGED <<mainVars, journalVars, budgetVars, worldVars, base, lock, result>>

\* Mutant: the record is ended although the removal failed.
RemoveAndEnd(t) ==
  /\ "prune" \in config.faults
  /\ Step(t, "removing", "ending")
  /\ wt' \in {wt, wt \ {t}}
  /\ result' = [result EXCEPT ![t].cleanupError = TRUE]
  /\ UNCHANGED <<mainVars, journalVars, budgetVars, worldVars, base, lock>>

\* WorktreeCleanupError: the record stays in the journal.
RemoveWorktreeRaises(t) ==
  /\ "prune" \in config.faults
  /\ Step(t, "removing", "cleaned")
  /\ wt' \in {wt, wt \ {t}}
  /\ result' = [result EXCEPT ![t].cleanupError = TRUE]
  /\ UNCHANGED <<mainVars, journalVars, budgetVars, worldVars, base, lock>>

EndRecord(t) ==
  /\ Step(t, "ending", "cleaned")
  /\ J!RecordEnd(t)
  /\ UNCHANGED <<mainVars, budgetVars, worldVars, base, wt, lock, result>>

\* The failed transaction's result; a failed cleanup takes over its failure.
ConcludeFailure(t) ==
  /\ result[t].status \in {"ROLLED_BACK", "FAILED"}
  /\ Step(t, "cleaned", "done")
  /\ result' = [result EXCEPT ![t].failure =
                  IF result[t].cleanupError THEN "ROLLBACK_FAILED" ELSE @]
  /\ UNCHANGED <<mainVars, journalVars, budgetVars, worldVars, base, wt, lock>>

ConcludeDryRun(t) ==
  /\ result[t].status = "DRY_RUN"
  /\ Step(t, "cleaned", "done")
  /\ result' = [result EXCEPT ![t].success = TRUE]
  /\ UNCHANGED <<mainVars, journalVars, budgetVars, worldVars, base, wt, lock>>

\* Mutant: the reservation of a success is released, not committed.
ConcludeReleased(t) ==
  /\ result[t].status = "INTEGRATED" /\ ~result[t].cleanupError
  /\ Step(t, "cleaned", "done")
  /\ B!Release(t)
  /\ result' = [result EXCEPT ![t].success = TRUE]
  /\ UNCHANGED <<mainVars, journalVars, worldVars, base, wt, lock>>

ConcludeSuccess(t) ==
  /\ result[t].status = "INTEGRATED" /\ ~result[t].cleanupError
  /\ Step(t, "cleaned", "done")
  /\ B!Commit(t)
  /\ result' = [result EXCEPT ![t].success = TRUE]
  /\ UNCHANGED <<mainVars, journalVars, worldVars, base, wt, lock>>

\* Mutant: the failed cleanup is reported as a failure that may be retried.
ConcludeRetryable(t) ==
  /\ result[t].status = "INTEGRATED" /\ result[t].cleanupError
  /\ Step(t, "cleaned", "done")
  /\ B!Release(t)
  /\ result' = [result EXCEPT ![t].failure = "RETRYABLE"]
  /\ UNCHANGED <<mainVars, journalVars, worldVars, base, wt, lock>>

\* Integrated, but the worktree could not be removed: the budget is released.
ConcludeUncleaned(t) ==
  /\ result[t].status = "INTEGRATED" /\ result[t].cleanupError
  /\ Step(t, "cleaned", "done")
  /\ B!Release(t)
  /\ result' = [result EXCEPT ![t].failure = "ROLLBACK_FAILED"]
  /\ UNCHANGED <<mainVars, journalVars, worldVars, base, wt, lock>>

-----------------------------------------------------------------------------
\* The user, the crash and the operator.

threadVars == <<pc, base, wt, lock, result>>

UserCommit(c) ==
  /\ \A i \in DOMAIN main : main[i] # c
  /\ main' = Append(main, c) /\ dirty' = FALSE
  /\ UNCHANGED <<landed, journalVars, budgetVars, worldVars, threadVars>>

UserEdit ==
  /\ dirty' = ~dirty
  /\ UNCHANGED <<main, landed, journalVars, budgetVars, worldVars, threadVars>>

\* The process dies and is started again: threads, locks, the budget and the
\* journal's memory are gone, the repository and the journal file remain.
Crash ==
  /\ "crash" \in config.faults /\ crashes < MaxCrashes
  /\ crashes' = crashes + 1
  /\ dead' = dead \cup {t \in Txs : Running(t)}
  /\ lock' = NoTx /\ session' = {} /\ orphans' = {}
  /\ J!LoseMemory /\ B!Reset
  /\ UNCHANGED <<mainVars, config, pc, base, wt, result>>

\* git runs in a session of its own: a merge that was under way when the
\* process died still completes.
MergeOutlivesCrash(t) ==
  /\ t \in dead /\ pc[t] = "cleanok" /\ t \notin landed
  /\ Merge(t)
  /\ UNCHANGED <<journalVars, budgetVars, worldVars, threadVars>>

\* The operator calls cleanup_orphaned_worktrees while nothing is running.
CleanupScan ==
  /\ config.operator /\ Quiescent /\ orphans = {}
  /\ orphans' = {t \in wt : J!Reported(t) # J!Absent}
  /\ UNCHANGED <<mainVars, journalVars, budgetVars, config, session, dead, crashes,
                 threadVars>>

CleanupOrphan(t) ==
  /\ t \in orphans
  /\ \/ /\ wt' = wt \ {t} \/ ("rmtree" \in config.faults /\ wt' = wt)
        /\ J!RecordEnd(t)
     \/ /\ "prune" \in config.faults
        /\ wt' \in {wt, wt \ {t}}
        /\ UNCHANGED journalVars
  /\ orphans' = orphans \ {t}
  /\ UNCHANGED <<mainVars, budgetVars, config, session, dead, crashes,
                 pc, base, lock, result>>

-----------------------------------------------------------------------------
Execute(t) ==
  \/ AddWorktree(t) \/ AddWorktreeFails(t) \/ RecordStart(t)
  \/ CaptureBaseline(t) \/ BeginValidation(t)
  \/ StructuralReject(t) \/ ReserveBudget(t) \/ ReserveRefused(t)
  \/ RiskReject(t) \/ ApplyPatch(t) \/ PostApplyReject(t) \/ PostApplyPass(t)
  \/ UnexpectedChanges(t) \/ DryRun(t) \/ Stage(t) \/ CommitInWorktree(t)
  \/ LockIntegration(t) \/ StaleBase(t) \/ HeadMatches(t) \/ MainDirty(t)
  \/ MainClean(t) \/ FastForward(t) \/ FastForwardFails(t)
  \/ FastForwardTimesOut(t) \/ Publish(t) \/ Park(t)
  \/ Rollback(t) \/ Raise(t) \/ HandleException(t) \/ HandleBare(t)
  \/ HandleBaseless(t) \/ RemoveWorktree(t) \/ RemoveWorktreeRaises(t)
  \/ EndRecord(t) \/ ConcludeFailure(t) \/ ConcludeDryRun(t)
  \/ ConcludeSuccess(t) \/ ConcludeUncleaned(t)

Start(t) == FailClosed(t) \/ ReadBase(t) \/ ReadBaseFails(t)

Environment ==
  \/ \E c \in UserCommits : UserCommit(c)
  \/ UserEdit
  \/ Crash
  \/ \E t \in Txs : MergeOutlivesCrash(t)
  \/ CleanupScan
  \/ \E t \in Txs : CleanupOrphan(t)

Next == (\E t \in Txs : Start(t) \/ Execute(t)) \/ Environment

Spec == Init /\ [][Next]_vars

\* Every git command and every validator runs under a timeout, so a thread that
\* has started a transaction always gets to its next step.
FairSpec == Spec /\ \A t \in Txs : WF_vars(Execute(t))

-----------------------------------------------------------------------------
\* Properties.

\* Main's history is serial: every transaction that reached main sits directly
\* on the commit it read as its base, though the user commits and other
\* transactions land between its start and its merge.
LandedOnBase ==
  \A t \in landed : \E i \in DOMAIN main :
     main[i] = t /\ SubSeq(main, 1, i - 1) = base[t]

\* "concurrent worker threads do not race against main Git ref updates": while
\* a transaction is between its check of HEAD and its merge, no other
\* transaction of the process moves main.
NoRacingMerge ==
  [][ \A t \in Txs \ dead : pc[t] \in {"headok", "cleanok"} =>
        landed' \ landed \subseteq {t} \cup dead ]_vars

\* Nobody waits for the integration lock in vain: it is held exactly by the living thread
\* that is inside integrate_transaction, so neither a decision nor an exception under the
\* lock nor a crash ever leaves it held.
Integrating == {"locked", "headok", "cleanok"}

LockFollowsThread ==
  \A t \in Txs : lock = t <=> (t \notin dead /\ pc[t] \in Integrating)

\* The status a caller gets is true: a finished transaction is on main if and
\* only if its result says INTEGRATED, as long as no merge is killed by its
\* timeout after it moved the ref.
OutcomeTruthful ==
  "timeout" \notin config.faults =>
     \A t \in Txs : pc[t] = "done" =>
        (t \in landed <=> result[t].status = "INTEGRATED")

X == INSTANCE Outcomes

OutcomeOf(t) ==
  X!Outcome(result[t].success, result[t].status \in Pending \cup {"INTEGRATED"},
            result[t].failure,
            IF t \in landed THEN "landed"
            ELSE IF result[t].status \in Pending THEN "parked" ELSE "nothing")

\* The contract the recovery loop relies on: whatever fails, a transaction ends
\* with one of the outcomes of module Outcomes, so that a failure that may be
\* retried never comes with a commit on main or in a retained worktree.
EndsAsPromised ==
  \A t \in Txs : pc[t] = "done" => OutcomeOf(t) \in X!TransactionOutcomes

\* The faults the code swallows: a killed `git worktree add` may leave its
\* directory, and errors of rmtree and of the journal file are ignored.
Swallowed == {"timeout", "rmtree", "journal"}

\* A finished transaction that is not pending leaves neither a worktree nor a
\* journal record behind, unless its result carries a cleanup error: whatever
\* git makes fail, only a fault that is swallowed leaves something silently.
NoResidue ==
  config.faults \cap Swallowed = {} =>
     \A t \in Txs :
        (pc[t] = "done" /\ result[t].status \notin Pending /\ ~result[t].cleanupError)
           => t \notin wt /\ disk[t] = J!Absent

\* "worktree retained for manual/next-phase integration": the worktree of a
\* pending transaction, the only place its commit is checked out, stays with
\* its journal record.
RetainedForIntegration ==
  \A t \in Txs : (pc[t] = "done" /\ result[t].status \in Pending) =>
     t \in wt /\ disk[t] # J!Absent

\* It does, through crashes and the cleanup of other transactions, unless an
\* operator runs cleanup_orphaned_worktrees or the journal file is not written.
PendingIsRetained ==
  (~config.operator /\ "journal" \notin config.faults) => RetainedForIntegration

\* From record_start on the journal file knows every worktree that exists, so
\* after a crash in any later step orphan detection finds it.
RecordedWorktrees ==
  config.faults \cap Swallowed = {} =>
     \A t \in wt : pc[t] # "added" => disk[t] # J!Absent

\* A reservation lives exactly as long as its transaction may still use it: it
\* is held from the scope check until the transaction is decided or has been
\* accounted for, and nothing that is over, or crashed, still holds one.
Reserved == {"reserved", "applied", "validated", "staged", "committed", "locked",
             "headok", "cleanok", "decided", "parking"}

ReservationLifetime ==
  \A t \in Txs :
     /\ reservations[t].held => Running(t)
     /\ (t \notin dead /\ pc[t] \in Reserved) => reservations[t].held
     /\ (t \in landed \cap session /\ pc[t] # "done") => reservations[t].held

TotalAdded(ids) == MapThenSumSet(LAMBDA t : config.cost[t].added, ids)
TotalDeleted(ids) == MapThenSumSet(LAMBDA t : config.cost[t].deleted, ids)

\* The lines the session has spent are those of the transactions whose success
\* it reported, no more and no less.
SpentIsReported ==
  LET counted == {t \in session : /\ pc[t] = "done" /\ result[t].success
                                  /\ result[t].status = "INTEGRATED"}
  IN spent = [added |-> TotalAdded(counted), deleted |-> TotalDeleted(counted)]

\* "Permanently commits the reserved budget after successful integration": the
\* patches one session puts on main stay within the session's line limits.
SessionLimitsHold ==
  /\ TotalAdded(landed \cap session) <= MaxAdded
  /\ TotalDeleted(landed \cap session) <= MaxDeleted

\* They do, unless a merge is killed after it moved the ref or the worktree of
\* an integrated patch cannot be removed: both release the reservation.
LandedWithinLimits ==
  config.faults \cap {"timeout", "prune"} = {} => SessionLimitsHold

\* Every transaction that was started ends, or its process crashes.
TransactionsEnd ==
  \A t \in Txs : (pc[t] = "based") ~> (pc[t] \in Final \/ t \in dead)

-----------------------------------------------------------------------------
\* The inductive invariant behind the proofs: what each step of a thread knows.

AfterMerge == {"decided", "parking", "removing", "ending", "cleaned", "done"}
Discarding == {"removing", "ending", "cleaned"}

StatusAtStep(t) ==
  /\ pc[t] = "decided" => result[t].status \in Pending \cup {"INTEGRATED"}
  /\ pc[t] = "parking" => result[t].status \in Pending
  /\ pc[t] \in Discarding => result[t].status \notin Pending \cup {"NONE"}

LockAtStep(t) ==
  lock = t <=> (t \notin dead /\ pc[t] \in Integrating)

\* A commit on main belongs to a thread that has merged, or to a crashed one
\* whose merge went on alone; a landed commit is discarded only as INTEGRATED.
LandedAtStep(t) ==
  t \in landed =>
     /\ pc[t] \in AfterMerge \/ (t \in dead /\ pc[t] = "cleanok")
     /\ pc[t] \in Discarding => result[t].status = "INTEGRATED"

DeadAtStep(t) == t \in dead => pc[t] \notin Final \cup {"idle"} /\ t \notin session

HeldAtStep(t) ==
  /\ (t \notin dead /\ pc[t] \in Reserved) => reservations[t].held
  /\ (t \notin dead /\ pc[t] \in Discarding) =>
        (reservations[t].held <=> result[t].status = "INTEGRATED")
  /\ (t \in dead \/ pc[t] \in Final \cup {"idle"}) => ~reservations[t].held

Knows(t) == /\ StatusAtStep(t) /\ LockAtStep(t) /\ LandedAtStep(t)
            /\ DeadAtStep(t) /\ HeldAtStep(t)

\* The bookkeeping of every thread agrees with where the thread is: which
\* status it carries, whether it holds the integration lock and a reservation,
\* and whether its commit may already be on main.
StepsKnow == \A t \in Txs : Knows(t)

-----------------------------------------------------------------------------
\* The engine implements IntegrationLog.

\* The steps from which a transaction can still reach main.
CanLand == {"based", "added", "recorded", "baselined", "validating", "reserved",
            "applied", "validated", "staged", "committed", "locked", "headok",
            "cleanok"}

Fate(t) ==
  IF t \in landed THEN "landed"
  ELSE IF pc[t] = "idle" THEN "new"
  ELSE IF pc[t] \in CanLand /\ (t \in dead => pc[t] = "cleanok") THEN "open"
  ELSE "closed"

Log == INSTANCE IntegrationLog WITH log <- main, snap <- base,
                                    fate <- [t \in Txs |-> Fate(t)]

\* Whatever the threads, the crashes and the user do, main behaves like the
\* append-only compare-and-swap log.
ImplementsLog == Log!LogSpec
=============================================================================

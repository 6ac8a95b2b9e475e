----------------------------- MODULE CloudQueue -----------------------------
(***************************************************************************)
(* taskqueue/cloud_worker.py (CloudQueueWorker): workers poll a server for *)
(* PENDING tasks, mark one RUNNING, run it with the recovery loop and send *)
(* its status. The server stores what it is sent.                          *)
(***************************************************************************)
EXTENDS Naturals, FiniteSets, Outcomes

CONSTANTS
  Items,        \* the tasks of the queue
  Workers,
  MaxCrashes,   \* crashes of workers, over a behaviour
  Regimes,      \* who works, and how the updates travel: [crew, reliable]
  MaxRuns,      \* how often one task may be run, and
  MaxLate       \* how many updates are late at a time: bounds of the model

ASSUME QueueAssumption ==
  /\ Regimes \subseteq [crew : SUBSET Workers, reliable : BOOLEAN]
  /\ IsFiniteSet(Workers)
  /\ MaxCrashes \in Nat /\ MaxRuns \in Nat /\ MaxLate \in Nat

VARIABLES
  crew,         \* the workers that are started
  reliable,     \* every status update arrives before its sender goes on
  status,       \* the server's status of each task
  late,         \* updates given up by their sender that may still arrive
  batch,        \* the tasks each worker has fetched and not yet taken up
  at,           \* what each worker is doing
  runs,         \* how often each task was run
  onMain,       \* the tasks with a commit on main
  abandoned,    \* the tasks some worker dropped half-way
  crashes

cqVars == <<crew, reliable, status, late, batch, at, runs, onMain, abandoned, crashes>>

Statuses == {"PENDING", "RUNNING", "COMPLETED", "FAILED"}
Polling == [step |-> "polling"]
Busy(w) == at[w].step # "polling"

QueueInit ==
  /\ \E r \in Regimes : crew = r.crew /\ reliable = r.reliable
  /\ status = [i \in Items |-> "PENDING"] /\ late = {}
  /\ batch = [w \in Workers |-> {}] /\ at = [w \in Workers |-> Polling]
  /\ runs = [i \in Items |-> 0] /\ onMain = {} /\ abandoned = {} /\ crashes = 0

\* update_task_status: an unconditional PATCH. Errors are logged; a request that
\* timed out may have arrived, may arrive later, or never.
Update(i, s) ==
  \/ status' = [status EXCEPT ![i] = s] /\ UNCHANGED late
  \/ ~reliable /\ UNCHANGED <<status, late>>
  \/ /\ ~reliable /\ Cardinality(late) < MaxLate
     /\ late' = late \cup {[item |-> i, status |-> s]} /\ UNCHANGED status

UpdateArrives(u) ==
  /\ u \in late
  /\ status' = [status EXCEPT ![u.item] = u.status] /\ late' = late \ {u}
  /\ UNCHANGED <<crew, reliable, batch, at, runs, onMain, abandoned, crashes>>

\* A failed poll returns no tasks, like one of an empty queue.
Fetch(w) ==
  /\ w \in crew /\ ~Busy(w) /\ batch[w] = {}
  /\ batch' = [batch EXCEPT ![w] = {i \in Items : status[i] = "PENDING"}]
  /\ UNCHANGED <<crew, reliable, status, late, at, runs, onMain, abandoned, crashes>>

Claim(w, i) ==
  /\ ~Busy(w) /\ i \in batch[w]
  /\ batch' = [batch EXCEPT ![w] = @ \ {i}]
  /\ at' = [at EXCEPT ![w] = [step |-> "claimed", item |-> i]]
  /\ Update(i, "RUNNING")
  /\ UNCHANGED <<crew, reliable, runs, onMain, abandoned, crashes>>

\* Mutant: the worker returns without telling the server.
RepoMissingUntold(w) ==
  /\ at[w].step = "claimed"
  /\ at' = [at EXCEPT ![w] = Polling]
  /\ UNCHANGED <<crew, reliable, status, late, batch, runs, onMain, abandoned, crashes>>

RepoMissing(w) ==
  /\ at[w].step = "claimed"
  /\ at' = [at EXCEPT ![w] = Polling]
  /\ Update(at[w].item, "FAILED")
  /\ UNCHANGED <<crew, reliable, batch, runs, onMain, abandoned, crashes>>

\* Mutant: a result with a commit hash counts as completed.
StatusByCommit(o) == IF o.committed THEN "COMPLETED" ELSE "FAILED"

StatusOf(o) == IF o.success THEN "COMPLETED" ELSE "FAILED"

\* The worker never makes a dry run.
RunTask(w, o) ==
  /\ at[w].step = "claimed" /\ o # DryRunPassed
  /\ runs[at[w].item] < MaxRuns
  /\ runs' = [runs EXCEPT ![at[w].item] = @ + 1]
  /\ onMain' = IF o.kept = "landed" THEN onMain \cup {at[w].item} ELSE onMain
  /\ at' = [at EXCEPT ![w] = [step |-> "ran", item |-> @.item, status |-> StatusOf(o)]]
  /\ UNCHANGED <<crew, reliable, status, late, batch, abandoned, crashes>>

SendResult(w) ==
  /\ at[w].step = "ran"
  /\ at' = [at EXCEPT ![w] = Polling]
  /\ Update(at[w].item, at[w].status)
  /\ UNCHANGED <<crew, reliable, batch, runs, onMain, abandoned, crashes>>

\* The loop catches what the run raises, and with the task drops the batch.
RunRaises(w) ==
  /\ at[w].step = "claimed" /\ runs[at[w].item] < MaxRuns
  /\ runs' = [runs EXCEPT ![at[w].item] = @ + 1]
  /\ abandoned' = abandoned \cup {at[w].item}
  /\ at' = [at EXCEPT ![w] = Polling] /\ batch' = [batch EXCEPT ![w] = {}]
  /\ UNCHANGED <<crew, reliable, status, late, onMain, crashes>>

\* The process dies, in the middle of a run perhaps, and is started again.
WorkerCrashes(w) ==
  /\ w \in crew /\ (Busy(w) \/ batch[w] # {}) /\ crashes < MaxCrashes
  /\ crashes' = crashes + 1
  /\ at' = [at EXCEPT ![w] = Polling] /\ batch' = [batch EXCEPT ![w] = {}]
  /\ abandoned' = IF Busy(w) THEN abandoned \cup {at[w].item} ELSE abandoned
  /\ \/ UNCHANGED <<runs, onMain>>
     \/ /\ at[w].step = "claimed" /\ runs[at[w].item] < MaxRuns
        /\ runs' = [runs EXCEPT ![at[w].item] = @ + 1]
        /\ onMain' \in {onMain, onMain \cup {at[w].item}}
  /\ UNCHANGED <<crew, reliable, status, late>>

\* One round of run_worker_loop.
Work(w) ==
  \/ Fetch(w) \/ RepoMissing(w) \/ SendResult(w) \/ RunRaises(w)
  \/ \E i \in Items : Claim(w, i)
  \/ \E o \in TransactionOutcomes : RunTask(w, o)

QueueNext ==
  \/ \E w \in Workers : Work(w) \/ WorkerCrashes(w)
  \/ \E u \in late : UpdateArrives(u)

QueueSpec == QueueInit /\ [][QueueNext]_cqVars

\* Every request and every run ends, and the loop polls for ever.
QueueFairness == \A w \in Workers : WF_cqVars(Work(w))

-----------------------------------------------------------------------------
\* Properties.

\* What the server says is true, although nobody holds a lock on a task:
\* COMPLETED means, however updates were lost or late, that the task has a commit
\* on main. With updates that arrive, PENDING means that it was never run, so that
\* one worker runs no task twice even when it crashes, and RUNNING that a worker is
\* at it or dropped it half-way.
QueueTruthful ==
  \A i \in Items :
    /\ status[i] = "COMPLETED" => i \in onMain
    /\ reliable /\ status[i] = "PENDING" => runs[i] = 0
    /\ reliable /\ status[i] = "RUNNING" =>
         i \in abandoned \/ \E w \in crew : Busy(w) /\ at[w].item = i
    /\ reliable /\ Cardinality(crew) = 1 => runs[i] <= 1

\* With updates that arrive every task is settled in the end, however often the
\* rest of a batch is dropped, except for those whose own run was cut short.
ItemsSettle ==
  \A i \in Items :
    []reliable => <>[](status[i] \in {"COMPLETED", "FAILED"} \/ i \in abandoned)
=============================================================================

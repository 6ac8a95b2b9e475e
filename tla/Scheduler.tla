----------------------------- MODULE Scheduler -----------------------------
(***************************************************************************)
(* task/scheduler.py, DAGScheduler: one run of a task graph.               *)
(*                                                                         *)
(* run_sequential walks the tasks in a topological order and executes them *)
(* in its own thread.  run_parallel's thread scans the ready tasks again   *)
(* and again, submits them to a thread pool and collects their results;    *)
(* the scan holds state_lock from beginning to end, and a worker takes     *)
(* state_lock only to release its file locks.                              *)
(*                                                                         *)
(* Any topological order, any order of the ready tasks and any order of    *)
(* the queued ones is possible.  The lock manager outlives the run, so an  *)
(* earlier run of the scheduler may have left a task's files locked.       *)
(***************************************************************************)
EXTENDS ResourceLocks

CONSTANTS
  MaxWorkers,
  BadPaths,       \* tasks that may have a path normalize_repo_path rejects
  Leftovers       \* tasks whose files an earlier run may have left locked

ASSUME WorkersAssumption == MaxWorkers \in Nat \ {0}
ASSUME ChoicesAssumption == BadPaths \subseteq Tasks /\ Leftovers \subseteq Tasks

VARIABLES
  given,          \* never changes: which method is called, the tasks that have a
                  \* patch, those with a bad path, and the owner of stale locks
  phase,          \* where the scheduling thread is
  scan,           \* the tasks its loop has not come to yet
  batch,          \* finished futures it has not collected yet
  completed, failed, aborted,     \* the summary's lists
  blocked,        \* blocked_task_ids, blocked_set
  active,         \* active_set, and the tasks of future_to_task
  worker,         \* how far each task's execute_transaction is
  outcome,        \* what became of it
  entries         \* how many entries of the summary's lists name each task

sets == <<completed, failed, aborted, blocked>>
vars == <<given, phase, scan, batch, sets, active, worker, outcome, entries, fileLocks>>

Phases == {"checking", "scanning", "executing", "waiting", "collecting", "closing",
           "over", "raising", "raised"}
WorkerStates == {"none", "queued", "running", "returned", "finished"}
WorkerOutcomes == {"none", "success", "failure", "exception"}

Given == [parallel : BOOLEAN, proposed : SUBSET Tasks, bad : SUBSET BadPaths,
          leftBy : Leftovers \cup {Free}]

SchedulerTypeOK ==
  /\ given \in Given /\ phase \in Phases
  /\ scan \subseteq Tasks /\ batch \subseteq Tasks /\ active \subseteq Tasks
  /\ completed \subseteq Tasks /\ failed \subseteq Tasks
  /\ aborted \subseteq Tasks /\ blocked \subseteq Tasks
  /\ worker \in [Tasks -> WorkerStates]
  /\ outcome \in [Tasks -> WorkerOutcomes]
  /\ entries \in [Tasks -> Nat]
  /\ LocksTypeOK

Init ==
  /\ given \in Given
  /\ phase = (IF given.parallel THEN "checking" ELSE "scanning")
  /\ scan = (IF given.parallel THEN {} ELSE Tasks)
  /\ batch = {} /\ active = {}
  /\ completed = {} /\ failed = {} /\ aborted = {} /\ blocked = {}
  /\ worker = [t \in Tasks |-> "none"]
  /\ outcome = [t \in Tasks |-> "none"]
  /\ entries = [t \in Tasks |-> 0]
  /\ LocksInit(given.leftBy)

Accounted == completed \cup failed \cup aborted

\* Adds the tasks to one of the summary's lists.
Enter(ts) == entries' = [t \in Tasks |-> entries[t] + IF t \in ts THEN 1 ELSE 0]

\* Mutant: a failure aborts everything that has not started.
FailAll(t) ==
  LET lost == Tasks \ (Accounted \cup active \cup {t})
  IN /\ failed' = failed \cup {t}
     /\ aborted' = aborted \cup lost
     /\ blocked' = blocked \cup lost
     /\ Enter({t} \cup lost)
     /\ UNCHANGED completed

\* Mutant: tasks that were already aborted are entered again.
FailAgain(t) ==
  /\ failed' = failed \cup {t}
  /\ aborted' = aborted \cup Descendants(t)
  /\ blocked' = blocked \cup Descendants(t)
  /\ Enter({t} \cup Descendants(t))
  /\ UNCHANGED completed

\* A failed task takes the tasks downstream of it with it.
FailTask(t) ==
  LET lost == Descendants(t) \ Accounted
  IN /\ failed' = failed \cup {t}
     /\ aborted' = aborted \cup lost
     /\ blocked' = blocked \cup Descendants(t)
     /\ Enter({t} \cup lost)
     /\ UNCHANGED completed

\* run_sequential only blocks them, and skips them when it comes to them.
FailUnstarted(t) ==
  \/ given.parallel /\ FailTask(t)
  \/ /\ ~given.parallel
     /\ failed' = failed \cup {t}
     /\ blocked' = blocked \cup Descendants(t)
     /\ Enter({t})
     /\ UNCHANGED <<completed, aborted>>

-----------------------------------------------------------------------------
\* The scheduling thread: one pass over the tasks.

CheckDone ==
  /\ phase = "checking"
  /\ IF Cardinality(completed) + Cardinality(failed) + Cardinality(aborted)
          = Cardinality(Tasks)
     THEN phase' = "closing" /\ UNCHANGED scan
     ELSE phase' = "scanning" /\ scan' = Ready(completed, active, blocked)
  /\ UNCHANGED <<given, batch, sets, active, worker, outcome, entries, fileLocks>>

\* The loop comes to a task: any ready one, or the next in topological order.
Examine(t) ==
  /\ phase = "scanning" /\ t \in scan
  /\ given.parallel \/ Deps[t] \cap scan = {}
  /\ scan' = scan \ {t}

\* run_parallel passes over these: a failed task is still "ready" to the graph.
Settled(t) == given.parallel /\ t \in active \cup failed \cup aborted

\* run_sequential skips these.
Blocked(t) == ~given.parallel /\ (t \in blocked \/ ~(Deps[t] \subseteq completed))

PassOver(t) ==
  /\ Examine(t) /\ Settled(t)
  /\ UNCHANGED <<given, phase, batch, sets, active, worker, outcome, entries, fileLocks>>

Skip(t) ==
  /\ Examine(t) /\ Blocked(t)
  /\ aborted' = aborted \cup {t} /\ Enter({t} \ aborted)
  /\ blocked' = blocked \cup Descendants(t)
  /\ UNCHANGED <<given, phase, batch, completed, failed, active, worker, outcome, fileLocks>>

\* The loop goes on to acquire the task's locks.
Consider(t) == Examine(t) /\ ~Settled(t) /\ ~Blocked(t)

\* Mutant: a busy file makes the task fail in a parallel run as well.
LockBusyFails(t) ==
  /\ Consider(t) /\ ~CanAcquire(t)
  /\ FailUnstarted(t)
  /\ UNCHANGED <<given, phase, batch, active, worker, outcome, fileLocks>>

\* run_parallel will come to it again, run_sequential makes it fail.
LockBusy(t) ==
  /\ Consider(t) /\ ~CanAcquire(t)
  /\ IF given.parallel THEN UNCHANGED <<sets, entries>> ELSE FailUnstarted(t)
  /\ UNCHANGED <<given, phase, batch, active, worker, outcome, fileLocks>>

\* The exception leaves the run; a pool waits for its workers on the way out.
AcquireRaises(t) ==
  /\ Consider(t) /\ t \in given.bad
  /\ phase' = IF given.parallel THEN "raising" ELSE "raised"
  /\ UNCHANGED <<given, batch, sets, active, worker, outcome, entries, fileLocks>>

\* The locks are acquired and released again.
MissingProposal(t) ==
  /\ Consider(t) /\ CanAcquire(t) /\ t \notin given.bad
  /\ t \notin given.proposed
  /\ FailUnstarted(t)
  /\ fileLocks' = Freed(t)
  /\ UNCHANGED <<given, phase, batch, active, worker, outcome>>

Dispatch(t) ==
  /\ Consider(t) /\ t \notin given.bad
  /\ t \in given.proposed
  /\ Acquire(t)
  /\ active' = active \cup {t}
  /\ IF given.parallel
     THEN worker' = [worker EXCEPT ![t] = "queued"] /\ UNCHANGED phase
     ELSE worker' = [worker EXCEPT ![t] = "running"] /\ phase' = "executing"
  /\ UNCHANGED <<given, batch, sets, outcome, entries>>

\* Whoever is not accounted for when nothing is left to wait for is given up.
GiveUpRest ==
  /\ aborted' = aborted \cup (Tasks \ Accounted)
  /\ Enter(Tasks \ Accounted)

\* Mutant: the scan waits although no future is outstanding.
EndScanWaiting ==
  /\ phase = "scanning" /\ scan = {}
  /\ phase' = "waiting"
  /\ UNCHANGED <<given, scan, batch, sets, active, worker, outcome, entries, fileLocks>>

EndScan ==
  /\ phase = "scanning" /\ scan = {}
  /\ IF active # {}
     THEN phase' = "waiting" /\ UNCHANGED <<aborted, entries>>
     ELSE phase' = "closing" /\ GiveUpRest
  /\ UNCHANGED <<given, scan, batch, completed, failed, blocked, active, worker,
                 outcome, fileLocks>>

-----------------------------------------------------------------------------
\* The scheduling thread: results, and the end of the run.

Done == {t \in active : worker[t] = "finished"}

WaitReturns ==
  /\ phase = "waiting" /\ Done # {}
  /\ batch' = Done /\ phase' = "collecting"
  /\ UNCHANGED <<given, scan, sets, active, worker, outcome, entries, fileLocks>>

Tally(t) ==
  /\ active' = active \ {t}
  /\ \/ /\ outcome[t] = "success"
        /\ completed' = completed \cup {t}
        /\ Enter({t})
        /\ UNCHANGED <<failed, aborted, blocked>>
     \/ outcome[t] # "success" /\ FailTask(t)
  /\ UNCHANGED <<given, scan, worker, outcome, fileLocks>>

Collect(t) ==
  /\ phase = "collecting" /\ t \in batch
  /\ batch' = batch \ {t}
  /\ phase' = IF batch = {t} THEN "checking" ELSE phase
  /\ Tally(t)

\* run_sequential goes on with the loop.
CollectSequential(t) ==
  /\ phase = "executing" /\ t \in Done
  /\ phase' = "scanning"
  /\ Tally(t)
  /\ UNCHANGED batch

\* Leaving the `with ThreadPoolExecutor` block joins the workers.
Shutdown ==
  /\ phase \in {"closing", "raising"}
  /\ \A t \in Tasks : worker[t] \in {"none", "finished"}
  /\ phase' = IF phase = "closing" THEN "over" ELSE "raised"
  /\ UNCHANGED <<given, scan, batch, sets, active, worker, outcome, entries, fileLocks>>

-----------------------------------------------------------------------------
\* The execution of one task, in a worker or in the scheduling thread.

Occupied == {t \in Tasks : worker[t] \in {"running", "returned"}}

TakeUp(t) ==
  /\ worker[t] = "queued" /\ Cardinality(Occupied) < MaxWorkers
  /\ worker' = [worker EXCEPT ![t] = "running"]
  /\ UNCHANGED <<given, phase, scan, batch, sets, active, outcome, entries, fileLocks>>

\* execute_transaction returns or raises.
Return(t) ==
  /\ worker[t] = "running"
  /\ \E o \in {"success", "failure"} \cup (IF given.parallel THEN {"exception"} ELSE {}) :
        outcome' = [outcome EXCEPT ![t] = o]
  /\ worker' = [worker EXCEPT ![t] = "returned"]
  /\ UNCHANGED <<given, phase, scan, batch, sets, active, entries, fileLocks>>

\* run_sequential has no handler: the exception leaves the run, and the locks stay.
Escape(t) ==
  /\ ~given.parallel /\ worker[t] = "running"
  /\ outcome' = [outcome EXCEPT ![t] = "exception"]
  /\ worker' = [worker EXCEPT ![t] = "finished"]
  /\ phase' = "raised"
  /\ UNCHANGED <<given, scan, batch, sets, active, entries, fileLocks>>

\* Mutant: the worker has no finally clause.
ReleaseUnlessRaised(t) ==
  /\ worker[t] = "returned" /\ phase # "scanning"
  /\ IF outcome[t] = "exception" THEN UNCHANGED fileLocks ELSE Release(t)
  /\ worker' = [worker EXCEPT ![t] = "finished"]
  /\ UNCHANGED <<given, phase, scan, batch, sets, active, outcome, entries>>

\* A worker's finally clause; state_lock is not to be had during a scan.
ReleaseLocks(t) ==
  /\ worker[t] = "returned" /\ phase # "scanning"
  /\ Release(t)
  /\ worker' = [worker EXCEPT ![t] = "finished"]
  /\ UNCHANGED <<given, phase, scan, batch, sets, active, outcome, entries>>

-----------------------------------------------------------------------------
Coordinate ==
  \/ CheckDone \/ EndScan \/ WaitReturns \/ Shutdown
  \/ \E t \in Tasks : \/ PassOver(t) \/ Skip(t) \/ LockBusy(t) \/ AcquireRaises(t)
                      \/ MissingProposal(t) \/ Dispatch(t)
                      \/ Collect(t) \/ CollectSequential(t)

Work(t) == TakeUp(t) \/ Return(t) \/ Escape(t) \/ ReleaseLocks(t)

Ended == phase \in {"over", "raised"} /\ UNCHANGED vars

Next == Coordinate \/ (\E t \in Tasks : Work(t)) \/ Ended

Spec == Init /\ [][Next]_vars

\* execute_transaction ends, because everything it runs has a timeout, and
\* neither the scheduling thread nor a worker is suspended for ever.
FairSpec == Spec /\ WF_vars(Coordinate) /\ \A t \in Tasks : WF_vars(Work(t))

-----------------------------------------------------------------------------
\* Properties.

InHand(t) == worker[t] \in {"queued", "running", "returned"}

\* "File locks prevent two concurrent tasks from modifying overlapping files."
NoOverlap ==
  \A t, u \in Tasks : (t # u /\ InHand(t) /\ InHand(u)) => ~Conflict(t, u)

\* A file is locked exactly while a task that needs it is in hand: none is
\* released early and none leaks, whatever execute_transaction raises in a
\* worker.  Only the locks an earlier run left behind, and those run_sequential
\* keeps when an exception leaves it, are exempt.
LocksFollowWorkers ==
  (given.parallel \/ phase # "raised") =>
     \A f \in Files, t \in Tasks \ {given.leftBy} :
        fileLocks[f] = t <=> (f \in FilesOf[t] /\ InHand(t))

\* "only its descendants are blocked/aborted": a task is aborted only downstream
\* of a failed one, though three places abort and a skipped task blocks its
\* descendants again.  In particular the final passes, which would abort every
\* task not accounted for, find none, unless stale locks bar a parallel run.
AbortedDownstream ==
  (given.parallel => given.leftBy = Free) =>
     \A t \in aborted : \E u \in failed : t \in Descendants(u)

\* A finished run has accounted for every task exactly once: in one of the
\* three lists of the summary, and with one entry.
AccountedOnce == phase = "over" => \A t \in Tasks : entries[t] = 1

\* No task upstream has failed, by its result or by an exception.
Independent(t) ==
  \A u \in Tasks : (u \in failed \/ outcome[u] \in {"failure", "exception"})
                      => t \notin Descendants(u)

\* "independent branches proceed to completion": when the run has ended every
\* task with a patch and without a failed task upstream has run.
IndependentsComplete ==
  phase \in {"over", "raised"} =>
     \A t \in given.proposed : Independent(t) => worker[t] = "finished"

\* They do when the run returns a summary and found no stale locks.
IndependentRan == (phase = "over" /\ given.leftBy = Free) => IndependentsComplete

\* A task that was taken up, whatever became of it, has everything upstream of it
\* completed, not only what it depends on itself.
UpstreamCompleted ==
  \A t \in Tasks : \A u \in Descendants(t) : worker[u] # "none" => t \in completed

\* Can the execution of the task go on? The queue waits for a free worker, and the
\* release of the locks for the end of a scan.
Movable(t) ==
  \/ worker[t] = "queued" /\ Cardinality(Occupied) < MaxWorkers
  \/ worker[t] = "running"
  \/ worker[t] = "returned" /\ phase # "scanning"

\* Nobody waits for nobody: until the run has ended the scheduling thread or one of the
\* workers can move. The scan always has a next task, whoever waits for results has some
\* outstanding, and whoever joins the workers joins workers that move.
NeverStuck ==
  \/ phase \in {"over", "raised", "checking"}
  \/ phase = "scanning" /\ scan = {}
  \/ phase = "scanning" /\ \E t \in scan : given.parallel \/ Deps[t] \cap scan = {}
  \/ phase = "collecting" /\ batch # {}
  \/ phase \in {"waiting", "executing"} /\ Done # {}
  \/ phase \in {"closing", "raising"} /\ \A t \in Tasks : ~InHand(t)
  \/ \E t \in Tasks : Movable(t)

Decided == completed \cup failed
Progress == [none |-> 0, queued |-> 1, running |-> 2, returned |-> 3, finished |-> 4]
Turn == CASE phase = "checking" -> 0
          [] phase = "scanning" -> 1
          [] phase \in {"waiting", "executing"} -> 2
          [] phase = "collecting" -> 3
          [] phase \in {"closing", "raising"} -> 4
          [] OTHER -> 5

Advance ==
  /\ Decided \subseteq Decided'
  /\ \/ Decided' # Decided
     \/ /\ \A t \in Tasks : Progress[worker[t]] <= Progress[worker'[t]]
        /\ \/ worker' # worker
           \/ Turn < Turn'
           \/ Turn = Turn' /\ scan' \subseteq scan /\ scan' # scan

\* The rescans of run_parallel never go round in a circle. Every step decides a task for
\* good or, with the decided ones unchanged, carries one execution further or, with the
\* executions unchanged as well, goes on to a later part of the turn or shortens its scan.
\* No result is collected twice and no task executed twice.
RunAdvances == [][Advance]_vars

\* The run always ends, with the tasks that wait for files or for stale locks
\* included.
RunEnds == <>(phase \in {"over", "raised"})

\* The scheduler implements DagRun.
Fate(t) ==
  IF t \in completed THEN "completed"
  ELSE IF t \in failed THEN "failed"
  ELSE IF t \in aborted THEN "aborted"
  ELSE IF InHand(t) THEN "running"
  ELSE IF worker[t] = "finished" THEN "ran"
  ELSE "waiting"

Run == INSTANCE DagRun WITH fate <- [t \in Tasks |-> Fate(t)],
                            barred <- (given.parallel /\ given.leftBy # Free)

\* Whatever the method, the order of the scans, of the workers and of their
\* results, a run of the scheduler is a run of the task graph.
ImplementsDagRun == Run!DagRunSpec
=============================================================================

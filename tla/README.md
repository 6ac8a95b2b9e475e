# Verification of dsh-pipeline

dsh-pipeline lets a language model change a repository. A model proposes a patch;
the pipeline checks it, applies and validates it in a git worktree of its own,
commits it there and fast-forwards the main branch. This directory models the parts
of that pipeline where state, concurrency and failure meet, checks them with TLC and
proves with TLAPS everything it checks but liveness.

## 1. The system

| Component | State | Operations | Hard because |
|---|---|---|---|
| Transaction engine (`core/runtime.py`, `core/workspace.py`) | main's HEAD and working tree, a worktree per transaction, the integration lock, the result under construction | `execute_transaction`, `create_transaction_worktree`, `integrate_transaction`, `remove_transaction_worktree`, `cleanup_orphaned_worktrees` | worker threads share one repository with each other and with a user; every git call can fail or be killed; the process can crash |
| Crash journal (`core/journal.py`) | a JSON file, and lazy updates in memory | `record_start`, `update_state`, `record_end`, `flush`, `get_orphaned` | whole-file rewrites, memory lost at a crash, errors of the file swallowed |
| Session budget (`safety/policy.py`) | lines spent, lines reserved | `reserve`, `commit`, `release`, `check_and_add`, `reset` | check-then-spend by concurrent callers, a dozen exits that must settle the reservation |
| DAG scheduler (`task/scheduler.py`), locks (`task/locks.py`), graph (`task/dag.py`) | completed, failed, aborted, blocked and active sets, file locks | `run_sequential`, `run_parallel` | scans, workers and results in any order; failures that must stop exactly what depends on them |
| Recovery loop (`recovery/`, `model/router.py`, `model/providers.py`) | attempt, history, last failure | `run_recovery_loop`, `route`, `generate` | retries of work that may be done already, hard stops, two nested retry loops |
| Worktree of an attempt (`core/workspace.py`, `validation/pipeline.py`) | files on disk, index, commit, cached git status | inject tests, simulate, write, verify, stage, commit | builds, tests, hooks and left-over processes write to the same directory |
| Patch engine (`safety/patch_engine.py`) | the text of one file | search and replace hunks, write the file | unique matches, newlines converted on reading and again on writing, hunks that see each other's result |
| Validation (`validation/`) | the baseline of each base commit, cached | measure, compare, tiers T1 to T3 | a cache without a lock, suites that hang or die |
| Scope guard, AST guard (`safety/`) | none | verdict on a patch | path and syntax rules of four languages |
| Sandbox (`build/sandbox.py`) | a process group, a pipe, a timeout | `run_hardened_command`, `terminate_process_tree` | signals, children and the timeout in any order |
| Cloud queue (`taskqueue/cloud_worker.py`) | status of each task on a server | fetch, claim, run, update | claims without compare-and-set, lost and late updates |
| Orchestrator (`orchestrator/`) | manifest of a run, red tests in main's working tree | plan, smoke check, run, review | review after integration, an exception or crash half-way, files that cannot be read or written, ids that repeat |
| Command line (`cli.py`) | configuration of the runtime | seven commands | options, environment and defaults meet in two places |
| Context (`context/`), reconnaissance (`recon/`), memory (`memory/`) | a database of symbols and mappings, episodes | build a prompt, diff versions, retrieve | budgets, stale mappings |

They interact by calls. The scheduler, the cloud worker, the orchestrator and the
command line call the recovery loop or the engine; the engine's threads share the
repository, the journal, the budget and the baseline cache; the scheduler's workers share
the lock table; every git command, build and test goes through the sandbox.
What makes each component correct is listed with its properties in section 3;
`PROJECT.json` lists every hazard at its line.

## 2. Modules

    IntegrationLog  <--implements--  Transaction --INSTANCE--> TransactionJournal
                                        |     \---INSTANCE--> SessionBudget
                                        |---INSTANCE--> Outcomes <--INSTANCE-- Recovery
    TransactionProofs EXTENDS Transaction;  TransactionEndProofs EXTENDS TransactionProofs
    TransactionBudgetProofs EXTENDS TransactionEndProofs, SumProofs
    SchedulerProofs EXTENDS Scheduler;      StoresProofs EXTENDS MCStores, SumProofs
    CallersProofs EXTENDS Recovery, CloudQueue, Coordinator, CommandLine
    AttemptProofs EXTENDS Sandbox, Worktree, PatchEngine, SequenceTheorems, SumProofs
    DagRun          <--implements--  Scheduler --EXTENDS--> ResourceLocks --> TaskGraph

    MCStores    drives one of  TransactionJournal, SessionBudget, Validation
    MCWorktree  drives one of  Sandbox, Worktree, PatchEngine
    MCCallers   drives one of  Recovery, CloudQueue, Coordinator, CommandLine (all over Outcomes)

A module that "drives one of" several chooses at the start which component moves and leaves
the others idle: the run explores the disjoint union of their state spaces, and a property
of one component says nothing about a behaviour of another.

**Transaction** is the core. `pc[t]` says where the thread that executes transaction `t` is;
there is one action per step at which another thread, the user or a crash can interfere: each
git call, each journal update, each budget operation and each check under the integration lock.
Steps that touch only a thread's own worktree are merged with the journal update next to them.
Releasing the budget and updating the journal, two adjacent calls on stores that share nothing,
are one action. `main` is the sequence of commits made since the start, and a commit is named by
the transaction or the user that made it; `base[t]` is main as `t` read it. The git merge is a
compare-and-swap (`--ff-only`). The content of patches, prompts and builds is a nondeterministic
verdict. Exceptions go through `Raise` from every step that calls git, the file system or a
validator. `config` is the circumstance of a behaviour, fixed at the start: which faults may
happen, whether there is an operator, dry run, runner, and the size of the patches. A property
that a fault breaks is stated for behaviours without that fault, and names it. The fault kinds
are `git` (a command fails), `prune` (cleanup raises), `rmtree` (cleanup is silently
incomplete), `timeout` (a command is killed after it took effect), `journal` (the file cannot be
read or written) and `crash`.

**TransactionJournal** and **SessionBudget** are the two shared stores. Every method
holds a lock for its whole body, so each is one action. The engine composes them by
INSTANCE; `MCStores` also drives them with arbitrary callers.

**IntegrationLog** is the abstract specification of the engine: main is an append-only
log; a transaction takes a snapshot, and lands only if the log is still that snapshot.

**Outcomes** is the contract between the engine and the recovery loop: the possible
combinations of success, commit hash, class of failure and fate of the commit.
`Transaction` is checked to guarantee it (`EndsAsPromised`) and `Recovery` assumes it.

**Scheduler** models both methods of `DAGScheduler`; `given` fixes which one runs, the
tasks that have a patch, those with a malformed path and the owner of locks left by an
earlier run. `phase` is the scheduling thread, `worker[t]` the call of
`execute_transaction`. A scan of `run_parallel` holds `state_lock`, so workers cannot
release locks during it; this is the guard of `ReleaseLocks`. **ResourceLocks** and
**TaskGraph** are the lock manager and the graph. The orders of Kahn's algorithm and of
Python's sets are left open: any topological order and any order of the ready tasks.

**DagRun** is the abstract specification of a run: a task starts once, after its
dependencies completed and while no running task shares a file with it, and is given up
only downstream of a failure or when stale locks bar it.

**Recovery** is the loop with the router, the classifier and the provider's HTTP
retries. `kept` records what each executed attempt left of its commit.

**Sandbox** is one external command: the leader, the processes it forks, who is alive, in
the group, holds the pipe and has got which signal; and `caller`, the position in
`run_hardened_command` and `terminate_process_tree`. `nature` fixes which processes ignore
SIGTERM, cannot be killed, or leave the session. Time is left out, except that the kernel
ends killed processes before a caller's one-second wait is over (`KilledAreGone`).

**Worktree** refines, for one transaction, the steps that Transaction merges into its
validation and commit: each path has a content on disk, in the index and in the commit. A
content is what it started from (base, red test, holdout test, foreign) and whether the
patch is in it. `OtherWrites`, `OtherStages` and `OtherCommits` are everybody else, at the
points where they can run; `prior` is the parent of HEAD, the only commit that the check after
the commit compares with. `Status` is what the code sees of `git status`: the name of an
untracked directory for the files in it, nothing of ignored files, and of a staged rename the
new path only. Which files git takes for renamed depends on how similar they are, so any
pairing of deleted with added files may be one (`Renames`). `cache` is the status that the code
keeps between two mutations. A path is allowed when it begins with an allowed name, as a string
(`Begins`).

**PatchEngine** is `apply_hunks` and `atomic_write_file` for one file, a file and a text being
sequences of characters, two of which are carriage return and line feed (`Symbols`; one letter
besides in the runs). `Unix` is what `read_text` makes of a file, where a carriage return of its
own becomes a line feed, too; `InStyle` is what is written, which folds Windows newlines and
puts them back if the old file has any. `LocateUnique` is the code's search in the text;
`Edits` and `EditsOfAll` define, on the file as it is, what replacing a hunk and several of
them in place means.

**Validation** is the baseline and the tiers of several threads. `health` says of each
revision what its build and its suites come to; `Reports` turns it into the messages the
validators compare, which is not the same for a suite that hangs or dies.

**CloudQueue**: `status` is the server's, `batch` and `at` are the workers'. `Update` is the
unconditional PATCH with its three fates, arrived, lost, late. The recovery loop inside a
run is an outcome of **Outcomes**.

**Coordinator** is `AutonomousCoordinator.run`: `plan` and `turn`, the smoke check of the
red test in main's working tree (`strays`), the task, its review and the manifest. Anything
that raises ends the run; a write of the red test that fails leaves what it has written
(`HideRedTestFails`). The manifest is replaced when it cannot be read (`Record`: from task
`since` on it is complete), and a run that starts in the same second as the one before it
takes over its manifest (`ManifestInit`; `earlier` is what was in it). `StartAgain` is a later
start on the repository it left.

**CommandLine** follows the build and test commands from options and environment through
the configuration to the runners that `DSHRuntime.__init__` chooses, once; then runs and exits.

## 3. What the runs check

| Run | Instance | Question |
|---|---|---|
| `tx` | 2 transactions, 1 user commit, unbounded user edits, 1 crash, 6 regimes of faults | see below |
| `tx_ends` | 2 transactions, git and prune faults, 1 crash, weak fairness | `TransactionsEnd` |
| `stores` | journal of 2 transactions; budget with 3 callers; baseline of 2 threads, 2 revisions in 5 states of health | the shared stores |
| `dag` | diamond a -> b, c -> d plus e that shares a file with d, 2 workers for up to 3 ready tasks, weak fairness | see below |
| `recovery` | 3 attempts as in the code, 2 HTTP retries; 2 tasks, 2 workers, 1 crash; 2 starts of the coordinator on 4 plans; all options of the 7 commands | the callers of the engine |
| `worktree` | a leader and 2 children; 4 paths, 2 writes by others, 7 setups; files of up to 5 characters, 2 hunks | one attempt on the disk |
| `tx_wiped`, `tx_uncleaned`, `dag_escape`, `orphans`, `newdir`, `flags` | as above, smaller | expected violations |

Run `tx` checks: a commit on main sits on the base it was built from (`LandedOnBase`); no two
merges race (`NoRacingMerge`); the status tells whether the commit is on main
(`OutcomeTruthful`, `EndsAsPromised`); nothing is left behind unreported (`NoResidue`),
pending worktrees are kept (`PendingIsRetained`) and orphan detection misses none
(`RecordedWorktrees`); the integration lock is held exactly by the living thread that
integrates (`LockFollowsThread`); reservations live exactly as long as needed, are charged
exactly for the reported successes, and keep what lands within the limits
(`ReservationLifetime`, `SpentIsReported`, `LandedWithinLimits`); and the engine refines the
log (`ImplementsLog`).

Run `stores` checks that the budget never promises more than its limits
(`WithinSessionBudget`), that a rewrite of the journal keeps the lazy updates of the others
(`RewriteKeepsOthers`), and that a change that passes fails nothing that passes at its own
base, whoever measured that base (`NothingNewBroken`).

Run `dag` checks that no two running tasks share a file and locks follow their workers
(`NoOverlap`, `LocksFollowWorkers`), that exactly what depends on a failure is aborted, each
task is accounted for once and independent ones ran (`AbortedDownstream`, `AccountedOnce`,
`IndependentRan`), that somebody can always move (`NeverStuck`) and the run ends (`RunEnds`),
and that it refines `DagRun` (`ImplementsDagRun`).

Run `recovery` checks of the loop that at most one attempt leaves a commit, and the last
(`OneCommitPerTask`), that the answer tells what was left (`AnswerTruthful`), that each retry
knows all failures before it and none of them forbids a retry (`HistoryComplete`), and that it
ends (`LoopEnds`); of the queue that COMPLETED is true with lost and late updates, that
without them no task is run twice by one worker (`QueueTruthful`) and every task is settled
but those whose run was cut short (`ItemsSettle`); of the coordinator that wherever it stops
its manifest tells, for each id, the fate of the last task with it, unless it could not be
read, that a report of success means that all was landed and reviewed, and that a red test is
left in main only by a crash, a failed write or a failed removal (`RunAccounted`); of the
command line that nothing lands without `--commit` and a real build, and the exit code can be
relied on (`LandsAsAsked`).

Run `worktree` checks of a command that nothing killable of the group survives a timeout
unless the leader had ended (`SurvivorsExplained`), that "passed" means ended, with the output
closed (`PassedIsComplete`), and that the caller comes back (`CommandReturns`); of the
worktree that only the proposal's files enter what is merged, whoever stages what meanwhile
(`CommitConfined`), that both checks of the changes judge what git shows as it is, so that
neither a status from before a build, a test or a hook nor an injected test misleads them
(`ChangesJudged`), and that what is committed is what was tested, with the injected tests in
place (`CommittedAsTested`); of the patch engine that a written file differs from the old one,
and exactly where its hunks say (`EditedInPlace`).

Six runs expect a violation, because the code does something other than what its text
or tests say:

* `tx_wiped`: `cleanup_orphaned_worktrees` deletes the retained worktree of a pending
  transaction. A test of the repository states the opposite and fails for this reason.
  Nothing in the production code calls the function, so it is an operator's action here.
* `tx_uncleaned`: a patch that landed, but whose worktree could not be removed, is not
  charged to the session's budget.
* `dag_escape`: an exception of `execute_transaction` ends a sequential run, leaving
  independent tasks unexecuted and locks held.
* `orphans`: `terminate_process_tree` returns when the leader has ended between the timeout
  and the poll, and the rest of the group lives on.
* `newdir`: git's status names an untracked directory, not the file in it, so that a red test
  in a new directory makes every change "unexpected", a hard stop.
* `flags`: `prompt` stores `--build-cmd` and `--test-cmd` after the runtime has chosen its
  runners, so they have no effect.

Smaller disagreements and limits are visible as exemptions in the properties:

* Engine: a merge killed after it moved main is reported READY_TO_INTEGRATE
  (`OutcomeTruthful`, fault `timeout`). A crash between `git worktree add` and `record_start`
  leaves a worktree nobody lists (`RecordedWorktrees` exempts step `added`, though the comment
  in `update_state` says that orphan detection never depends on intermediate states).
  `record_start` ignores a failed write (fault `journal`).
* Scheduler: one malformed path abandons a whole parallel run (`AcquireRaises`), whose
  remaining tasks then appear in no list.
* Worktree: the coordinator's callback swallows a failed injection, so a task can pass
  without its red test (`lost` in `CommittedAsTested`). A test whose name matches no forbidden
  pattern is open to the proposal (`exposed`). The runtime's comment puts the callback before
  the baseline; the code injects after it, and the model follows the code.
  A build, hook or left-over process that commits by itself can bring other files into what is
  merged, since only the last commit is looked at (`committer` in `CommitConfined`). Of a staged
  rename only the new path is judged, so that the check that is to "detect unexpected post-hook
  mutations" accepts a tracked file moved to an allowed path, and ignored files are in no status
  (`Moved` and `Ignored` in `Tolerable`). Neither enters main.
* Patch engine: of a file that mixes newlines, or has a carriage return of its own, every line
  is rewritten, and a carriage return in a hunk is folded away or left alone by what stands
  around it (`Straight` in `EditedInPlace`). So a hunk that only turns one kind of newline into
  the other is no no-op to `apply_hunks`, and yet the file is written as it was. A second match
  that overlaps the first is not counted, so "exactly once" means once apart from overlaps
  (`Edits`).
* Validation: a base whose suite hung or died excuses the same message of the change
  (`Excusable`).
* Queue: with lost updates a task can run twice, and one that raised stays RUNNING
  (`reliable`, `abandoned`).
* Coordinator: a task with the id of an earlier one overwrites its entry in the manifest, and a
  manifest that cannot be read loses all of them, without a word (`LastWith` and `Known` in
  `ManifestFollows`). A rejecting review changes nothing, `max_tasks` is only part of the prompt, an
  empty plan succeeds, and a review that raises leaves a landed task without an entry.
* Command line: `demo` exits with zero whatever happens, and `dag` without commands runs mocks.

**Bounds.** Two transactions suffice for every race: the integration lock, the budget and the
journal are each contended by two, and the transactions are otherwise alike (they are a symmetry
set in `tx`). One user commit can fall before, between or after the steps of both, edits are
unbounded, and one crash can hit any step. `MaxAdded` = 3 with patches of two lines makes the
second patch the one that does not fit. Three attempts are the code's own number; two HTTP
retries distinguish a first, a middle and a last one. The diamond has a common descendant of two
failures, b, c and e compete for two workers, so that one of them waits in the queue of the
pool, and e competes with d for a file. Two children are a process that outlives its parent and
one forked by another; two foreign writes can undo each other or hit two paths; the setups range
from no other writer to hooks alone to commands, hooks and left-over processes together, with a
committer, with an ignored file and without the injected tests, and let the proposal overlap the
red and the holdout test. The name of one file begins with that of a directory beside it. Files
of five characters hold two overlapping or separate matches of two characters with one more, or
two Windows newlines with one character, and two hunks are a hunk that sees the other's result.
`MaxRuns` = 2 lets a task be run again, `MaxLate` = 1 lets one update overtake others; two
workers are combined with reliable updates only and one worker with unreliable ones
(`FewRegimes`), since with unreliable ones only COMPLETED is claimed to be true, and one worker
can break that as well as two. Two rounds of the coordinator show what a run leaves to the next,
and the four plans hold a repeated id, a repeated test, no test and no task. The five states of
health are a failure in either suite, no build, and suites that hang and die; checks are on for
both suites or for none.

**Fairness.** Weak fairness of each thread: every git command, build and request has a
timeout and an exception handler, so a thread in a transaction always reaches its next
step, and threads are not suspended for ever. The recovery loop (`RecoveryFairness`) and each
worker of the queue (`QueueFairness`) are such threads. In `Sandbox` the caller is, because it
only ever waits with a timeout, and the kernel is, which delivers a signal that a process
neither ignores nor is stuck for; the processes themselves need not do anything. Nothing is
assumed of the user, a crash, the operator or a late update, nor that a transaction is ever
started.

`CHECK_DEADLOCK FALSE` where a behaviour really ends: the transactions of a finite set
(`tx`, `tx_ends`), a command and an attempt (`worktree`, `newdir`, `orphans`).

## 4. What is proved

Every invariant, action property and refinement that a passing run checks is also proved for
all values of the constants. Besides these there are theorems that no run checks: the type
invariants of the engine and the scheduler, `UpstreamFirst`, and the two action properties
`RunGetsOn` and `RecoveryGetsOn`. The proofs use the assumptions on the constants that the
modules name, and no others: sets of transactions, tasks and workers are finite, task graphs
are acyclic, limits are natural numbers, the messages a runner writes of itself are not the
names of tests (`HealthAssumption`: the validators pick failing tests by words that those
messages lack).

| Module | Theorems | Invariant |
|---|---|---|
| `TransactionProofs` | `TypeCorrect`, `ReservationsLive`, `LockNeverLeaks`, `MergesDoNotRace`, `EngineImplementsLog` | `TypeOK /\ StepsKnow` |
| `TransactionEndProofs` | `MainIsSerial`, `StatusIsTrue`, `ContractKept`, `NoUnknownWorktree`, `CleanedUp`, `PendingStays` | `LandedOnBase`, `ResultsGrow`, `StoresAgree` |
| `TransactionBudgetProofs` | `SpentTruthful`, `LimitsKept` | `BooksBalance` |
| `StoresProofs` | `BudgetHolds`, `PassedBreaksNothing`, `OthersKept` | `BudgetInv`, `ValidationInv` |
| `SchedulerProofs` | `SchedulerTypeCorrect`, `FilesNotShared`, `LocksExact`, `OnlyDescendantsAborted`, `SummaryComplete`, `IndependentBranchesRan`, `UpstreamFirst`, `RunNeverStuck`, `RunGetsOn`, `SchedulerImplementsDagRun` | `SchedulerInv` |
| `CallersProofs` | `RecoveryTypeCorrect`, `NoDuplicateCommit`, `AnswersAreTrue`, `HistoryKept`, `RecoveryGetsOn`, `QueueIsTruthful`, `RunIsAccounted`, `CommandObeys` | `RecoveryInv`, `QueueInv`, `CoordinatorInv`, `CommandInv` |
| `AttemptProofs` | `GroupIsKilled`, `PassIsComplete`, `CommitIsConfined`, `ChangesAreJudged`, `CommitWasTested`, `PatchIsInPlace` | `SandboxInv`, `WorktreeInv`, `PatchInv` |

**The engine.** `TypeOK` alone is not inductive, since publishing a status needs to know that
one was decided. `StepsKnow` says what each step of a thread implies about its status, whether
it owns the integration lock (exactly where `LockFollowsThread` says), its reservation and
whether its commit may be on main. The proof has one case per action; a thread's step leaves
the knowledge of the others alone (`OthersUntouched`), so that only its own has to be
re-established (`OwnStep`). `MergesDoNotRace` follows since a thread between its check of HEAD
and its merge holds the lock. For `EngineImplementsLog` every step maps to a step of the log
or a stutter; `OneFate` shows that a step changes the fate of one transaction at most, and a
crash is a step of the log that closes a set.

`LandedOnBase` is proved by way of the log: every step of the log keeps it (`LogKeepsLanded`),
and every step of the engine is one. The properties of ended transactions have to be followed
from the decision on: `ResultsGrow` says how the result of a thread grows with its steps,
status first, then failure, success last, and that INTEGRATED is never said of a commit that is
not on main. `StoresAgree` says at which steps worktree and journal record must and must not be
there: without a swallowed fault nothing is lost (`NothingLost`), without an operator and a
failing journal file nothing needed is removed (`Retained`). `BooksBalance` ties the budget to
the threads: a reservation that is held is for the cost of its patch, what is spent is the sum
over the transactions whose success was reported, and those and the held ones together fit the
limits.

**Sums.** The budget adds up reservations with `MapThenSumSet`, a recursion over a set.
`SumProofs` has what the proofs need of it (a sum without or with one more element,
monotony, disjoint unions), for any finite set. An induction principle cannot be instantiated
by the provers in use; instead each lemma takes a smallest counterexample, which exists because
cardinalities are well-founded (`LeastNumber`, `SmallestSubset`), and derives one that is smaller.

**The stores.** `BudgetInv` is type correctness with the property. `ValidationInv` says that a
cached baseline under a key is the report of that revision, and what a thread has measured is
a report of its base. `OthersKept` is an action property of the
journal; its type invariant is all it takes.

**The scheduler.** `SchedulerInv` (in `SchedulerProofs`) has, besides the types, five parts:
the lists of the summary are disjoint, and a task has one entry once it is in one
(`ListsKept`); what the scheduling thread believes of its workers is true (`WorkersKept`); a
task in hand has all its files, and nobody else but stale owners has any (`LocksKept`); tasks
run after their dependencies, and what is blocked is what is downstream of a failure
(`FailuresKept`); and what each phase of the scheduling thread has left behind (`PhaseKept`).
TLC checked it on the instance of `dag` first. Descendants are a least closed set, whose laws
(`DescendantsReached`, `DescendantsTransitive`, ...) are proved from the acyclicity of the
graph. For the refinement each action is shown to change the fate of the tasks it is about,
and of no other, as a step of `DagRun`.

**The callers.** While the recovery loop goes on, no attempt has left anything behind (`GoesOn`);
whatever leaves something also ends the loop. The queue needs to know what is under way:
whoever reports a task as completed, in hand or in a late update, has landed it
(`ReportsMeant`); where updates arrive a task in hand is no longer PENDING (`StatusFollows`);
and a worker that is alone has not run what is still in its batch (`AloneRunsOnce`). The
manifest of the coordinator is followed by the existence of a last task for every entry
(`EntriesKept`) that is not from another run, so that no maximum has to be computed; the tasks
it knows of are those since it last could not be read. `OutcomeFacts` spells out the contract
of `Outcomes`, which `ContractKept` proves of the engine.

**The attempt.** Once the caller has sent SIGKILL to the group, or found it empty, a member
that is left has it pending and forks no more, so that the group gets no member it does not
know (`KilledKept`). In the worktree the steps are grouped by what the files of a path are by
then, on disk, simulated, tested, staged and committed, as long as nobody else has touched it
(`ProposedKept`, `InjectionsKept`); and the cache of the status is empty up to the tests and
again from staging to the hooks, so that what the two checks of the changes go by is the
status as it is, unless a left-over process writes just then (`ChecksKept`). `CleanStatus` and
`DirtyStatus` say what such a status tells of the files, however git pairs them off as renamed.

**The patch.** `PatchInv` says that the text, put into the newlines of the file, is one
of the results of the hunks so far (`ResultsSoFar`), edited in place in the file itself, while
the code edits the converted text; as the property, it leaves out files that mix newlines and
hunks with carriage returns (`Straight`). Four groups of lemmas carry the step. What a fold over a
list of hunks computes is not open to the provers either; `Solves` says when a function on the
subsets of 1..n obeys its recursion, a smallest counterexample shows that there is exactly one
such function (`SolutionExists`, `SolutionIsUnique`), and so one more hunk edits what those
before it made (`EditsOfOneMore`). The same is done for the concatenation of a list of pieces,
one for each character (`GlueExists`, `GlueIsUnique`, `FlattenConcat`). With it, converting
newlines is shown to commute with putting texts together, unless a Windows newline is torn
apart (`UnixJoin`, `WindowsJoin`, `StyledEdges`), and there and back is the identity unless the
file mixes newlines (`UnixOfWindows`, `WindowsOfUnix`). And of the first match that has no
further one behind its end, `LeastOccurrence`, `PlacesApart` and `HunkEdits` show that it is a
place of the hunk in the file, although a match there has more characters than in the text, and
that no two places are apart from each other. The search for a second match from the end of the
first is enough for that, because a pair of separate matches anywhere implies one that starts
with the first.

**Termination, the part that is safety.** The provers do not reason about fairness, but what
makes the loops end is safety and proved. `RunGetsOn` orders the steps of a run: each decides
a task for good, or carries one execution further, or goes on in its turn or shortens the scan
(`RunAdvances`); for finitely many tasks there are only so many of these. `RunNeverStuck` says
that before the end somebody can move. With `SchedulerTypeCorrect` and weak fairness this is
`RunEnds` but for the last, temporal, inference. `RecoveryGetsOn` with `RecoveryTypeCorrect`
does the same for `LoopEnds`: the attempts only grow and are bounded, and so are the requests
within each. For the engine `LockNeverLeaks` excludes the only wait that has no timeout, a
lock whose owner has left.

**Only model-checked.** The liveness properties `TransactionsEnd`, `RunEnds`, `LoopEnds`,
`ItemsSettle` and `CommandReturns`, since the provers in use do not reason about fairness and
ENABLED. The expected violations are counterexamples, which only TLC finds.

## 5. Not modelled

* The language drivers and the AST guard: data processing on the syntax trees of four
  languages, without state. Their verdict is a choice of `Transaction`.
* The path patterns and text scans of the scope guard, path normalisation and the size
  limits of a patch: likewise a verdict. The order of the checks and the test-file lockdown are
  modelled.
* Context builder and ranker, reconnaissance and evidence: they supply a prompt and a
  confidence, which `Recovery` takes as inputs, with CONTEXT_BUDGET_EXCEEDED as a result.
* Episodic memory: its errors are swallowed, its answers only advisory.
* The mutation gate, which the runtime never installs; tests that pass or fail by chance; the
  worker's `max_iterations`; truncation of output and history; the theme script; the wording of
  prompts, logs and lessons.
* More than one process on one repository: the journal's own comment puts it out of scope.

## 6. Plan

1. Core, done: engine, journal, budget, scheduler, recovery, proofs about the engine.
2. The attempt and the callers, done: sandbox, worktree, patch engine, validation, cloud queue,
   coordinator, command line.
3. Proofs of the invariants, action properties and refinements, done (section 4).
4. Algorithms: Kahn's sort, cycle detection and the breadth-first descendants against the
   definitions in `TaskGraph`; the budget of a prompt's sections; freshness of a mapping.
5. Scheduler over IntegrationLog: parallel tasks of one base, and what becomes of the
   stale ones.
6. More proofs: the patch engine, progress and the integration lock, done (section 4); the
   abstract specifications, for what else they imply.

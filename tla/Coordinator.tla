---------------------------- MODULE Coordinator ----------------------------
(***************************************************************************)
(* orchestrator/coordinator.py (AutonomousCoordinator.run) with the calls  *)
(* of planner.py and subagents.py: plan tasks, and for each check that its *)
(* red test is discovered, run it, have it reviewed and record it in the   *)
(* manifest of the run. Anything that raises ends the run.                 *)
(***************************************************************************)
EXTENDS Naturals, Sequences, Outcomes

CONSTANTS
  Plans,     \* the plans QA may make: sequences of [id, red]
  NoTest,    \* red of a task without a test file, or without code for it
  MaxRounds  \* how often the coordinator is started: a bound of the model

ASSUME RoundsAssumption == MaxRounds \in Nat

VARIABLES
  dryRun, rounds,
  plan, turn,      \* the plan and the position of the current task
  stage,
  result,          \* the outcome of the current task
  fates,           \* the outcomes of the tasks of this run so far
  reviewed,        \* the positions of the tasks with a valid verdict
  manifest,        \* status by task id
  since, earlier,  \* the first position and the older entries it still tells of
  overall,         \* overall_success
  strays,          \* the red tests in main's working tree
  excused          \* those left by a crash, a failed write or a failed unlink

manifestVars == <<manifest, since, earlier>>
coVars == <<dryRun, rounds, plan, turn, stage, result, fates, reviewed, manifestVars,
            overall, strays, excused>>

Current == plan[turn]
Over == {"reported", "aborted", "crashed"}

CoordinatorInit ==
  /\ dryRun \in BOOLEAN /\ rounds = 1 /\ stage = "planning"
  /\ plan = <<>> /\ turn = 1 /\ result = Failed("NONE") /\ fates = <<>> /\ reviewed = {}
  /\ manifest = <<>> /\ since = 1 /\ earlier = <<>>
  /\ overall = TRUE /\ strays = {} /\ excused = {}

NextStage(s) ==
  /\ stage' = s
  /\ UNCHANGED <<dryRun, rounds, plan, turn, result, fates, reviewed, manifestVars, overall,
                 strays, excused>>

\* No answer, no JSON or none of the schema; no command line for the subagent.
Raises == stage \in {"planning", "executing", "reviewing", "recording"} /\ NextStage("aborted")

\* _manifest_init: the run's directory is named by the second, so that it may be the
\* last run's, with its manifest.
ManifestInit ==
  \/ manifest' = <<>> /\ earlier' = <<>>
  \/ UNCHANGED <<manifest, earlier>>

\* audit_and_plan (max_tasks is only part of the prompt), and the manifest of the run.
Plan(p) ==
  /\ stage = "planning"
  /\ plan' = p /\ turn' = 1 /\ stage' = "checking"
  /\ ManifestInit
  /\ UNCHANGED <<dryRun, rounds, result, fates, reviewed, since, overall, strays, excused>>

\* No test, no command for it, or one whose last line of output is no number.
SkipSmokeCheck ==
  /\ stage = "checking" /\ turn <= Len(plan)
  /\ NextStage("executing")

\* The tests are counted and the red test, when main has no such file, put there.
HideRedTest ==
  /\ stage = "checking" /\ turn <= Len(plan)
  /\ Current.red \notin strays \cup {NoTest}
  /\ strays' = strays \cup {Current.red} /\ stage' = "counting"
  /\ UNCHANGED <<dryRun, rounds, plan, turn, result, fates, reviewed, manifestVars, overall,
                 excused>>

\* The write fails in the middle, as on a full disk or of a text that has no encoding.
\* It is outside the try statement that removes the test.
HideRedTestFails ==
  /\ stage = "checking" /\ turn <= Len(plan)
  /\ Current.red \notin strays \cup {NoTest}
  /\ strays' = strays \cup {Current.red} /\ excused' = excused \cup {Current.red}
  /\ stage' = "aborted"
  /\ UNCHANGED <<dryRun, rounds, plan, turn, result, fates, reviewed, manifestVars, overall>>

\* The test is there already, so that both counts are the same; the command cannot be
\* split into words; or the test's file cannot be opened.
RefuseStray ==
  /\ stage = "checking" /\ turn <= Len(plan) /\ Current.red # NoTest
  /\ NextStage("aborted")

\* Mutant: the red test is only removed when it was discovered.
CountAndKeep(found) ==
  /\ stage = "counting"
  /\ strays' = IF found THEN strays \ {Current.red} ELSE strays
  /\ UNCHANGED excused
  /\ stage' = IF found THEN "executing" ELSE "aborted"
  /\ UNCHANGED <<dryRun, rounds, plan, turn, result, fates, reviewed, manifestVars, overall>>

\* The second count, and the removal, whose failure is ignored.
Count(found) ==
  /\ stage = "counting"
  /\ \/ strays' = strays \ {Current.red} /\ UNCHANGED excused
     \/ excused' = excused \cup {Current.red} /\ UNCHANGED strays
  /\ stage' = IF found THEN "executing" ELSE "aborted"
  /\ UNCHANGED <<dryRun, rounds, plan, turn, result, fates, reviewed, manifestVars, overall>>

\* What the recovery loop may return: main is dirty with another task's test.
MayReturn(o) ==
  IF dryRun THEN ~o.committed
  ELSE o # DryRunPassed /\ (strays \ {Current.red} # {} => o.kept # "landed")

ExecuteTask(o) ==
  /\ stage = "executing" /\ MayReturn(o)
  /\ result' = o /\ fates' = Append(fates, o)
  /\ overall' = (overall /\ o.success)
  /\ stage' = IF o.success THEN "reviewing" ELSE "recording"
  /\ UNCHANGED <<dryRun, rounds, plan, turn, reviewed, manifestVars, strays, excused>>

\* Approved or rejected: the verdict is put in the report.
Review ==
  /\ stage = "reviewing"
  /\ reviewed' = reviewed \cup {turn} /\ stage' = "recording"
  /\ UNCHANGED <<dryRun, rounds, plan, turn, result, fates, manifestVars, overall, strays, excused>>

Entry(o) == IF o.success THEN "PASSED" ELSE "FAILED"

\* Mutant: an entry that is there is kept.
EntriesOfFirst(known) ==
  [i \in DOMAIN known \cup {Current.id} |-> IF i \in DOMAIN known THEN known[i] ELSE Entry(result)]

\* data["tasks"][task_id] = entry: a later task with the same id takes its place.
EntriesWith(known) ==
  [i \in DOMAIN known \cup {Current.id} |-> IF i = Current.id THEN Entry(result) ELSE known[i]]

\* _manifest_update: when the manifest cannot be read, a new one takes its place.
Record ==
  /\ stage = "recording"
  /\ \/ manifest' = EntriesWith(manifest) /\ UNCHANGED <<since, earlier>>
     \/ manifest' = EntriesWith(<<>>) /\ since' = turn /\ earlier' = <<>>
  /\ turn' = turn + 1 /\ stage' = "checking"
  /\ UNCHANGED <<dryRun, rounds, plan, result, fates, reviewed, overall, strays, excused>>

Report == stage = "checking" /\ turn > Len(plan) /\ NextStage("reported")

\* The process dies; a red test that is being counted stays in main.
Crash ==
  /\ stage \notin Over
  /\ stage' = "crashed"
  /\ excused' = IF stage = "counting" THEN excused \cup {Current.red} ELSE excused
  /\ UNCHANGED <<dryRun, rounds, plan, turn, result, fates, reviewed, manifestVars, overall,
                 strays>>

\* A later start, on the same repository.
StartAgain ==
  /\ stage \in Over /\ rounds < MaxRounds
  /\ rounds' = rounds + 1 /\ stage' = "planning"
  /\ plan' = <<>> /\ turn' = 1 /\ result' = Failed("NONE") /\ fates' = <<>> /\ reviewed' = {}
  /\ since' = 1 /\ earlier' = manifest /\ overall' = TRUE
  /\ UNCHANGED <<dryRun, manifest, strays, excused>>

Finished == stage \in Over /\ rounds = MaxRounds /\ UNCHANGED coVars

CoordinatorNext ==
  \/ Raises \/ SkipSmokeCheck \/ HideRedTest \/ HideRedTestFails \/ RefuseStray
  \/ Review \/ Record \/ Report \/ Crash \/ StartAgain \/ Finished
  \/ \E p \in Plans : Plan(p)
  \/ \E found \in BOOLEAN : Count(found)
  \/ \E o \in TransactionOutcomes : ExecuteTask(o)

CoordinatorSpec == CoordinatorInit /\ [][CoordinatorNext]_coVars

-----------------------------------------------------------------------------
\* Properties.

Behind == 1..(turn - 1)

\* The tasks behind us that the manifest still knows of.
Known == since..(turn - 1)

\* The last of them with that id.
LastWith(i) == CHOOSE k \in Known : /\ plan[k].id = i
                                    /\ \A j \in Known : plan[j].id = i => j <= k

ManifestFollows ==
  /\ DOMAIN manifest = DOMAIN earlier \cup {plan[k].id : k \in Known}
  /\ \A i \in DOMAIN manifest :
        manifest[i] = IF \E k \in Known : plan[k].id = i THEN Entry(fates[LastWith(i)])
                      ELSE earlier[i]

ReportTruthful ==
  stage = "reported" =>
    /\ overall <=> \A k \in Behind : fates[k].success
    /\ \A k \in Behind : fates[k].success => k \in reviewed
    /\ overall /\ ~dryRun => \A k \in Behind : fates[k].kept = "landed"

MainRestored ==
  \A f \in strays : f \in excused \/ (stage = "counting" /\ f = Current.red)

\* Wherever a run stops, by itself, by an exception or a crash, its manifest has, for
\* the tasks behind it, one entry for each id and in it the fate of the last task with
\* that id: what a task before it with the same id came to is not told. Entries are lost
\* only when the manifest cannot be read, all of them at once, and those of another run
\* appear only when both started in the same second. A run that reports success has
\* landed and had reviewed all its tasks. A red test is in main's working tree only
\* while it is counted, unless a crash, a failed write or a failed unlink has left it.
RunAccounted == ManifestFollows /\ ReportTruthful /\ MainRestored
=============================================================================

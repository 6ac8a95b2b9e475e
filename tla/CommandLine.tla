---------------------------- MODULE CommandLine ----------------------------
(***************************************************************************)
(* cli.py with DSHRuntime.__init__ (core/runtime.py): how a command turns  *)
(* its options and the PIPELINE_ environment into a configuration, chooses *)
(* the build runner and the test validator, runs and exits.                *)
(***************************************************************************)
EXTENDS Naturals, Outcomes

Commands == {"run", "demo", "model", "recover", "dag", "prompt", "orchestrate"}

VARIABLES
  call,      \* the command, its --commit and mode, and the commands it is given
  point,
  config,    \* config.build_command and config.test_command
  runner,    \* what the runtime builds and tests with
  outcome,
  exit       \* the exit code of the process

clVars == <<call, point, config, runner, outcome, exit>>

Kinds == {"build", "test"}
None == [k \in Kinds |-> "none"]

\* `given` are --build-cmd and --test-cmd, or the commands QA planned.
Takes(command) == command \in {"run", "prompt", "orchestrate"}

Calls == {c \in [command : Commands, commit : BOOLEAN, testMode : BOOLEAN,
                 given : SUBSET Kinds, environment : SUBSET Kinds] :
            /\ c.testMode => c.command = "orchestrate"
            /\ c.given # {} => Takes(c.command)}

CommandInit ==
  /\ call \in Calls /\ point = "parsing" /\ config = None /\ runner = None
  /\ outcome = Failed("NONE") /\ exit = "NONE"

Leave(code) == point' = "exited" /\ exit' = code

\* A file is missing or malformed, no file or model is named, no key is set up.
Refuse ==
  /\ point = "parsing" /\ call.command # "demo"
  /\ Leave("nonzero")
  /\ UNCHANGED <<call, config, runner, outcome>>

\* A plan without tasks needs no runtime, and succeeds.
NothingPlanned ==
  /\ point = "parsing" /\ call.command = "orchestrate"
  /\ outcome' = DryRunPassed /\ point' = "done"
  /\ UNCHANGED <<call, config, runner, exit>>

FromEnvironment == [k \in Kinds |-> IF k \in call.environment THEN "environment" ELSE "none"]
WithGiven(c) == [k \in Kinds |-> IF k \in call.given THEN "given" ELSE c[k]]

\* The coordinator leaves the planned commands out in test mode; prompt comes later.
Configured ==
  IF call.command = "run" \/ (call.command = "orchestrate" /\ ~call.testMode)
  THEN WithGiven(FromEnvironment) ELSE FromEnvironment

\* dag says test_mode in every case: with no commands it runs the mocks.
Mocked == call.command \in {"demo", "dag"} \/ call.testMode

\* Mutant: the mock stands in wherever no command is configured.
RunnersMocked(c) == [k \in Kinds |-> IF c[k] = "none" THEN "mock" ELSE c[k]]

\* DSHRuntime.__init__: fixed from here on.
Runners(c) == [k \in Kinds |-> IF c[k] = "none" /\ Mocked THEN "mock" ELSE c[k]]

Construct ==
  /\ point = "parsing"
  /\ config' = Configured /\ runner' = Runners(Configured)
  /\ point' = IF call.command = "prompt" THEN "constructed" ELSE "ready"
  /\ UNCHANGED <<call, outcome, exit>>

\* prompt sets its options in the configuration of the finished runtime.
SetOptions ==
  /\ point = "constructed"
  /\ config' = WithGiven(config) /\ point' = "ready"
  /\ UNCHANGED <<call, runner, outcome, exit>>

\* BUILD_CONFIGURATION_MISSING, a hard stop.
FailClosed ==
  /\ point = "ready" /\ runner["build"] = "none"
  /\ outcome' = Failed("HARD_STOP") /\ point' = "done"
  /\ UNCHANGED <<call, config, runner, exit>>

\* One task; where there are several, success is success of all.
ExecuteCommand(o) ==
  /\ point = "ready" /\ runner["build"] # "none"
  /\ IF call.commit THEN o # DryRunPassed ELSE ~o.committed
  /\ outcome' = o /\ point' = "done"
  /\ UNCHANGED <<call, config, runner, exit>>

\* A traceback, of demo too.
Escapes ==
  /\ point = "ready"
  /\ Leave("nonzero")
  /\ UNCHANGED <<call, config, runner, outcome>>

ExitCode == IF outcome.success \/ call.command = "demo" THEN "zero" ELSE "nonzero"

Exit ==
  /\ point = "done"
  /\ Leave(ExitCode)
  /\ UNCHANGED <<call, config, runner, outcome>>

Exited == point = "exited" /\ UNCHANGED clVars

CommandNext ==
  \/ Refuse \/ NothingPlanned \/ Construct \/ SetOptions \/ FailClosed \/ Escapes \/ Exit \/ Exited
  \/ \E o \in TransactionOutcomes : ExecuteCommand(o)

CommandSpec == CommandInit /\ [][CommandNext]_clVars

-----------------------------------------------------------------------------
\* Properties.

\* Nothing lands without --commit, nor, outside the commands that run with mocks,
\* without a real build; and a caller that goes by the exit code is right: zero
\* means that the change is on main or, in a dry run or when QA planned no task at
\* all, that nothing failed.
LandsAsAsked ==
  /\ outcome.kept = "landed" =>
       call.commit /\ (Mocked \/ runner["build"] \in {"given", "environment"})
  /\ exit = "zero" /\ call.command # "demo" =>
       outcome.success /\ (call.commit /\ runner # None => outcome.kept = "landed")

\* "Trusted build command to execute", "Trusted regression test command to
\* execute": what lands was built and tested with the commands that were given.
OptionsObeyed ==
  outcome.kept = "landed" /\ call.command \in {"run", "prompt"} =>
    \A k \in call.given : runner[k] = "given"
=============================================================================

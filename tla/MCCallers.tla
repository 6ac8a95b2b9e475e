----------------------------- MODULE MCCallers -----------------------------
(***************************************************************************)
(* Those who call the transaction engine, for TLC: the recovery loop, the  *)
(* cloud worker, the coordinator and the command line.  A behaviour drives *)
(* one of them.                                                            *)
(***************************************************************************)
EXTENDS Recovery, CloudQueue, Coordinator, CommandLine

CONSTANTS Drives,   \* the callers to drive
          a, b, redA, redB, w1, w2

VARIABLE driven

callersVars == <<driven, vars, cqVars, coVars, clVars>>

IdleRecovery ==
  /\ task = [highRisk |-> FALSE, evidence |-> "low", dryRun |-> TRUE] /\ phase = "ended"
  /\ attempt = 0 /\ tries = 0 /\ model = "NONE" /\ last = "UNKNOWN" /\ history = <<>>
  /\ kept = <<>> /\ answer = "NONE"

IdleQueue ==
  /\ crew = {} /\ reliable = FALSE /\ status = [i \in Items |-> "PENDING"] /\ late = {}
  /\ batch = [w \in Workers |-> {}] /\ at = [w \in Workers |-> Polling]
  /\ runs = [i \in Items |-> 0] /\ onMain = {} /\ abandoned = {} /\ crashes = 0

IdleCoordinator ==
  /\ dryRun = TRUE /\ rounds = MaxRounds /\ stage = "crashed"
  /\ plan = <<>> /\ turn = 1 /\ result = Failed("NONE") /\ fates = <<>> /\ reviewed = {}
  /\ manifest = <<>> /\ since = 1 /\ earlier = <<>>
  /\ overall = TRUE /\ strays = {} /\ excused = {}

IdleCommand ==
  /\ call = CHOOSE c \in Calls : TRUE
  /\ point = "exited" /\ config = None /\ runner = None
  /\ outcome = Failed("NONE") /\ exit = "NONE"

CallersInit ==
  /\ driven \in Drives
  /\ IF driven = "recovery" THEN Init ELSE IdleRecovery
  /\ IF driven = "queue" THEN QueueInit ELSE IdleQueue
  /\ IF driven = "coordinator" THEN CoordinatorInit ELSE IdleCoordinator
  /\ IF driven = "command" THEN CommandInit ELSE IdleCommand

CallersNext ==
  \/ driven = "recovery" /\ Next /\ UNCHANGED <<driven, cqVars, coVars, clVars>>
  \/ driven = "queue" /\ QueueNext /\ UNCHANGED <<driven, vars, coVars, clVars>>
  \/ driven = "coordinator" /\ CoordinatorNext /\ UNCHANGED <<driven, vars, cqVars, clVars>>
  \/ driven = "command" /\ CommandNext /\ UNCHANGED <<driven, vars, cqVars, coVars>>

CallersSpec ==
  /\ CallersInit /\ [][CallersNext]_callersVars
  /\ RecoveryFairness /\ QueueFairness

-----------------------------------------------------------------------------
\* Instances.

FewRegimes ==
  { [crew |-> {w1}, reliable |-> TRUE], [crew |-> {w1, w2}, reliable |-> TRUE],
    [crew |-> {w1}, reliable |-> FALSE] }

Planned(id, red) == [id |-> id, red |-> red]

\* Two tests, the same test twice, and the same id twice, once without a test.
FewPlans == { <<Planned(a, redA), Planned(b, redB)>>, <<Planned(a, redA), Planned(b, redA)>>,
              <<Planned(a, redA), Planned(a, NoTest)>>, <<>> }
=============================================================================

------------------------------ MODULE Sandbox ------------------------------
(***************************************************************************)
(* build/sandbox.py (run_hardened_command, terminate_process_tree): one    *)
(* external command, its process group and the caller that waits for it    *)
(* with a timeout. Builds, tests and every git call run this way.          *)
(***************************************************************************)
EXTENDS Naturals, FiniteSets

CONSTANTS Leader,   \* the process the caller started, leader of its group
          Kids      \* the processes it may start in turn

ASSUME ProcessAssumption == Leader \notin Kids

VARIABLES
  nature,   \* deaf: ignore SIGTERM, stuck: cannot die, away: leave the session
  unborn, alive,
  outside,  \* the living processes that have left the group
  open,     \* the living processes that hold the pipe of the output
  term, kill,        \* the processes that got SIGTERM, SIGKILL
  code,     \* how the leader ended
  caller,       \* where the caller is
  timedOut,
  missed    \* the leader had ended when the timeout struck

sbVars == <<nature, unborn, alive, outside, open, term, kill, code, caller, timedOut, missed>>
processVars == <<nature, unborn, alive, outside, open, term, kill, code>>

Procs == {Leader} \cup Kids
Group == alive \ outside
LeaderDead == Leader \notin alive

Natures == [deaf : SUBSET Procs, stuck : SUBSET Procs, away : SUBSET Kids]

SandboxInit ==
  /\ nature \in Natures
  /\ unborn = Procs /\ alive = {} /\ outside = {} /\ open = {} /\ term = {} /\ kill = {}
  /\ code = "NONE" /\ caller = "spawn" /\ timedOut = FALSE /\ missed = FALSE

-----------------------------------------------------------------------------
\* The processes.

\* A child inherits session and output, unless it leaves for a session of its own.
\* A process with a SIGKILL pending starts no other.
Fork(parent, kid) ==
  /\ parent \in alive \ kill /\ kid \in unborn \ {Leader}
  /\ unborn' = unborn \ {kid} /\ alive' = alive \cup {kid}
  /\ outside' = IF parent \in outside \/ kid \in nature.away
                THEN outside \cup {kid} ELSE outside
  /\ open' = IF parent \in open THEN open \cup {kid} ELSE open
  /\ UNCHANGED <<nature, term, kill, code, caller, timedOut, missed>>

\* A process closes its output and lives on.
CloseOutput(p) ==
  /\ p \in open
  /\ open' = open \ {p}
  /\ UNCHANGED <<nature, unborn, alive, outside, term, kill, code, caller, timedOut, missed>>

Gone(p, how) ==
  /\ p \in alive
  /\ alive' = alive \ {p} /\ open' = open \ {p} /\ outside' = outside \ {p}
  /\ code' = IF p = Leader THEN how ELSE code
  /\ UNCHANGED <<nature, unborn, term, kill, caller, timedOut, missed>>

Exit(p) == p \notin nature.stuck /\ \E how \in {"ZERO", "FAILED"} : Gone(p, how)

DieOfSignal(p) ==
  /\ p \notin nature.stuck
  /\ p \in kill \cup (term \ nature.deaf)
  /\ Gone(p, "SIGNAL")

-----------------------------------------------------------------------------
\* The caller.

Spawn ==
  /\ caller = "spawn"
  /\ unborn' = unborn \ {Leader}
  /\ alive' = {Leader} /\ open' = {Leader} /\ caller' = "communicate"
  /\ UNCHANGED <<nature, outside, term, kill, code, timedOut, missed>>

\* No such executable, or no resources for a process.
SpawnFails ==
  /\ caller = "spawn"
  /\ caller' = "returned" /\ code' = "FAILED"
  /\ UNCHANGED <<nature, unborn, alive, outside, open, term, kill, timedOut, missed>>

\* communicate() returns at the end of the output and of the leader.
Complete ==
  /\ caller = "communicate" /\ open = {} /\ LeaderDead
  /\ caller' = "returned"
  /\ UNCHANGED <<processVars, timedOut, missed>>

TimeoutExpires ==
  /\ caller = "communicate"
  /\ caller' = "terminate" /\ timedOut' = TRUE
  /\ UNCHANGED <<processVars, missed>>

\* "if proc.poll() is not None: return"
PollFindsEnd ==
  /\ caller = "terminate" /\ LeaderDead
  /\ caller' = "drain" /\ missed' = TRUE
  /\ UNCHANGED <<processVars, timedOut>>

Terminate ==
  /\ caller = "terminate" /\ ~LeaderDead
  /\ term' = term \cup Group /\ caller' = "grace"
  /\ UNCHANGED <<nature, unborn, alive, outside, open, kill, code, timedOut, missed>>

\* The kernel needs less than the second a caller waits to end killed processes.
KilledAreGone == alive \cap kill \subseteq nature.stuck

\* Mutant: the end of the leader is taken for the end of its group.
WaitForLeaderOnly ==
  /\ caller \in {"grace", "killed"} /\ LeaderDead
  /\ caller' = "drain"
  /\ UNCHANGED <<processVars, timedOut, missed>>

WaitForLeader ==
  /\ caller \in {"grace", "killed"} /\ LeaderDead
  /\ caller' = "confirm"
  /\ UNCHANGED <<processVars, timedOut, missed>>

GraceExpires ==
  /\ caller = "grace" /\ ~LeaderDead
  /\ kill' = kill \cup Group /\ caller' = "killed"
  /\ UNCHANGED <<nature, unborn, alive, outside, open, term, code, timedOut, missed>>

\* The second wait raises, and the handler skips the confirmation.
KillExpires ==
  /\ caller = "killed" /\ ~LeaderDead /\ KilledAreGone
  /\ caller' = "drain"
  /\ UNCHANGED <<processVars, timedOut, missed>>

GroupGone ==
  /\ caller \in {"confirm", "settle"} /\ Group = {}
  /\ caller' = "drain"
  /\ UNCHANGED <<processVars, timedOut, missed>>

KillGroup ==
  /\ caller = "confirm" /\ Group # {}
  /\ kill' = kill \cup Group /\ caller' = "settle"
  /\ UNCHANGED <<nature, unborn, alive, outside, open, term, code, timedOut, missed>>

\* Mutant: the confirmation has no deadline.
SettleNever ==
  /\ caller = "settle" /\ Group = {} /\ KilledAreGone
  /\ caller' = "drain"
  /\ UNCHANGED <<processVars, timedOut, missed>>

SettleExpires ==
  /\ caller = "settle" /\ Group # {} /\ KilledAreGone
  /\ caller' = "drain"
  /\ UNCHANGED <<processVars, timedOut, missed>>

\* One more second for the rest of the output, whether or not it ends.
Drain ==
  /\ caller = "drain" /\ KilledAreGone
  /\ caller' = "returned"
  /\ UNCHANGED <<processVars, timedOut, missed>>

Caller ==
  \/ Spawn \/ SpawnFails \/ Complete \/ TimeoutExpires \/ PollFindsEnd \/ Terminate
  \/ WaitForLeader \/ GraceExpires \/ KillExpires \/ GroupGone \/ KillGroup
  \/ SettleExpires \/ Drain

SandboxNext ==
  \/ Caller
  \/ \E p \in Procs : CloseOutput(p) \/ Exit(p) \/ DieOfSignal(p)
  \/ \E parent \in Procs, kid \in Kids : Fork(parent, kid)

\* The caller waits with timeouts only, and the kernel ends what it kills.
SandboxFairness == WF_sbVars(Caller) /\ \A p \in Procs : WF_sbVars(DieOfSignal(p))

SandboxSpec == SandboxInit /\ [][SandboxNext]_sbVars /\ SandboxFairness

\* Mutant: the exit code is looked at before the timeout.
VerdictOfCode ==
  IF code = "ZERO" THEN "PASSED" ELSE IF timedOut THEN "TIMEOUT" ELSE "FAILED"

\* What a build or test command is taken to have said.
Verdict ==
  IF timedOut THEN "TIMEOUT" ELSE IF code = "ZERO" THEN "PASSED" ELSE "FAILED"

-----------------------------------------------------------------------------
\* Properties.

\* A build or test that counts as passed has ended by itself and closed its
\* output: a leader that exits with zero while its tests still run is no pass.
PassedIsComplete ==
  caller = "returned" /\ Verdict = "PASSED" => LeaderDead /\ open = {}

\* When a command that timed out has returned, a process of its group that is
\* still alive cannot be killed at all, or the leader had ended when the timeout
\* struck: a member that ignores SIGTERM, is forked late or outlives the leader
\* is found and killed.
SurvivorsExplained ==
  caller = "returned" /\ timedOut /\ ~missed => Group \subseteq nature.stuck

\* "bounded, no infinite loop": the caller gets an answer even when processes
\* cannot be killed or keep the output open for ever.
CommandReturns == (caller = "spawn") ~> (caller = "returned")

\* "Terminates an entire process group safely to prevent orphan child/worker
\* processes": where every process can be killed, none of the group outlives a
\* command that timed out.
NoOrphans ==
  caller = "returned" /\ timedOut /\ nature.stuck = {} => Group = {}
=============================================================================

---------------------------- MODULE MCWorktree ----------------------------
(***************************************************************************)
(* What happens to files and processes during one attempt, for TLC: the    *)
(* hunks of a patch, the worktree, and a command that runs in it.  A       *)
(* behaviour drives one of the three.                                      *)
(***************************************************************************)
EXTENDS Sandbox, Worktree, PatchEngine

CONSTANTS Drives,   \* the components to drive
          target, other, red, holdout, top, tests, letter

VARIABLE driven

allVars == <<driven, sbVars, wtVars, peVars>>

IdleSandbox ==
  /\ nature = [deaf |-> {}, stuck |-> {}, away |-> {}]
  /\ unborn = {} /\ alive = {} /\ outside = {} /\ open = {} /\ term = {} /\ kill = {}
  /\ code = "NONE" /\ caller = "idle" /\ timedOut = FALSE /\ missed = FALSE

IdleWorktree ==
  /\ setup = CHOOSE s \in Setups : TRUE
  /\ pc = "idle" /\ file = <<>> /\ index = <<>> /\ head = <<>> /\ prior = <<>> /\ simulated = <<>>
  /\ tested = <<>> /\ cache = NoCache /\ lost = {} /\ touched = {} /\ writes = 0

IdlePatch ==
  original = <<>> /\ disk = <<>> /\ text = <<>> /\ hunks = <<>> /\ step = "idle"

AttemptInit ==
  /\ driven \in Drives
  /\ IF driven = "sandbox" THEN SandboxInit ELSE IdleSandbox
  /\ IF driven = "worktree" THEN WorktreeInit ELSE IdleWorktree
  /\ IF driven = "patch" THEN PatchInit ELSE IdlePatch

AttemptNext ==
  \/ driven = "sandbox" /\ SandboxNext /\ UNCHANGED <<driven, wtVars, peVars>>
  \/ driven = "worktree" /\ WorktreeNext /\ UNCHANGED <<driven, sbVars, peVars>>
  \/ driven = "patch" /\ PatchNext /\ UNCHANGED <<driven, sbVars, wtVars>>

AttemptSpec ==
  /\ AttemptInit
  /\ [][AttemptNext]_allVars
  /\ SandboxFairness

-----------------------------------------------------------------------------
\* Instances.

\* The red test is the first file of its directory.
Directories == [p \in Paths |-> IF p = red THEN tests ELSE top]

\* Another file beside it has a name that begins like the directory's.
Beginnings == [n \in Paths \cup {top, tests} |-> IF n \in {red, target} THEN {n, tests} ELSE {n}]

Setup(proposed, allowed, locked, writers) ==
  [proposed |-> proposed, allowed |-> allowed, locked |-> locked, writers |-> writers,
   ignored |-> {}, red |-> TRUE, holdout |-> TRUE, callback |-> TRUE]

Both == {red, holdout}

FewSetups ==
  { Setup({target}, {tests, holdout}, Both, {"command", "hook", "survivor"}),
    Setup({target}, {tests, holdout}, Both, {"command", "hook"}),
    Setup({target, holdout}, {tests, holdout}, Both, {"command"}),
    Setup({target, red}, {tests, holdout}, {}, {"hook"}),
    [Setup({target}, {holdout}, Both, {"hook"}) EXCEPT !.red = FALSE, !.callback = FALSE],
    [Setup({target}, {tests}, Both, {"hook", "committer"}) EXCEPT !.holdout = FALSE],
    [Setup({target, other}, {}, Both, {"command", "hook"})
        EXCEPT !.red = FALSE, !.holdout = FALSE, !.ignored = {holdout}] }

\* The allowance names the red test itself, as the coordinator's does.
Allowing == { Setup({target}, {red, holdout}, Both, {}) }

FewDisks == {NoFile} \cup SeqOf({letter, Cr, Lf}, 5)
FewHunks ==
  [old : {<<>>, <<letter>>, <<Lf>>, <<letter, Lf>>, <<letter, letter>>, <<Lf, letter>>},
   new : {<<>>, <<letter>>, <<Lf>>, <<letter, Lf>>, <<letter, Cr, Lf>>}]
=============================================================================

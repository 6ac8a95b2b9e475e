------------------------------ MODULE Worktree ------------------------------
(***************************************************************************)
(* The files of one transaction's worktree: core/workspace.py              *)
(* (TransactionWorktree), the steps of core/runtime.py (execute_transaction)*)
(* that write or compare files, and the injections of validation/pipeline.py*)
(* and orchestrator/coordinator.py. Builds, tests, hooks and processes they *)
(* leave behind write to the same directory.                               *)
(***************************************************************************)
EXTENDS Naturals, FiniteSets, Functions

CONSTANTS
  Paths, RedFile, HoldoutFile,
  Root, DirOf,        \* the directory of each path
  Begins,             \* for each name the names it begins with, as strings
  Tracked,            \* the paths of the base commit
  Setups,             \* the circumstances to consider, see SetupAssumption
  MaxWrites           \* bound: writes by others

ASSUME PathAssumption ==
  /\ {RedFile, HoldoutFile} \subseteq Paths /\ Tracked \subseteq Paths
  /\ Root \notin Paths /\ DOMAIN DirOf = Paths

Dirs == {DirOf[p] : p \in Paths}
Names == Paths \cup Dirs

ASSUME NamesAssumption ==
  /\ Begins \in [Names -> SUBSET Names] /\ \A n \in Names : n \in Begins[n]
  /\ \A p \in Paths : DirOf[p] # Root => Begins[DirOf[p]] \subseteq Begins[p]

ASSUME SetupAssumption ==
  \A s \in Setups :
     /\ s.proposed \in (SUBSET Paths) \ {{}}    \* the files of the proposal
     /\ s.allowed \subseteq Names            \* allowed_untracked_paths
     /\ s.locked \subseteq Paths              \* names of forbidden_test_patterns
     /\ s.ignored \subseteq Paths             \* by .gitignore
     /\ {s.red, s.holdout, s.callback} \subseteq BOOLEAN
     /\ s.writers \subseteq {"command", "hook", "survivor", "committer"}

ASSUME WritesAssumption == MaxWrites \in Nat

VARIABLES
  setup, pc,
  file, index, head,   \* the content of each path on disk, staged, committed
  prior,               \* committed in the parent of HEAD
  simulated,           \* what the proposal makes of the proposed files
  cache,               \* _status_cache
  tested,              \* the files the tests ran on
  lost,                \* the injections that failed
  touched, writes      \* the paths others wrote, and how often

files == <<file, index, head, prior>>
others == <<touched, writes>>
wtVars == <<setup, pc, files, simulated, cache, tested, lost, others>>

Plain(text) == [text |-> text, patched |-> FALSE]
Absent == Plain("absent")
Patched(content) == [content EXCEPT !.patched = TRUE]
Base(p) == IF p \in Tracked THEN Plain("base") ELSE Absent
NoCache == {"none"}

Proposed == setup.proposed

WorktreeInit ==
  /\ setup \in Setups /\ pc = "baseline"
  /\ file = [p \in Paths |-> Base(p)] /\ index = file /\ head = file /\ prior = file
  /\ simulated = file /\ tested = file
  /\ cache = NoCache /\ lost = {} /\ touched = {} /\ writes = 0

Goto(from, to) == pc = from /\ pc' = to

-----------------------------------------------------------------------------
\* Everybody else.

\* Who may write now: the commands of a step, git's hooks, and processes that
\* an earlier command has left behind. A committer is one of them that runs git commit.
Writing ==
  \/ pc \in {"baseline", "build", "tests"} /\ "command" \in setup.writers
  \/ pc \in {"commit", "hooked"} /\ "hook" \in setup.writers
  \/ pc \notin {"committed", "rejected", "unexpected"} /\ "survivor" \in setup.writers

OtherWrites(p) ==
  /\ Writing /\ writes < MaxWrites
  /\ \E content \in {Plain("foreign"), Absent} : file' = [file EXCEPT ![p] = content]
  /\ touched' = touched \cup {p} /\ writes' = writes + 1
  /\ UNCHANGED <<setup, pc, index, head, prior, simulated, cache, tested, lost>>

\* A command or a hook runs git add.
OtherStages(p) ==
  /\ Writing /\ index[p] # file[p]
  /\ index' = [index EXCEPT ![p] = file[p]]
  /\ UNCHANGED <<setup, pc, file, head, prior, simulated, cache, tested, lost, others>>

\* One of them commits what is staged, or amends the last commit.
OtherCommits ==
  /\ Writing /\ "committer" \in setup.writers /\ index # head
  /\ head' = index /\ prior' \in {head, prior}
  /\ UNCHANGED <<setup, pc, file, index, simulated, cache, tested, lost, others>>

-----------------------------------------------------------------------------
\* execute_transaction.

BaselineCaptured ==
  /\ Goto("baseline", "red")
  /\ UNCHANGED <<setup, files, simulated, cache, tested, lost, others>>

\* The callback of the coordinator; without a red test there is nothing to do.
InjectRed ==
  /\ Goto("red", "pre")
  /\ file' = IF setup.red THEN [file EXCEPT ![RedFile] = Plain("red")] ELSE file
  /\ UNCHANGED <<setup, index, head, prior, simulated, cache, tested, lost, others>>

\* Its errors are logged, and logged again by the runtime.
InjectRedFails ==
  /\ Goto("red", "pre") /\ setup.red
  /\ lost' = lost \cup {RedFile}
  /\ UNCHANGED <<setup, files, simulated, cache, tested, others>>

\* Mutant: the names of tests are not forbidden.
ScopePassesTests ==
  /\ Goto("pre", "simulate")
  /\ UNCHANGED <<setup, files, simulated, cache, tested, lost, others>>

\* T0: files named like tests are out of the proposal's reach.
ScopePasses ==
  /\ Goto("pre", "simulate") /\ Proposed \cap setup.locked = {}
  /\ UNCHANGED <<setup, files, simulated, cache, tested, lost, others>>

\* The hunks are found in the files as they are now.
Simulate ==
  /\ Goto("simulate", "write")
  /\ simulated' = [p \in Paths |-> IF p \in Proposed THEN Patched(file[p]) ELSE file[p]]
  /\ UNCHANGED <<setup, files, cache, tested, lost, others>>

Write ==
  /\ Goto("write", "verify")
  /\ file' = [p \in Paths |-> IF p \in Proposed THEN simulated[p] ELSE file[p]]
  /\ UNCHANGED <<setup, index, head, prior, simulated, cache, tested, lost, others>>

OnDisk == \A p \in Proposed : file[p] = simulated[p]

\* "Final State Pre-Build Verification"
Verify ==
  /\ Goto("verify", "build") /\ OnDisk
  /\ UNCHANGED <<setup, files, simulated, cache, tested, lost, others>>

\* T1 and T2 passed; then the holdout test is put in place, by the callback or
\* by the pipeline itself.
InjectHoldout ==
  /\ Goto("build", "regression")
  /\ file' = IF setup.holdout THEN [file EXCEPT ![HoldoutFile] = Plain("holdout")] ELSE file
  /\ UNCHANGED <<setup, index, head, prior, simulated, cache, tested, lost, others>>

\* The callback hides its errors, the pipeline's own injection does not.
InjectHoldoutFails ==
  /\ Goto("build", "regression") /\ setup.holdout /\ setup.callback
  /\ lost' = lost \cup {HoldoutFile}
  /\ UNCHANGED <<setup, files, simulated, cache, tested, others>>

RunTests ==
  /\ Goto("regression", "tests")
  /\ tested' = file
  /\ UNCHANGED <<setup, files, simulated, cache, lost, others>>

TestsPass ==
  /\ Goto("tests", "changed")
  /\ UNCHANGED <<setup, files, simulated, cache, tested, lost, others>>

-----------------------------------------------------------------------------
\* TransactionWorktree.

Untracked(p) == index[p] = Absent /\ file[p] # Absent
Differs(p) == file[p] # index[p] \/ index[p] # head[p]

\* What git status omits.
Ignored(p) == Untracked(p) /\ p \in setup.ignored

\* git status names an untracked directory, not the files in it.
NewDir(d) == d # Root /\ \A p \in Paths : DirOf[p] = d => index[p] = Absent
Shown(p) == IF Untracked(p) /\ ~Ignored(p) /\ NewDir(DirOf[p]) THEN DirOf[p] ELSE p

\* git pairs off files that are staged as deleted with files that are staged as new
\* and similar to them; which ones is left open. Of such a rename only the new path is
\* looked at: parse_porcelain_v1_z puts the old one in a field that nobody reads.
Deleted(p) == head[p] # Absent /\ index[p] = Absent
Added(p) == head[p] = Absent /\ index[p] # Absent
Renames == {R \in SUBSET {p \in Paths : Deleted(p)} : ExistsInjection(R, {p \in Paths : Added(p)})}

Staged == {p \in Paths : index[p] # head[p]}

\* The paths of git status, when the files R are renamed.
Status(R) ==
  (Staged \ R) \cup {p \in Paths : index[p] # Absent /\ file[p] # index[p]}
    \cup {Shown(p) : p \in {q \in Paths : Untracked(q) /\ ~Ignored(q)}}

\* norm_path.startswith(allow_p): of strings, so that an allowed directory allows the
\* names beside it that begin with its name.
Allowed(name) == Begins[name] \cap setup.allowed # {}

\* _get_status_bytes: git is asked once between two mutations.
ReadStatus ==
  /\ pc \in {"changed", "clean"} /\ cache = NoCache
  /\ \E R \in Renames : cache' = Status(R)
  /\ UNCHANGED <<setup, pc, files, simulated, tested, lost, others>>

InvalidateStatusCache == cache' = NoCache

\* Mutant: what is allowed to be there counts as unexpected.
UnexpectedAtAll == {n \in cache : n \notin Proposed}

Unexpected == {n \in cache : n \notin Proposed /\ ~Allowed(n)}

\* verify_changed_paths
ChangesVerified ==
  /\ Goto("changed", "stage") /\ cache # NoCache /\ Unexpected = {}
  /\ UNCHANGED <<setup, files, simulated, cache, tested, lost, others>>

ChangesUnexpected ==
  /\ Goto("changed", "unexpected") /\ cache # NoCache /\ Unexpected # {}
  /\ UNCHANGED <<setup, files, simulated, cache, tested, lost, others>>

\* stage_exact: git add takes neither more nor less than the expected paths.
Stage ==
  /\ Goto("stage", "staged")
  /\ \A p \in Proposed : (file[p] # Absent \/ index[p] # Absent) /\ ~Ignored(p)
  /\ InvalidateStatusCache
  /\ index' = [p \in Paths |-> IF p \in Proposed THEN file[p] ELSE index[p]]
  /\ UNCHANGED <<setup, file, head, prior, simulated, tested, lost, others>>

\* git diff --cached has one path for a rename, too.
StagedVerified ==
  /\ Goto("staged", "commit") /\ Staged # {}
  /\ \E R \in Renames : Staged \ R \subseteq Proposed
  /\ UNCHANGED <<setup, files, simulated, cache, tested, lost, others>>

\* git commit, with the hooks before and after it at steps commit and hooked.
Commit ==
  /\ Goto("commit", "hooked") /\ Staged # {}
  /\ InvalidateStatusCache
  /\ head' = index /\ prior' = head
  /\ UNCHANGED <<setup, file, index, simulated, tested, lost, others>>

\* What a merge of the worktree's HEAD brings to main.
Committed == {p \in Paths : head[p] # Base(p)}

\* Mutant: what the hooks added to the commit is not looked for.
CommitUnverified ==
  /\ Goto("hooked", "clean")
  /\ UNCHANGED <<setup, files, simulated, cache, tested, lost, others>>

\* git diff-tree knows no renames, and only the last commit.
CommitVerified ==
  /\ Goto("hooked", "clean") /\ {p \in Paths : head[p] # prior[p]} \subseteq Proposed
  /\ UNCHANGED <<setup, files, simulated, cache, tested, lost, others>>

\* Mutant: what the patch was expected to change counts as clean.
CleanButForProposed ==
  /\ Goto("clean", "committed") /\ cache # NoCache /\ Unexpected = {}
  /\ UNCHANGED <<setup, files, simulated, cache, tested, lost, others>>

\* is_clean
Clean ==
  /\ Goto("clean", "committed") /\ cache # NoCache /\ \A n \in cache : Allowed(n)
  /\ UNCHANGED <<setup, files, simulated, cache, tested, lost, others>>

\* A failed validation, git command or check: the worktree is thrown away.
Reject ==
  /\ pc \notin {"committed", "rejected", "unexpected"} /\ pc' = "rejected"
  /\ UNCHANGED <<setup, files, simulated, cache, tested, lost, others>>

WorktreeNext ==
  \/ OtherCommits \/ \E p \in Paths : OtherWrites(p) \/ OtherStages(p)
  \/ BaselineCaptured \/ InjectRed \/ InjectRedFails \/ ScopePasses \/ Simulate \/ Write
  \/ Verify \/ InjectHoldout \/ InjectHoldoutFails \/ RunTests \/ TestsPass
  \/ ReadStatus \/ ChangesVerified \/ ChangesUnexpected \/ Stage \/ StagedVerified
  \/ Commit \/ CommitVerified \/ Clean \/ Reject

WorktreeSpec == WorktreeInit /\ [][WorktreeNext]_wtVars

-----------------------------------------------------------------------------
\* Properties.

\* What is merged changes files of the proposal only, whatever builds, tests, hooks and
\* left-over processes write, stage and rename meanwhile: a generated file, or a red or
\* holdout test that is not itself proposed, does not enter main. Those who commit by
\* themselves are exempt, because only the last commit is looked at.
CommitConfined ==
  pc = "committed" /\ "committer" \notin setup.writers => Committed \subseteq Proposed

\* A proposed file that nobody else writes is committed as the base with the patch,
\* and that is what the tests ran on; and they ran with the red and the holdout
\* test in place, unless its injection failed, which nobody reports, or the holdout
\* test took the file of the red one. A test whose name is no test's is not protected
\* from the proposal.
CommittedAsTested ==
  LET exposed == {RedFile, HoldoutFile} \ setup.locked
  IN pc = "committed" =>
       /\ \A p \in Proposed \ (touched \cup exposed) :
             head[p] = Patched(Base(p)) /\ tested[p] = Patched(Base(p))
       /\ setup.red /\ RedFile # HoldoutFile
             /\ RedFile \notin touched \cup lost \cup (Proposed \cap exposed)
            => tested[RedFile] = Plain("red")
       /\ setup.holdout /\ HoldoutFile \notin touched \cup lost
            => tested[HoldoutFile] = Plain("holdout")

\* A file that was moved to an allowed path, as git mv does, and not put back.
Moved(p) == Deleted(p) /\ ~(Untracked(p) /\ ~Ignored(p)) /\ \E q \in Paths : Added(q) /\ Allowed(q)

Tolerable(p) == Allowed(Shown(p)) \/ (Ignored(p) /\ head[p] = Absent) \/ Moved(p)

\* What a hook leaves in the worktree of an accepted commit is allowed to be there,
\* ignored by git, or moved to an allowed path: the check after the commit never goes by
\* a status read before it. (A process that outlives its command can still write after
\* the check.)
LeftoversAllowed ==
  pc = "committed" /\ "survivor" \notin setup.writers =>
    \A p \in Paths : Differs(p) => Tolerable(p)

\* A change that is neither proposed nor allowed, or in a new directory that is not
\* allowed and that git names instead of the file.
Offending(p) ==
  \/ p \notin Proposed /\ ~Allowed(p)
  \/ Untracked(p) /\ ~Ignored(p) /\ NewDir(DirOf[p]) /\ ~Allowed(DirOf[p])

\* Changes are refused as unexpected only for an offending one, as long as no process
\* outlives its command: no status from before a build or a test, and no injected test
\* that is allowed, stops a proposal.
RefusalExplained ==
  pc = "unexpected" /\ "survivor" \notin setup.writers =>
    \E p \in Paths : Differs(p) /\ Offending(p)

\* Both checks of git's status judge the changes that it shows as they are: they stop
\* what is not allowed, and stop nothing else.
ChangesJudged == LeftoversAllowed /\ RefusalExplained

\* "Verifies that actual changes in worktree strictly match expected paths": changes
\* are refused as unexpected only if one of them is neither proposed nor allowed.
ExpectedChangesPass ==
  pc = "unexpected" =>
    \E p \in Paths : Differs(p) /\ p \notin Proposed /\ ~Allowed(p)
=============================================================================

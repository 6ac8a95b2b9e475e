--------------------------- MODULE AttemptProofs ---------------------------
(* Proofs about one attempt: the command that runs in a worktree, for any   *)
(* processes, the files of the worktree, for any paths, proposals and       *)
(* writers, and the patch of one file, for any file of one kind of newlines *)
(* and any hunks without carriage returns.                                  *)
EXTENDS Sandbox, Worktree, PatchEngine, SequenceTheorems, SumProofs

-----------------------------------------------------------------------------
\* The command.

\* The caller's flags tell where it has been.
CallerKept ==
  /\ caller \in {"spawn", "communicate", "terminate", "grace", "killed", "confirm",
                 "settle", "drain", "returned"}
  /\ caller \in {"spawn", "communicate"} => timedOut = FALSE
  /\ caller \notin {"spawn", "communicate", "returned"} => timedOut = TRUE

\* A process is born once, lives and is gone; before the start there is none.
ProcessesKept ==
  /\ outside \subseteq alive /\ open \subseteq alive
  /\ alive \cap unborn = {} /\ kill \cap unborn = {}
  /\ caller = "spawn" => alive = {}

\* Once the caller has killed the group, or found it empty, a member that is left
\* has a SIGKILL pending, so that it starts no further one; and when the kernel has
\* had its time, only those that cannot be killed are left.
KilledKept ==
  /\ \/ caller \in {"killed", "settle"}
     \/ caller \in {"drain", "returned"} /\ timedOut /\ ~missed
     => Group \subseteq kill
  /\ SurvivorsExplained

\* An answer without a timeout comes after the end of leader and output.
EndSeen == caller = "returned" /\ ~timedOut => LeaderDead /\ open = {}

SandboxInv == CallerKept /\ ProcessesKept /\ KilledKept /\ EndSeen

LEMMA SandboxStarts == SandboxInit => SandboxInv
  BY DEF SandboxInit, SandboxInv, CallerKept, ProcessesKept, KilledKept, EndSeen, LeaderDead,
         SurvivorsExplained

\* Whatever the processes do, the group gets no member but by one of its own that has
\* no SIGKILL pending.
LEMMA ProcessStep ==
  ASSUME SandboxInv,
         \/ \E p \in Procs : CloseOutput(p) \/ Exit(p) \/ DieOfSignal(p)
         \/ \E parent \in Procs, kid \in Kids : Fork(parent, kid)
  PROVE  SandboxInv'
  <1>1. ASSUME NEW p \in Procs, CloseOutput(p) PROVE SandboxInv'
    <2>1. /\ open' = open \ {p}
          /\ UNCHANGED <<nature, unborn, alive, outside, term, kill, code, caller, timedOut,
                         missed>>
      BY <1>1 DEF CloseOutput
    <2> QED BY <2>1 DEF SandboxInv, CallerKept, ProcessesKept, KilledKept, EndSeen, LeaderDead,
                        SurvivorsExplained, Group
  <1>2. ASSUME NEW p \in Procs, Exit(p) \/ DieOfSignal(p) PROVE SandboxInv'
    <2>1. /\ alive' = alive \ {p} /\ open' = open \ {p} /\ outside' = outside \ {p}
          /\ UNCHANGED <<nature, unborn, term, kill, caller, timedOut, missed>>
      BY <1>2 DEF Exit, DieOfSignal, Gone
    <2> QED BY <2>1 DEF SandboxInv, CallerKept, ProcessesKept, KilledKept, EndSeen, LeaderDead,
                        SurvivorsExplained, Group
  <1>3. ASSUME NEW parent \in Procs, NEW kid \in Kids, Fork(parent, kid) PROVE SandboxInv'
    <2>1. /\ parent \in alive \ kill /\ kid \in unborn /\ kid # Leader
          /\ unborn' = unborn \ {kid} /\ alive' = alive \cup {kid}
          /\ outside' = IF parent \in outside \/ kid \in nature.away
                        THEN outside \cup {kid} ELSE outside
          /\ open' = IF parent \in open THEN open \cup {kid} ELSE open
          /\ UNCHANGED <<nature, term, kill, code, caller, timedOut, missed>>
      BY <1>3 DEF Fork
    <2>2. CallerKept' /\ ProcessesKept' /\ EndSeen'
      BY <2>1 DEF SandboxInv, CallerKept, ProcessesKept, EndSeen, LeaderDead
    <2>3. Group \subseteq kill => Group' = Group
      BY <2>1 DEF SandboxInv, ProcessesKept, Group
    <2>4. KilledKept'
      BY <2>1, <2>3 DEF SandboxInv, KilledKept, SurvivorsExplained
    <2> QED BY <2>2, <2>4 DEF SandboxInv
  <1> QED BY <1>1, <1>2, <1>3

LEMMA CallerStep == SandboxInv /\ Caller => SandboxInv'
  <1> SUFFICES ASSUME SandboxInv, Caller PROVE SandboxInv'
    OBVIOUS
  <1>t. CallerKept /\ ProcessesKept /\ KilledKept /\ EndSeen
    BY DEF SandboxInv
  <1>1. CASE Spawn
    BY <1>1, <1>t DEF Spawn, SandboxInv, CallerKept, ProcessesKept, KilledKept, EndSeen,
                      SurvivorsExplained
  <1>2. CASE SpawnFails
    BY <1>2, <1>t DEF SpawnFails, SandboxInv, CallerKept, ProcessesKept, KilledKept, EndSeen,
                      SurvivorsExplained, LeaderDead
  <1>3. CASE Complete \/ TimeoutExpires \/ PollFindsEnd
    <2>1. UNCHANGED processVars
      BY <1>3 DEF Complete, TimeoutExpires, PollFindsEnd
    <2>2. CallerKept' /\ ProcessesKept' /\ EndSeen'
      BY <1>3, <1>t, <2>1
      DEF Complete, TimeoutExpires, PollFindsEnd, processVars, CallerKept, ProcessesKept,
          EndSeen, LeaderDead
    <2>3. KilledKept'
      BY <1>3, <1>t, <2>1
      DEF Complete, TimeoutExpires, PollFindsEnd, CallerKept, KilledKept, SurvivorsExplained
    <2> QED BY <2>2, <2>3 DEF SandboxInv
  <1>4. CASE Terminate
    BY <1>4, <1>t DEF Terminate, SandboxInv, CallerKept, ProcessesKept, KilledKept, EndSeen,
                      SurvivorsExplained
  <1>5. CASE WaitForLeader \/ KillExpires \/ GroupGone \/ SettleExpires
    <2>1. /\ UNCHANGED <<processVars, timedOut, missed>>
          /\ caller \in {"grace", "killed", "confirm", "settle"}
          /\ caller' \in {"confirm", "drain"}
          /\ caller' = "drain" => caller \in {"killed", "settle"} \/ Group = {}
      BY <1>5 DEF WaitForLeader, KillExpires, GroupGone, SettleExpires
    <2>2. CallerKept' /\ ProcessesKept' /\ EndSeen'
      BY <1>t, <2>1 DEF processVars, CallerKept, ProcessesKept, EndSeen
    <2>3. Group' = Group /\ kill' = kill
      BY <2>1 DEF processVars, Group
    <2>4. KilledKept'
      BY <1>t, <2>1, <2>3 DEF KilledKept, SurvivorsExplained
    <2> QED BY <2>2, <2>4 DEF SandboxInv
  <1>6. CASE GraceExpires \/ KillGroup
    <2>1. /\ kill' = kill \cup Group /\ caller \in {"grace", "confirm"}
          /\ caller' \in {"killed", "settle"}
          /\ UNCHANGED <<nature, unborn, alive, outside, open, term, code, timedOut, missed>>
      BY <1>6 DEF GraceExpires, KillGroup
    <2>2. CallerKept' /\ ProcessesKept' /\ EndSeen'
      BY <1>t, <2>1 DEF CallerKept, ProcessesKept, EndSeen, Group
    <2>3. KilledKept'
      BY <2>1 DEF KilledKept, SurvivorsExplained, Group
    <2> QED BY <2>2, <2>3 DEF SandboxInv
  <1>7. CASE Drain
    <2>1. /\ caller = "drain" /\ caller' = "returned" /\ KilledAreGone
          /\ UNCHANGED <<nature, unborn, alive, outside, open, term, kill, code, timedOut, missed>>
      BY <1>7 DEF Drain, processVars
    <2>2. CallerKept' /\ ProcessesKept' /\ EndSeen'
      BY <1>t, <2>1 DEF CallerKept, ProcessesKept, EndSeen
    <2>3. KilledKept'
      BY <1>t, <2>1 DEF KilledKept, SurvivorsExplained, Group, KilledAreGone
    <2> QED BY <2>2, <2>3 DEF SandboxInv
  <1> QED BY <1>1, <1>2, <1>3, <1>4, <1>5, <1>6, <1>7 DEF Caller

LEMMA SandboxHolds == SandboxSpec => []SandboxInv
  <1>1. SandboxInv /\ [SandboxNext]_sbVars => SandboxInv'
    <2> SUFFICES ASSUME SandboxInv, [SandboxNext]_sbVars PROVE SandboxInv'
      OBVIOUS
    <2>1. CASE SandboxNext
      BY <2>1, CallerStep, ProcessStep DEF SandboxNext
    <2>2. CASE UNCHANGED sbVars
      BY <2>2 DEF sbVars, SandboxInv, CallerKept, ProcessesKept, KilledKept, EndSeen,
                  LeaderDead, SurvivorsExplained, Group
    <2> QED BY <2>1, <2>2
  <1> QED BY <1>1, SandboxStarts, PTL DEF SandboxSpec

\* A timed-out command leaves only processes that cannot be killed, unless its leader
\* had ended before: for any processes, however they fork, ignore signals or leave.
THEOREM GroupIsKilled == SandboxSpec => []SurvivorsExplained
  <1>1. SandboxInv => SurvivorsExplained
    BY DEF SandboxInv, KilledKept
  <1> QED BY <1>1, SandboxHolds, PTL

\* What counts as passed has ended with all its output.
THEOREM PassIsComplete == SandboxSpec => []PassedIsComplete
  <1>1. SandboxInv => PassedIsComplete
    BY DEF SandboxInv, EndSeen, PassedIsComplete, Verdict
  <1> QED BY <1>1, SandboxHolds, PTL

-----------------------------------------------------------------------------
\* The worktree.

Contents == [text : {"base", "absent", "foreign", "red", "holdout"}, patched : BOOLEAN]

\* The steps of execute_transaction, in groups: by what the files are by then.
Unwritten == {"baseline", "red", "pre", "simulate", "write"}
Written == {"verify", "build", "regression", "tests", "changed", "stage", "staged", "commit",
            "hooked", "clean", "committed"}
Scoped == Written \cup {"simulate", "write"}
Injected == Scoped \cup {"pre"}
Tested == {"tests", "changed", "stage", "staged", "commit", "hooked", "clean", "committed"}
Prepared == Tested \cup {"regression"}
IsStaged == {"staged", "commit", "hooked", "clean", "committed"}
IsCommitted == {"hooked", "clean", "committed"}
Uncommitted == Unwritten \cup {"verify", "build", "regression", "tests", "changed", "stage",
                               "staged", "commit"}

Unread == Unwritten \cup {"verify", "build", "regression", "tests", "staged", "commit", "hooked"}

WorktreeTypes ==
  /\ setup \in Setups
  /\ pc \in Unwritten \cup Written \cup {"rejected", "unexpected"}
  /\ file \in [Paths -> Contents] /\ index \in [Paths -> Contents]
  /\ head \in [Paths -> Contents] /\ simulated \in [Paths -> Contents]
  /\ tested \in [Paths -> Contents]

\* What the proposal makes of a path that nobody else writes.
ProposedKept ==
  \A p \in Proposed \ (touched \cup {RedFile, HoldoutFile}) :
     /\ pc \in Unwritten => file[p] = Base(p) /\ index[p] = Base(p)
     /\ pc \in {"write"} \cup Written => simulated[p] = Patched(Base(p))
     /\ pc \in Written => file[p] = Patched(Base(p))
     /\ pc \in Tested => tested[p] = Patched(Base(p))
     /\ pc \in IsStaged => index[p] = Patched(Base(p))
     /\ pc \in IsCommitted => head[p] = Patched(Base(p))

\* The injected tests are in place, where nobody else writes them.
InjectionsKept ==
  /\ pc \in Scoped => Proposed \cap setup.locked = {}
  /\ setup.red /\ RedFile # HoldoutFile /\ RedFile \notin touched \cup lost =>
       /\ pc \in Injected /\ (pc \in Written => RedFile \notin Proposed) =>
             file[RedFile] = Plain("red")
       /\ pc \in Tested /\ RedFile \notin Proposed => tested[RedFile] = Plain("red")
  /\ setup.holdout /\ HoldoutFile \notin touched \cup lost =>
       /\ pc \in Prepared => file[HoldoutFile] = Plain("holdout")
       /\ pc \in Tested => tested[HoldoutFile] = Plain("holdout")

\* The commit was checked against the base, if it is the only one, and the checks before
\* and after it go by a status that is up to date.
ChecksKept ==
  /\ "committer" \notin setup.writers =>
       /\ pc \in Uncommitted => \A p \in Paths : head[p] = Base(p)
       /\ pc \in IsCommitted => \A p \in Paths : prior[p] = Base(p)
       /\ pc \in {"clean", "committed"} => Committed \subseteq Proposed
  /\ pc \in Unread => cache = NoCache
  /\ pc \in {"changed", "clean"} /\ "survivor" \notin setup.writers /\ cache # NoCache =>
        \E R \in Renames : cache = Status(R)
  /\ LeftoversAllowed /\ RefusalExplained

WorktreeInv == WorktreeTypes /\ ProposedKept /\ InjectionsKept /\ ChecksKept

\* A check that finds only allowed paths in the status has left no other change.
LEMMA CleanStatus ==
  ASSUME NEW R \in Renames, \A n \in Status(R) : Allowed(n), NEW p \in Paths, Differs(p)
  PROVE  Tolerable(p)
  <1>1. CASE Untracked(p) /\ ~Ignored(p)
    BY <1>1 DEF Status, Tolerable
  <1>2. CASE ~(Untracked(p) /\ ~Ignored(p)) /\ p \in Staged \ R
    BY <1>2 DEF Status, Tolerable, Shown
  <1>3. CASE ~(Untracked(p) /\ ~Ignored(p)) /\ p \in R
    <2>1. Deleted(p) /\ \A q \in R : q \in Paths /\ Deleted(q)
      BY <1>3 DEF Renames
    <2>2. PICK f \in [R -> {q \in Paths : Added(q)}] : TRUE
      BY DEF Renames, ExistsInjection, Injection
    <2>3. f[p] \in Paths /\ Added(f[p])
      BY <1>3, <2>2
    <2>4. f[p] \in Staged \ R
      BY <2>1, <2>3 DEF Added, Deleted, Staged
    <2>5. Allowed(f[p])
      BY <2>4 DEF Status
    <2> QED BY <1>3, <2>1, <2>3, <2>5 DEF Tolerable, Moved
  <1>4. CASE ~(Untracked(p) /\ ~Ignored(p)) /\ p \notin Staged
    <2>1. file[p] # index[p] /\ index[p] = head[p]
      BY <1>4 DEF Differs, Staged
    <2>2. CASE index[p] = Absent
      BY <1>4, <2>1, <2>2 DEF Untracked, Tolerable
    <2>3. CASE index[p] # Absent
      BY <1>4, <2>1, <2>3 DEF Status, Tolerable, Shown
    <2> QED BY <2>2, <2>3
  <1> QED BY <1>1, <1>2, <1>3, <1>4

\* A path of the status that is neither proposed nor allowed comes of an offending change.
LEMMA DirtyStatus ==
  ASSUME NEW R \in Renames, NEW n \in Status(R), n \notin Proposed, ~Allowed(n)
  PROVE  \E q \in Paths : Differs(q) /\ Offending(q)
  <1>1. CASE n \in Paths /\ Differs(n)
    BY <1>1 DEF Offending
  <1>2. CASE \E q \in Paths : Untracked(q) /\ ~Ignored(q) /\ n = Shown(q)
    <2>1. PICK q \in Paths : Untracked(q) /\ ~Ignored(q) /\ n = Shown(q)
      BY <1>2
    <2>2. Differs(q)
      BY <2>1 DEF Untracked, Differs
    <2>3. CASE n = q
      BY <2>2, <2>3 DEF Offending
    <2>4. CASE n # q
      BY <2>1, <2>2, <2>4 DEF Shown, Offending
    <2> QED BY <2>3, <2>4
  <1> QED BY <1>1, <1>2 DEF Status, Staged, Differs

LEMMA ContentFacts ==
  /\ \A p \in Paths : Base(p) \in Contents
  /\ \A c \in Contents : Patched(c) \in Contents
  /\ {Plain("foreign"), Plain("red"), Plain("holdout"), Absent} \subseteq Contents
  <1>1. {Plain("base"), Plain("foreign"), Plain("red"), Plain("holdout"), Absent} \subseteq Contents
    BY DEF Plain, Absent, Contents
  <1>2. \A p \in Paths : Base(p) \in Contents
    BY <1>1 DEF Base
  <1>3. \A c \in Contents : Patched(c) \in Contents
    BY DEF Patched, Contents
  <1> QED BY <1>1, <1>2, <1>3

LEMMA WorktreeStarts == WorktreeInit => WorktreeInv
  <1> SUFFICES ASSUME WorktreeInit PROVE WorktreeInv
    OBVIOUS
  <1>1. pc = "baseline" /\ setup \in Setups /\ Proposed \subseteq Paths
    BY SetupAssumption DEF WorktreeInit, Proposed
  <1>2. /\ file = [p \in Paths |-> Base(p)] /\ index = file /\ head = file
        /\ simulated = file /\ tested = file
    BY DEF WorktreeInit
  <1>3. file \in [Paths -> Contents]
    BY <1>2, ContentFacts
  <1>4. WorktreeTypes
    BY <1>1, <1>2, <1>3 DEF WorktreeTypes, Unwritten
  <1>5. ProposedKept
    BY <1>1, <1>2 DEF ProposedKept, Unwritten, Written, Tested, IsStaged, IsCommitted
  <1>6. InjectionsKept
    BY <1>1 DEF InjectionsKept, Written, Scoped, Injected, Tested, Prepared
  <1>7. pc \notin {"changed", "clean", "committed", "unexpected"} /\ cache = NoCache
    BY <1>1 DEF WorktreeInit
  <1>8. ChecksKept
    BY <1>1, <1>2, <1>7 DEF ChecksKept, LeftoversAllowed, RefusalExplained, IsCommitted
  <1> QED BY <1>4, <1>5, <1>6, <1>8 DEF WorktreeInv

\* Others write: on paths that count as touched from then on, and never after the
\* clean check unless they have outlived their command.
LEMMA OthersStep ==
  ASSUME WorktreeInv, OtherCommits \/ \E p \in Paths : OtherWrites(p) \/ OtherStages(p)
  PROVE  WorktreeInv'
  <1>t. WorktreeTypes /\ ProposedKept /\ InjectionsKept /\ ChecksKept
    BY DEF WorktreeInv
  <1>w. /\ pc \notin {"committed", "rejected", "unexpected"}
        /\ pc = "clean" => "survivor" \in setup.writers
    BY DEF OtherWrites, OtherStages, OtherCommits, Writing
  <1>c. pc = "changed" => "survivor" \in setup.writers
    BY DEF OtherWrites, OtherStages, OtherCommits, Writing
  <1>1. ASSUME NEW p \in Paths, OtherWrites(p) PROVE WorktreeInv'
    <2>1. PICK content \in {Plain("foreign"), Absent} : file' = [file EXCEPT ![p] = content]
      BY <1>1 DEF OtherWrites
    <2>2. /\ touched' = touched \cup {p}
          /\ UNCHANGED <<setup, pc, index, head, prior, simulated, cache, tested, lost>>
      BY <1>1 DEF OtherWrites
    <2>3. WorktreeTypes'
      BY <1>t, <2>1, <2>2, ContentFacts DEF WorktreeTypes
    <2>4. \A q \in Paths \ touched' : file'[q] = file[q]
      BY <1>t, <2>1, <2>2 DEF WorktreeTypes
    <2>5. Proposed' = Proposed /\ Proposed \subseteq Paths
      BY <1>t, <2>2, SetupAssumption DEF Proposed, WorktreeTypes
    <2>6. ProposedKept'
      BY <1>t, <2>2, <2>4, <2>5 DEF ProposedKept
    <2>7. InjectionsKept'
      BY <1>t, <2>2, <2>4, <2>5, PathAssumption DEF InjectionsKept
    <2>8. ChecksKept'
      BY <1>t, <1>w, <1>c, <2>2, <2>5 DEF ChecksKept, LeftoversAllowed, RefusalExplained, Committed
    <2> QED BY <2>3, <2>6, <2>7, <2>8 DEF WorktreeInv
  <1>2. ASSUME NEW p \in Paths, OtherStages(p) PROVE WorktreeInv'
    <2>1. /\ index' = [index EXCEPT ![p] = file[p]]
          /\ UNCHANGED <<setup, pc, file, head, prior, simulated, cache, tested, lost, touched>>
      BY <1>2 DEF OtherStages, others
    <2>2. WorktreeTypes'
      BY <1>t, <2>1 DEF WorktreeTypes
    <2>3. \A q \in Paths : index'[q] = index[q] \/ index'[q] = file[q]
      BY <1>t, <2>1 DEF WorktreeTypes
    <2>4. Proposed' = Proposed /\ Proposed \subseteq Paths
      BY <1>t, <2>1, SetupAssumption DEF Proposed, WorktreeTypes
    <2>5. ProposedKept'
      BY <1>t, <2>1, <2>3, <2>4 DEF ProposedKept, IsStaged, Written
    <2>6. InjectionsKept'
      BY <1>t, <2>1, <2>4 DEF InjectionsKept
    <2>7. ChecksKept'
      BY <1>t, <1>w, <1>c, <2>1, <2>4 DEF ChecksKept, LeftoversAllowed, RefusalExplained, Committed
    <2> QED BY <2>2, <2>5, <2>6, <2>7 DEF WorktreeInv
  <1>3. CASE OtherCommits
    <2>1. /\ head' = index /\ "committer" \in setup.writers
          /\ UNCHANGED <<setup, pc, file, index, simulated, cache, tested, lost, touched>>
      BY <1>3 DEF OtherCommits, others
    <2>2. WorktreeTypes'
      BY <1>t, <2>1 DEF WorktreeTypes
    <2>3. Proposed' = Proposed /\ Proposed \subseteq Paths
      BY <1>t, <2>1, SetupAssumption DEF Proposed, WorktreeTypes
    <2>4. ProposedKept'
      BY <1>t, <2>1, <2>3 DEF ProposedKept, IsStaged, IsCommitted
    <2>5. InjectionsKept'
      BY <1>t, <2>1, <2>3 DEF InjectionsKept
    <2>6. ChecksKept'
      BY <1>t, <1>w, <1>c, <2>1 DEF ChecksKept, LeftoversAllowed, RefusalExplained
    <2> QED BY <2>2, <2>4, <2>5, <2>6 DEF WorktreeInv
  <1> QED BY <1>1, <1>2, <1>3

\* A step of execute_transaction that writes nothing and only goes on.
LEMMA GoesOnTo ==
  ASSUME WorktreeInv, UNCHANGED <<setup, files, simulated, tested, touched>>,
         \/ lost' = lost /\ UNCHANGED cache
         \/ pc' = pc /\ pc \in {"changed", "clean"} /\ lost' = lost
            /\ \E R \in Renames : cache' = Status(R)
         \/ pc = "red" /\ lost' = lost \cup {RedFile} /\ UNCHANGED cache
         \/ pc = "build" /\ lost' = lost \cup {HoldoutFile} /\ UNCHANGED cache,
         \/ pc = "baseline" /\ pc' = "red"
         \/ pc = "red" /\ pc' = "pre" /\ (setup.red => lost' = lost \cup {RedFile})
         \/ pc = "pre" /\ pc' = "simulate" /\ Proposed \cap setup.locked = {}
         \/ pc = "verify" /\ pc' = "build"
         \/ pc = "build" /\ pc' = "regression" /\ lost' = lost \cup {HoldoutFile}
         \/ pc = "tests" /\ pc' = "changed"
         \/ pc = "changed" /\ pc' = "stage"
         \/ pc = "staged" /\ pc' = "commit"
         \/ pc = "hooked" /\ pc' = "clean" /\ {p \in Paths : head[p] # prior[p]} \subseteq Proposed
         \/ pc = "clean" /\ pc' = "committed" /\ (\A n \in cache : Allowed(n)) /\ cache # NoCache
         \/ pc = "changed" /\ pc' = "unexpected" /\ Unexpected # {} /\ cache # NoCache
         \/ pc' = "rejected"
         \/ pc' = pc
  PROVE  WorktreeInv'
  <1>t. WorktreeTypes /\ ProposedKept /\ InjectionsKept /\ ChecksKept
    BY DEF WorktreeInv
  <1>u. UNCHANGED <<setup, file, index, head, prior, simulated, tested, touched>>
    BY DEF files
  <1>p. Proposed' = Proposed /\ Committed' = Committed
    BY <1>u DEF Proposed, Committed
  <1>1. WorktreeTypes'
    BY <1>t, <1>u DEF WorktreeTypes, Unwritten, Written
  <1>2. ProposedKept'
    BY <1>t, <1>u, <1>p
    DEF ProposedKept, Unwritten, Written, Tested, IsStaged, IsCommitted
  <1>3. InjectionsKept'
    BY <1>t, <1>u, <1>p
    DEF InjectionsKept, Unwritten, Written, Scoped, Injected, Prepared, Tested
  <1>4. ChecksKept'
    <2>1. /\ pc' \in Unread => cache' = NoCache
          /\ "committer" \notin setup'.writers =>
               /\ pc' \in Uncommitted => \A p \in Paths : head'[p] = Base(p)
               /\ pc' \in IsCommitted => \A p \in Paths : prior'[p] = Base(p)
      BY <1>t, <1>u DEF ChecksKept, Unread, Unwritten, Uncommitted, IsCommitted
    <2>a. "committer" \notin setup'.writers /\ pc' \in {"clean", "committed"} =>
             Committed' \subseteq Proposed'
      BY <1>t, <1>u, <1>p DEF ChecksKept, Committed, IsCommitted
    <2>2. Renames' = Renames /\ \A R \in Renames : Status(R)' = Status(R)
      BY <1>u DEF Renames, Deleted, Added, Status, Staged, Shown, Untracked, Ignored, NewDir
    <2>3. pc' \in {"changed", "clean"} /\ "survivor" \notin setup'.writers /\ cache' # NoCache =>
             \E R \in Renames' : cache' = Status(R)'
      BY <1>t, <1>u, <2>2 DEF ChecksKept, Unread
    <2>4. ASSUME pc = "clean", pc' = "committed", "survivor" \notin setup.writers
          PROVE  \A p \in Paths : Differs(p) => Tolerable(p)
      <3>1. PICK R \in Renames : cache = Status(R)
        BY <1>t, <2>4 DEF ChecksKept
      <3>2. \A n \in Status(R) : Allowed(n)
        BY <2>4, <3>1
      <3> QED BY <3>2, CleanStatus
    <2>5. (\A p \in Paths : Differs(p) => Tolerable(p))' <=>
             \A p \in Paths : Differs(p) => Tolerable(p)
      BY <1>u DEF Tolerable, Moved, Deleted, Added, Shown, Untracked, Ignored, Differs, NewDir,
                  Allowed
    <2>6. LeftoversAllowed'
      BY <1>t, <1>u, <2>4, <2>5 DEF ChecksKept, LeftoversAllowed
    <2>7. ASSUME pc' = "unexpected", pc # "unexpected", "survivor" \notin setup.writers
          PROVE  \E q \in Paths : Differs(q) /\ Offending(q)
      <3>1. PICK R \in Renames : cache = Status(R)
        BY <1>t, <2>7 DEF ChecksKept
      <3>2. PICK n \in Status(R) : n \notin Proposed /\ ~Allowed(n)
        BY <2>7, <3>1 DEF Unexpected
      <3> QED BY <3>2, DirtyStatus
    <2>8. (\E q \in Paths : Differs(q) /\ Offending(q))' <=>
          (\E q \in Paths : Differs(q) /\ Offending(q))
      BY <1>u, <1>p DEF Offending, Untracked, Ignored, Differs, NewDir, Allowed
    <2>9. RefusalExplained'
      BY <1>t, <1>u, <2>7, <2>8 DEF ChecksKept, RefusalExplained
    <2> QED BY <2>1, <2>a, <2>3, <2>6, <2>9 DEF ChecksKept
  <1> QED BY <1>1, <1>2, <1>3, <1>4 DEF WorktreeInv

\* A step that writes one injected test, or none where there is none to inject.
LEMMA Injecting ==
  ASSUME WorktreeInv, InjectRed \/ InjectHoldout
  PROVE  WorktreeInv'
  <1>t. WorktreeTypes /\ ProposedKept /\ InjectionsKept /\ ChecksKept
    BY DEF WorktreeInv
  <1>u. /\ UNCHANGED <<setup, index, head, prior, simulated, cache, tested, lost, touched>>
        /\ \/ pc = "red" /\ pc' = "pre"
           \/ pc = "build" /\ pc' = "regression"
        /\ \A q \in Paths \ {RedFile, HoldoutFile} : file'[q] = file[q]
        /\ file' \in [Paths -> Contents]
    BY <1>t, ContentFacts, PathAssumption
    DEF InjectRed, InjectHoldout, Goto, others, WorktreeTypes
  <1>p. Proposed' = Proposed /\ Committed' = Committed /\ Proposed \subseteq Paths
    BY <1>t, <1>u, SetupAssumption DEF Proposed, Committed, WorktreeTypes
  <1>1. WorktreeTypes'
    BY <1>t, <1>u DEF WorktreeTypes, Unwritten, Written
  <1>2. ProposedKept'
    BY <1>t, <1>u, <1>p
    DEF ProposedKept, Unwritten, Written, Tested, IsStaged, IsCommitted
  <1>3. ChecksKept'
    BY <1>t, <1>u
    DEF ChecksKept, LeftoversAllowed, RefusalExplained, Unread, Unwritten, Uncommitted, IsCommitted
  <1>4. InjectionsKept'
    <2>1. CASE InjectRed
      <3>1. pc = "red" /\ pc' = "pre" /\ (setup.red => file'[RedFile] = Plain("red"))
        BY <1>t, <2>1, PathAssumption DEF InjectRed, Goto, WorktreeTypes
      <3> QED BY <1>u, <3>1 DEF InjectionsKept, Scoped, Written, Tested, Prepared
    <2>2. CASE InjectHoldout
      <3>1. /\ pc = "build" /\ pc' = "regression"
            /\ setup.holdout => file'[HoldoutFile] = Plain("holdout")
            /\ RedFile # HoldoutFile => file'[RedFile] = file[RedFile]
        BY <1>t, <2>2, PathAssumption DEF InjectHoldout, Goto, WorktreeTypes
      <3> QED BY <1>t, <1>u, <1>p, <3>1
              DEF InjectionsKept, Injected, Scoped, Written, Tested, Prepared
    <2> QED BY <2>1, <2>2
  <1> QED BY <1>1, <1>2, <1>3, <1>4 DEF WorktreeInv

\* The steps that write, test, stage and commit.
LEMMA Advancing ==
  ASSUME WorktreeInv, Simulate \/ Write \/ RunTests \/ Stage \/ Commit
  PROVE  WorktreeInv'
  <1>t. WorktreeTypes /\ ProposedKept /\ InjectionsKept /\ ChecksKept
    BY DEF WorktreeInv
  <1>u. UNCHANGED <<setup, lost, touched>>
    BY DEF Simulate, Write, RunTests, Stage, Commit, others, files
  <1>p. Proposed' = Proposed /\ Proposed \subseteq Paths
    BY <1>t, <1>u, SetupAssumption DEF Proposed, WorktreeTypes
  <1>1. CASE Simulate
    <2>1. /\ pc = "simulate" /\ pc' = "write"
          /\ UNCHANGED <<file, index, head, prior, cache, tested>>
          /\ simulated' = [p \in Paths |-> IF p \in Proposed THEN Patched(file[p]) ELSE file[p]]
      BY <1>1 DEF Simulate, Goto, files
    <2>2. WorktreeTypes'
      BY <1>t, <1>u, <2>1, ContentFacts DEF WorktreeTypes, Unwritten
    <2>3. ProposedKept'
      BY <1>t, <1>u, <1>p, <2>1
      DEF ProposedKept, Unwritten, Written, Tested, IsStaged, IsCommitted
    <2>4. InjectionsKept' /\ ChecksKept'
      BY <1>t, <1>u, <1>p, <2>1
      DEF InjectionsKept, Injected, Scoped, Written, Tested, Prepared, ChecksKept,
          LeftoversAllowed, RefusalExplained, Unread, Unwritten, Uncommitted, IsCommitted
    <2> QED BY <2>2, <2>3, <2>4 DEF WorktreeInv
  <1>2. CASE Write
    <2>1. /\ pc = "write" /\ pc' = "verify"
          /\ UNCHANGED <<index, head, prior, simulated, cache, tested>>
          /\ file' = [p \in Paths |-> IF p \in Proposed THEN simulated[p] ELSE file[p]]
      BY <1>2 DEF Write, Goto
    <2>2. WorktreeTypes'
      BY <1>t, <1>u, <2>1 DEF WorktreeTypes, Written
    <2>3. ProposedKept'
      BY <1>t, <1>u, <1>p, <2>1
      DEF ProposedKept, Unwritten, Written, Tested, IsStaged, IsCommitted
    <2>4. InjectionsKept' /\ ChecksKept'
      BY <1>t, <1>u, <1>p, <2>1, PathAssumption
      DEF InjectionsKept, Injected, Scoped, Written, Tested, Prepared, ChecksKept,
          LeftoversAllowed, RefusalExplained, Unread, Unwritten, Uncommitted, IsCommitted
    <2> QED BY <2>2, <2>3, <2>4 DEF WorktreeInv
  <1>3. CASE RunTests
    <2>1. /\ pc = "regression" /\ pc' = "tests" /\ tested' = file
          /\ UNCHANGED <<file, index, head, prior, simulated, cache>>
      BY <1>3 DEF RunTests, Goto, files
    <2>2. WorktreeTypes'
      BY <1>t, <1>u, <2>1 DEF WorktreeTypes, Written
    <2>3. ProposedKept'
      BY <1>t, <1>u, <1>p, <2>1
      DEF ProposedKept, Unwritten, Written, Tested, IsStaged, IsCommitted
    <2>4. InjectionsKept' /\ ChecksKept'
      BY <1>t, <1>u, <1>p, <2>1
      DEF InjectionsKept, Injected, Scoped, Written, Tested, Prepared, ChecksKept,
          LeftoversAllowed, RefusalExplained, Unread, Unwritten, Uncommitted, IsCommitted
    <2> QED BY <2>2, <2>3, <2>4 DEF WorktreeInv
  <1>4. CASE Stage
    <2>1. /\ pc = "stage" /\ pc' = "staged" /\ cache' = NoCache
          /\ UNCHANGED <<file, head, prior, simulated, tested>>
          /\ index' = [p \in Paths |-> IF p \in Proposed THEN file[p] ELSE index[p]]
      BY <1>4 DEF Stage, Goto, InvalidateStatusCache
    <2>2. WorktreeTypes'
      BY <1>t, <1>u, <2>1 DEF WorktreeTypes, Written
    <2>3. ProposedKept'
      BY <1>t, <1>u, <1>p, <2>1
      DEF ProposedKept, Unwritten, Written, Tested, IsStaged, IsCommitted
    <2>4. InjectionsKept' /\ ChecksKept'
      BY <1>t, <1>u, <1>p, <2>1
      DEF InjectionsKept, Injected, Scoped, Written, Tested, Prepared, ChecksKept,
          LeftoversAllowed, RefusalExplained, Unread, Unwritten, Uncommitted, IsCommitted
    <2> QED BY <2>2, <2>3, <2>4 DEF WorktreeInv
  <1>5. CASE Commit
    <2>1. /\ pc = "commit" /\ pc' = "hooked" /\ cache' = NoCache /\ head' = index /\ prior' = head
          /\ UNCHANGED <<file, index, simulated, tested>>
      BY <1>5 DEF Commit, Goto, InvalidateStatusCache
    <2>2. WorktreeTypes'
      BY <1>t, <1>u, <2>1 DEF WorktreeTypes, Written
    <2>3. ProposedKept'
      BY <1>t, <1>u, <1>p, <2>1
      DEF ProposedKept, Unwritten, Written, Tested, IsStaged, IsCommitted
    <2>4. InjectionsKept' /\ ChecksKept'
      BY <1>t, <1>u, <1>p, <2>1
      DEF InjectionsKept, Injected, Scoped, Written, Tested, Prepared, ChecksKept,
          LeftoversAllowed, RefusalExplained, Unread, Unwritten, Uncommitted, IsCommitted
    <2> QED BY <2>2, <2>3, <2>4 DEF WorktreeInv
  <1> QED BY <1>1, <1>2, <1>3, <1>4, <1>5

LEMMA WorktreeSteps == WorktreeInv /\ [WorktreeNext]_wtVars => WorktreeInv'
  <1> SUFFICES ASSUME WorktreeInv, [WorktreeNext]_wtVars PROVE WorktreeInv'
    OBVIOUS
  <1>1. CASE OtherCommits \/ \E p \in Paths : OtherWrites(p) \/ OtherStages(p)
    BY <1>1, OthersStep
  <1>2. CASE InjectRed \/ InjectHoldout
    BY <1>2, Injecting
  <1>3. CASE Simulate \/ Write \/ RunTests \/ Stage \/ Commit
    BY <1>3, Advancing
  <1>4. CASE BaselineCaptured \/ ScopePasses \/ Verify \/ TestsPass \/ ChangesVerified
             \/ ChangesUnexpected \/ StagedVerified \/ CommitVerified \/ Clean \/ Reject
    <2>1. UNCHANGED <<setup, files, simulated, tested, lost, touched, cache>>
      BY <1>4 DEF BaselineCaptured, ScopePasses, Verify, TestsPass, ChangesVerified,
         ChangesUnexpected, StagedVerified, CommitVerified, Clean, Reject, others
    <2>2. \/ pc = "baseline" /\ pc' = "red"
          \/ pc = "pre" /\ pc' = "simulate" /\ Proposed \cap setup.locked = {}
          \/ pc = "verify" /\ pc' = "build"
          \/ pc = "tests" /\ pc' = "changed"
          \/ pc = "changed" /\ pc' = "stage"
          \/ pc = "staged" /\ pc' = "commit"
          \/ /\ pc = "hooked" /\ pc' = "clean"
             /\ {p \in Paths : head[p] # prior[p]} \subseteq Proposed
          \/ /\ pc = "clean" /\ pc' = "committed" /\ (\A n \in cache : Allowed(n))
             /\ cache # NoCache
          \/ pc = "changed" /\ pc' = "unexpected" /\ Unexpected # {} /\ cache # NoCache
          \/ pc' = "rejected"
      BY <1>4 DEF BaselineCaptured, ScopePasses, Verify, TestsPass, ChangesVerified,
         ChangesUnexpected, StagedVerified, CommitVerified, Clean, Reject, Goto
    <2> QED BY <2>1, <2>2, GoesOnTo
  <1>5. CASE InjectRedFails \/ InjectHoldoutFails
    <2>1. UNCHANGED <<setup, files, simulated, tested, touched, cache>>
      BY <1>5 DEF InjectRedFails, InjectHoldoutFails, others
    <2>2. \/ pc = "red" /\ pc' = "pre" /\ lost' = lost \cup {RedFile}
          \/ pc = "build" /\ pc' = "regression" /\ lost' = lost \cup {HoldoutFile}
      BY <1>5 DEF InjectRedFails, InjectHoldoutFails, Goto
    <2> QED BY <2>1, <2>2, GoesOnTo
  <1>6. CASE ReadStatus
    <2>1. /\ UNCHANGED <<setup, files, simulated, tested, touched, lost, pc>>
          /\ pc \in {"changed", "clean"} /\ \E R \in Renames : cache' = Status(R)
      BY <1>6 DEF ReadStatus, others
    <2> QED BY <2>1, GoesOnTo
  <1>7. CASE UNCHANGED wtVars
    <2>1. UNCHANGED <<setup, files, simulated, tested, touched, lost, pc, cache>>
      BY <1>7 DEF wtVars, files, others
    <2> QED BY <2>1, GoesOnTo
  <1> QED BY <1>1, <1>2, <1>3, <1>4, <1>5, <1>6, <1>7 DEF WorktreeNext

LEMMA WorktreeHolds == WorktreeSpec => []WorktreeInv
  BY WorktreeStarts, WorktreeSteps, PTL DEF WorktreeSpec

\* Only files of the proposal are committed, whatever tools and hooks write and stage.
THEOREM CommitIsConfined == WorktreeSpec => []CommitConfined
  <1>1. WorktreeInv => CommitConfined
    BY DEF WorktreeInv, ChecksKept, CommitConfined
  <1> QED BY <1>1, WorktreeHolds, PTL

\* The check after the commit has seen all that the hooks left, and a proposal is refused for
\* its changes only where there is one it should not have, or a directory that git names
\* in place of its files.
THEOREM ChangesAreJudged == WorktreeSpec => []ChangesJudged
  <1>1. WorktreeInv => ChangesJudged
    BY DEF WorktreeInv, ChecksKept, ChangesJudged
  <1> QED BY <1>1, WorktreeHolds, PTL

\* What is committed is what the proposal made of the base, and what was tested, with
\* the injected tests in place.
THEOREM CommitWasTested == WorktreeSpec => []CommittedAsTested
  <1>1. WorktreeInv => CommittedAsTested
    <2> SUFFICES ASSUME WorktreeInv, pc = "committed" PROVE CommittedAsTested
      BY DEF CommittedAsTested
    <2> DEFINE exposed == {RedFile, HoldoutFile} \ setup.locked
    <2>1. pc \in Scoped /\ pc \in Tested /\ pc \in IsCommitted
      BY DEF Scoped, Written, Tested, IsCommitted
    <2>2. Proposed \cap {RedFile, HoldoutFile} \subseteq exposed
      BY <2>1 DEF WorktreeInv, InjectionsKept
    <2>3. \A p \in Proposed \ (touched \cup exposed) :
             head[p] = Patched(Base(p)) /\ tested[p] = Patched(Base(p))
      BY <2>1, <2>2 DEF WorktreeInv, ProposedKept
    <2>4. setup.red /\ RedFile # HoldoutFile
            /\ RedFile \notin touched \cup lost \cup (Proposed \cap exposed)
            => tested[RedFile] = Plain("red")
      BY <2>1, <2>2 DEF WorktreeInv, InjectionsKept
    <2>5. setup.holdout /\ HoldoutFile \notin touched \cup lost
            => tested[HoldoutFile] = Plain("holdout")
      BY <2>1 DEF WorktreeInv, InjectionsKept
    <2> QED BY <2>3, <2>4, <2>5 DEF CommittedAsTested
  <1> QED BY <1>1, WorktreeHolds, PTL

-----------------------------------------------------------------------------
\* The patch: several hunks, one after the other.

\* What one hunk makes of the results of those before it.
EditAll(results, h, like) == UNION {Edits(raw, h, like) : raw \in results}

\* A step of the recursion by which FoldLeft takes the hunks s, the last one first; e
\* solves it for n of them.
Newest(D) == Max(D)
EditStep(e, first, s, like, D) ==
  IF D = {} THEN first ELSE EditAll(e[D \ {Newest(D)}], s[Newest(D)], like)
Solves(e, first, s, like, n) == e = [D \in SUBSET (1..n) |-> EditStep(e, first, s, like, D)]

Agree(u, s, n) == \A i \in 1..n : u[i] = s[i]

LEMMA NewestIsMax ==
  ASSUME NEW n \in Nat, NEW D \in SUBSET (1..(n + 1)), n + 1 \in D
  PROVE  Newest(D) = n + 1
<1>1. \A y \in D : y \in Nat /\ n + 1 >= y
  OBVIOUS
<1>2. \A x \in D : (\A y \in D : x >= y) => x = n + 1
  BY <1>1
<1> QED BY <1>1, <1>2 DEF Newest, Max

\* A finite set of numbers that is not empty has a newest one.
LEMMA NewestInside ==
  ASSUME NEW n \in Nat, NEW D \in SUBSET (1..n), D # {}
  PROVE  Newest(D) \in D
<1> DEFINE Bounds == {m \in Nat : \A y \in D : m >= y}
<1>1. n \in Bounds
  OBVIOUS
<1>2. PICK m \in Bounds : \A k \in Bounds : ~(k < m)
  <2> Bounds \in SUBSET Nat
    OBVIOUS
  <2> HIDE DEF Bounds
  <2> QED BY <1>1, LeastNumber
<1>3. m \in D
  <2> SUFFICES ASSUME m \notin D PROVE FALSE
    OBVIOUS
  <2>1. PICK d \in D : TRUE
    OBVIOUS
  <2>2. m >= d /\ d \in 1..n /\ m \in Nat
    OBVIOUS
  <2>3. m - 1 \in Nat /\ m - 1 < m
    BY <2>2
  <2>4. \A y \in D : m - 1 >= y
    <3> TAKE y \in D
    <3>1. m >= y /\ m # y /\ y \in 1..n
      OBVIOUS
    <3> QED BY <2>2, <3>1
  <2> QED BY <1>2, <2>3, <2>4
<1>4. \E x \in D : \A y \in D : x >= y
  BY <1>3
<1> QED BY <1>4 DEF Newest, Max

\* A solution for n hunks extends to one for n + 1.
LEMMA SolutionGrows ==
  ASSUME NEW n \in Nat, NEW e, NEW first, NEW s, NEW u, NEW like,
         Solves(e, first, s, like, n), Agree(u, s, n)
  PROVE  \E g : /\ Solves(g, first, u, like, n + 1)
                /\ g[1..(n + 1)] = EditAll(e[1..n], u[n + 1], like)
<1> DEFINE g == [D \in SUBSET (1..(n + 1)) |->
                   IF n + 1 \in D THEN EditAll(e[D \ {n + 1}], u[n + 1], like) ELSE e[D]]
<1>1. ASSUME NEW D \in SUBSET (1..(n + 1)) PROVE g[D] = EditStep(g, first, u, like, D)
  <2>1. CASE n + 1 \in D
    <3>1. Newest(D) = n + 1 /\ D # {}
      BY <2>1, NewestIsMax
    <3>2. /\ D \ {n + 1} \in SUBSET (1..(n + 1)) /\ n + 1 \notin D \ {n + 1}
      OBVIOUS
    <3>3. g[D \ {n + 1}] = e[D \ {n + 1}]
      BY <3>2
    <3>4. g[D] = EditAll(e[D \ {n + 1}], u[n + 1], like)
      BY <2>1
    <3> HIDE DEF g
    <3> QED BY <3>1, <3>3, <3>4 DEF EditStep
  <2>2. CASE n + 1 \notin D
    <3>1. D \in SUBSET (1..n)
      BY <2>2
    <3>2. g[D] = e[D] /\ e[D] = EditStep(e, first, s, like, D)
      BY <2>2, <3>1 DEF Solves
    <3>3. CASE D = {}
      BY <3>2, <3>3 DEF EditStep
    <3>4. CASE D # {}
      <4>1. Newest(D) \in D
        BY <3>1, <3>4, NewestInside
      <4>2. u[Newest(D)] = s[Newest(D)]
        BY <3>1, <4>1 DEF Agree
      <4>3. g[D \ {Newest(D)}] = e[D \ {Newest(D)}]
        BY <2>2
      <4> HIDE DEF g
      <4> QED BY <3>2, <3>4, <4>2, <4>3 DEF EditStep
    <3> QED BY <3>3, <3>4
  <2> QED BY <2>1, <2>2
<1>2. g = [D \in SUBSET (1..(n + 1)) |-> g[D]]
  OBVIOUS
<1>3. g = [D \in SUBSET (1..(n + 1)) |-> EditStep(g, first, u, like, D)]
  <2> HIDE DEF g
  <2> QED BY <1>1, <1>2
<1>4. g[1..(n + 1)] = EditAll(e[1..n], u[n + 1], like)
  <2>1. n + 1 \in 1..(n + 1) /\ (1..(n + 1)) \ {n + 1} = 1..n
    OBVIOUS
  <2> QED BY <2>1
<1> QED BY <1>3, <1>4 DEF Solves

LEMMA SolutionExists ==
  ASSUME NEW n \in Nat, NEW first, NEW s, NEW like
  PROVE  \E e : Solves(e, first, s, like, n)
<1> DEFINE Bad == {m \in Nat : ~ \E e : Solves(e, first, s, like, m)}
<1> SUFFICES ASSUME Bad # {} PROVE FALSE
  OBVIOUS
<1>1. PICK m \in Bad : \A k \in Bad : ~(k < m)
  <2> Bad \in SUBSET Nat
    OBVIOUS
  <2> HIDE DEF Bad
  <2> QED BY LeastNumber
<1>2. m # 0
  <2> DEFINE e == [D \in SUBSET (1..0) |-> first]
  <2>1. \A D \in SUBSET (1..0) : D = {}
    OBVIOUS
  <2>2. \A D \in SUBSET (1..0) : EditStep(e, first, s, like, D) = first
    BY <2>1 DEF EditStep
  <2>3. Solves(e, first, s, like, 0)
    BY <2>2 DEF Solves
  <2> QED BY <2>3
<1>3. m - 1 \in Nat /\ m - 1 < m /\ (m - 1) + 1 = m
  BY <1>2
<1>4. PICK e : Solves(e, first, s, like, m - 1)
  BY <1>1, <1>3
<1>5. \E g : Solves(g, first, s, like, (m - 1) + 1)
  <2>1. Agree(s, s, m - 1)
    BY DEF Agree
  <2> QED BY <1>3, <1>4, <2>1, SolutionGrows
<1> QED BY <1>3, <1>5

\* It is the only one.
LEMMA SolutionIsUnique ==
  ASSUME NEW n \in Nat, NEW first, NEW s, NEW like,
         NEW e, Solves(e, first, s, like, n), NEW g, Solves(g, first, s, like, n)
  PROVE  e[1..n] = g[1..n]
<1> DEFINE Bad == {m \in Nat : m <= n /\ \E D \in SUBSET (1..m) : e[D] # g[D]}
<1> SUFFICES ASSUME Bad # {} PROVE FALSE
  <2>1. 1..n \in SUBSET (1..n) /\ n <= n
    OBVIOUS
  <2>2. n \notin Bad => e[1..n] = g[1..n]
    BY <2>1
  <2> HIDE DEF Bad
  <2> QED BY <2>2
<1>1. PICK m \in Bad : \A k \in Bad : ~(k < m)
  <2> Bad \in SUBSET Nat
    OBVIOUS
  <2> HIDE DEF Bad
  <2> QED BY LeastNumber
<1>2. PICK D \in SUBSET (1..m) : e[D] # g[D]
  OBVIOUS
<1>3. D \in SUBSET (1..n)
  OBVIOUS
<1>4. /\ e[D] = EditStep(e, first, s, like, D)
      /\ g[D] = EditStep(g, first, s, like, D)
  BY <1>3 DEF Solves
<1>5. D # {} /\ m # 0
  BY <1>2, <1>4 DEF EditStep
<1>6. m - 1 \in Nat /\ m - 1 < m /\ (m - 1) + 1 = m /\ m - 1 <= n
  BY <1>5
<1>7. m \in D
  <2> SUFFICES ASSUME m \notin D PROVE FALSE
    OBVIOUS
  <2>1. D \in SUBSET (1..(m - 1))
    OBVIOUS
  <2>2. m - 1 \in Bad
    BY <1>2, <1>6, <2>1
  <2> QED BY <1>1, <1>6, <2>2
<1>8. Newest(D) = m
  BY <1>6, <1>7, NewestIsMax
<1>9. D \ {m} \in SUBSET (1..(m - 1))
  OBVIOUS
<1>10. e[D \ {m}] = g[D \ {m}]
  <2>1. m - 1 \notin Bad
    BY <1>1, <1>6
  <2> QED BY <1>6, <1>9, <2>1
<1> QED BY <1>2, <1>4, <1>5, <1>8, <1>10 DEF EditStep

\* EditsOfAll is the solution's value for all the hunks.
LEMMA EditsSolve ==
  ASSUME NEW S, NEW s \in Seq(S), NEW first, NEW like
  PROVE  \E e : /\ Solves(e, first, s, like, Len(s))
                /\ EditsOfAll(first, s, like) = e[1..Len(s)]
<1> DEFINE e == CHOOSE g : Solves(g, first, s, like, Len(s))
<1>0. Len(s) \in Nat /\ DOMAIN s = 1..Len(s)
  OBVIOUS
<1>1. Solves(e, first, s, like, Len(s))
  BY <1>0, SolutionExists
<1>2. EditsOfAll(first, s, like) = e[1..Len(s)]
  BY <1>0 DEF EditsOfAll, FoldLeft, MapThenFoldSet, Solves, EditStep, EditAll, Newest
<1> QED BY <1>1, <1>2

\* No hunk changes nothing.
LEMMA EditsOfNone == ASSUME NEW first, NEW like PROVE EditsOfAll(first, <<>>, like) = first
<1>1. <<>> \in Seq({}) /\ Len(<<>>) = 0 /\ 1..0 = {}
  OBVIOUS
<1>2. PICK e : /\ Solves(e, first, <<>>, like, 0)
               /\ EditsOfAll(first, <<>>, like) = e[1..0]
  BY <1>1, EditsSolve
<1>3. e[{}] = first
  BY <1>2 DEF Solves, EditStep
<1> QED BY <1>1, <1>2, <1>3

\* One more hunk edits what those before it have made.
LEMMA EditsOfOneMore ==
  ASSUME NEW S, NEW s \in Seq(S), NEW h \in S, NEW first, NEW like
  PROVE  EditsOfAll(first, Append(s, h), like) = EditAll(EditsOfAll(first, s, like), h, like)
<1> DEFINE u == Append(s, h)
<1> DEFINE n == Len(s)
<1>1. /\ n \in Nat /\ u \in Seq(S) /\ Len(u) = n + 1 /\ u[n + 1] = h
      /\ Agree(u, s, n)
  BY DEF Agree
<1> HIDE DEF u, n
<1>2. PICK e : Solves(e, first, s, like, n) /\ EditsOfAll(first, s, like) = e[1..n]
  BY EditsSolve DEF n
<1>3. PICK f : Solves(f, first, u, like, n + 1) /\ EditsOfAll(first, u, like) = f[1..(n + 1)]
  BY <1>1, EditsSolve
<1>4. PICK g : /\ Solves(g, first, u, like, n + 1)
               /\ g[1..(n + 1)] = EditAll(e[1..n], u[n + 1], like)
  BY <1>1, <1>2, SolutionGrows
<1>5. n + 1 \in Nat
  BY <1>1
<1>6. f[1..(n + 1)] = g[1..(n + 1)]
  BY <1>3, <1>4, <1>5, SolutionIsUnique
<1> QED BY <1>1, <1>2, <1>3, <1>4, <1>6 DEF u

-----------------------------------------------------------------------------
\* One sequence after another.

Join(s, t) == s \o t

LEMMA JoinType == ASSUME NEW S, NEW s \in Seq(S), NEW t \in Seq(S) PROVE Join(s, t) \in Seq(S)
BY DEF Join

LEMMA JoinAt ==
  ASSUME NEW S, NEW s \in Seq(S), NEW t \in Seq(S)
  PROVE  /\ Len(Join(s, t)) = Len(s) + Len(t)
         /\ \A i \in 1..(Len(s) + Len(t)) :
               Join(s, t)[i] = IF i <= Len(s) THEN s[i] ELSE t[i - Len(s)]
BY ConcatProperties DEF Join

JoinIs(c, s, t) ==
  \A i \in 1..(Len(s) + Len(t)) : c[i] = IF i <= Len(s) THEN s[i] ELSE t[i - Len(s)]

LEMMA JoinEach ==
  ASSUME NEW S, NEW s \in Seq(S), NEW t \in Seq(S) PROVE JoinIs(Join(s, t), s, t)
BY JoinAt DEF JoinIs

LEMMA JoinNone ==
  ASSUME NEW S, NEW s \in Seq(S) PROVE Join(s, <<>>) = s /\ Join(<<>>, s) = s
BY ConcatEmptySeq DEF Join

LEMMA JoinAssociative ==
  ASSUME NEW S, NEW s \in Seq(S), NEW t \in Seq(S), NEW u \in Seq(S)
  PROVE  Join(Join(s, t), u) = Join(s, Join(t, u))
BY DEF Join

LEMMA JoinLast ==
  ASSUME NEW S, NEW s \in Seq(S), NEW x \in S PROVE Append(s, x) = Join(s, <<x>>)
BY AppendIsConcat DEF Join

-----------------------------------------------------------------------------
\* Gluing pieces together (FlattenSeq).

\* The recursion by which FlattenSeq glues the pieces s, n of them.
Glues(f, s, n) == f = [i \in 1..n |-> IF i = 1 THEN s[i] ELSE f[i - 1] \o s[i]]

LEMMA GluesStep ==
  ASSUME NEW n \in Nat, NEW f, NEW s, Glues(f, s, n), NEW i \in 1..n
  PROVE  f[i] = IF i = 1 THEN s[i] ELSE f[i - 1] \o s[i]
<1> DEFINE e == [k \in 1..n |-> IF k = 1 THEN s[k] ELSE f[k - 1] \o s[k]]
<1>1. f = e
  BY DEF Glues
<1>2. e[i] = IF i = 1 THEN s[i] ELSE f[i - 1] \o s[i]
  OBVIOUS
<1> HIDE DEF e
<1> QED BY <1>1, <1>2

LEMMA GlueGrows ==
  ASSUME NEW n \in Nat, NEW f, NEW s, NEW u, Glues(f, s, n), Agree(u, s, n)
  PROVE  \E g : /\ Glues(g, u, n + 1)
                /\ g[n + 1] = IF n = 0 THEN u[1] ELSE f[n] \o u[n + 1]
<1> DEFINE g == [i \in 1..(n + 1) |-> IF i = 1 THEN u[i]
                                     ELSE IF i = n + 1 THEN f[n] \o u[i] ELSE f[i]]
           e == [i \in 1..(n + 1) |-> IF i = 1 THEN u[i] ELSE g[i - 1] \o u[i]]
<1>1. ASSUME NEW i \in 1..(n + 1) PROVE g[i] = e[i]
  <2>1. CASE i = 1
    BY <2>1
  <2>2. CASE i # 1 /\ i = n + 1
    <3>1. n \in 1..(n + 1) /\ n # n + 1 /\ n \in 1..n /\ i - 1 = n
      BY <2>2
    <3>2. n = 1 => f[n] = u[n]
      BY <3>1, GluesStep DEF Agree
    <3>3. g[n] = f[n]
      BY <3>1, <3>2
    <3> QED BY <2>2, <3>1, <3>3
  <2>3. CASE i # 1 /\ i # n + 1
    <3>1. i \in 1..n /\ i - 1 \in 1..n /\ i - 1 \in 1..(n + 1) /\ i - 1 # n + 1
      BY <2>3
    <3>2. f[i] = f[i - 1] \o u[i]
      <4>1. f[i] = IF i = 1 THEN s[i] ELSE f[i - 1] \o s[i]
        BY <3>1, GluesStep
      <4>2. u[i] = s[i]
        BY <3>1 DEF Agree
      <4> QED BY <2>3, <4>1, <4>2
    <3>3. i - 1 = 1 => f[i - 1] = u[i - 1]
      BY <3>1, GluesStep DEF Agree
    <3>4. g[i - 1] = f[i - 1]
      BY <3>1, <3>3
    <3> QED BY <2>3, <3>1, <3>2, <3>4
  <2> QED BY <2>1, <2>2, <2>3
<1>2. g = [i \in 1..(n + 1) |-> g[i]] /\ e = [i \in 1..(n + 1) |-> e[i]]
  OBVIOUS
<1>3. g[n + 1] = IF n = 0 THEN u[1] ELSE f[n] \o u[n + 1]
  OBVIOUS
<1>4. Glues(g, u, n + 1)
  <2>1. g = e
    <3> HIDE DEF g, e
    <3> QED BY <1>1, <1>2
  <2> HIDE DEF g
  <2> QED BY <2>1 DEF Glues
<1> QED BY <1>3, <1>4

LEMMA GlueExists == ASSUME NEW n \in Nat, NEW s PROVE \E f : Glues(f, s, n)
<1> DEFINE Bad == {m \in Nat : ~ \E f : Glues(f, s, m)}
<1> SUFFICES ASSUME Bad # {} PROVE FALSE
  OBVIOUS
<1>1. PICK m \in Bad : \A k \in Bad : ~(k < m)
  <2> Bad \in SUBSET Nat
    OBVIOUS
  <2> HIDE DEF Bad
  <2> QED BY LeastNumber
<1>2. m # 0
  <2> DEFINE f == [i \in 1..0 |-> s]
  <2>1. f = [i \in 1..0 |-> IF i = 1 THEN s[i] ELSE f[i - 1] \o s[i]]
    OBVIOUS
  <2> HIDE DEF f
  <2>2. Glues(f, s, 0)
    BY <2>1 DEF Glues
  <2> QED BY <2>2
<1>3. m - 1 \in Nat /\ m - 1 < m /\ (m - 1) + 1 = m
  BY <1>2
<1>4. PICK f : Glues(f, s, m - 1)
  BY <1>1, <1>3
<1>5. \E g : Glues(g, s, (m - 1) + 1)
  BY <1>3, <1>4, GlueGrows DEF Agree
<1> QED BY <1>3, <1>5

LEMMA GlueIsUnique ==
  ASSUME NEW n \in Nat, NEW s, NEW f, Glues(f, s, n), NEW g, Glues(g, s, n), NEW i \in 1..n
  PROVE  f[i] = g[i]
<1> DEFINE Bad == {m \in 1..n : f[m] # g[m]}
<1> SUFFICES ASSUME Bad # {} PROVE FALSE
  OBVIOUS
<1>1. PICK m \in Bad : \A k \in Bad : ~(k < m)
  <2> Bad \in SUBSET Nat
    OBVIOUS
  <2> HIDE DEF Bad
  <2> QED BY LeastNumber
<1>2. /\ f[m] = IF m = 1 THEN s[m] ELSE f[m - 1] \o s[m]
      /\ g[m] = IF m = 1 THEN s[m] ELSE g[m - 1] \o s[m]
  BY GluesStep
<1>3. m # 1
  BY <1>2
<1>4. m - 1 \in 1..n /\ m - 1 < m
  BY <1>3
<1>5. f[m - 1] = g[m - 1]
  BY <1>1, <1>4
<1> QED BY <1>2, <1>5

LEMMA FlattenSolves ==
  ASSUME NEW S, NEW s \in Seq(S), s # <<>>
  PROVE  /\ Len(s) \in Nat \ {0}
         /\ \E f : Glues(f, s, Len(s)) /\ FlattenSeq(s) = f[Len(s)]
<1> DEFINE f == CHOOSE g : Glues(g, s, Len(s))
<1>1. Len(s) \in Nat \ {0}
  OBVIOUS
<1>2. Glues(f, s, Len(s))
  BY <1>1, GlueExists
<1>3. FlattenSeq(s) = f[Len(s)]
  BY <1>1 DEF FlattenSeq, Glues
<1> QED BY <1>1, <1>2, <1>3

LEMMA FlattenNone == FlattenSeq(<<>>) = <<>>
BY DEF FlattenSeq

LEMMA FlattenAppend ==
  ASSUME NEW S, NEW s \in Seq(Seq(S)), NEW x \in Seq(S)
  PROVE  FlattenSeq(Append(s, x)) = Join(FlattenSeq(s), x)
<1> DEFINE u == Append(s, x)
           n == Len(s)
<1>1. /\ n \in Nat /\ u \in Seq(Seq(S)) /\ u # <<>> /\ Len(u) = n + 1 /\ u[n + 1] = x
      /\ Agree(u, s, n)
  BY AppendProperties, LenProperties DEF Agree
<1> HIDE DEF u
<1>2. PICK f : Glues(f, u, n + 1) /\ FlattenSeq(u) = f[n + 1]
  BY <1>1, FlattenSolves
<1>3. CASE s = <<>>
  <2>1. n = 0
    BY <1>3
  <2>2. FlattenSeq(u) = x
    BY <1>1, <1>2, <2>1, GluesStep
  <2>3. Join(<<>>, x) = x
    BY JoinNone
  <2> QED BY <1>3, <2>2, <2>3, FlattenNone DEF u
<1>4. CASE s # <<>>
  <2>1. PICK g : Glues(g, s, n) /\ FlattenSeq(s) = g[n]
    BY <1>4, FlattenSolves
  <2>2. n # 0
    BY <1>4
  <2>3. PICK h : Glues(h, u, n + 1) /\ h[n + 1] = g[n] \o u[n + 1]
    BY <1>1, <2>1, <2>2, GlueGrows
  <2>4. f[n + 1] = h[n + 1]
    <3>1. PICK k \in Nat : k = n + 1 /\ k \in 1..k
      BY <1>1
    <3>2. Glues(f, u, k) /\ Glues(h, u, k)
      BY <1>2, <2>3, <3>1
    <3>3. f[k] = h[k]
      BY <3>1, <3>2, GlueIsUnique
    <3> QED BY <3>1, <3>3
  <2> QED BY <1>1, <1>2, <2>1, <2>3, <2>4 DEF u, Join
<1> QED BY <1>3, <1>4

LEMMA FlattenType == ASSUME NEW S, NEW s \in Seq(Seq(S)) PROVE FlattenSeq(s) \in Seq(S)
<1> DEFINE Bad == {n \in Nat : \E t \in Seq(Seq(S)) : Len(t) = n /\ FlattenSeq(t) \notin Seq(S)}
<1> SUFFICES ASSUME Bad # {} PROVE FALSE
  OBVIOUS
<1>1. PICK n \in Bad : \A k \in Bad : ~(k < n)
  <2> Bad \in SUBSET Nat
    OBVIOUS
  <2> HIDE DEF Bad
  <2> QED BY LeastNumber
<1>2. PICK t \in Seq(Seq(S)) : Len(t) = n /\ FlattenSeq(t) \notin Seq(S)
  OBVIOUS
<1>3. t # <<>>
  BY <1>2, FlattenNone, EmptySeq
<1>4. PICK u \in Seq(Seq(S)), x \in Seq(S) : t = Append(u, x)
  BY <1>3, SequenceEmptyOrAppend
<1>5. Len(u) \in Nat /\ Len(u) < n
  BY <1>2, <1>4
<1>6. FlattenSeq(u) \in Seq(S)
  BY <1>1, <1>5
<1>7. FlattenSeq(t) = Join(FlattenSeq(u), x)
  BY <1>4, FlattenAppend
<1> QED BY <1>2, <1>6, <1>7, JoinType

\* The pieces s and v may be glued together on their own.
Separable(s, v) == FlattenSeq(Join(s, v)) = Join(FlattenSeq(s), FlattenSeq(v))

LEMMA FlattenConcat ==
  ASSUME NEW S, NEW s \in Seq(Seq(S)), NEW t \in Seq(Seq(S)) PROVE Separable(s, t)
<1> DEFINE Bad == {n \in Nat : \E v \in Seq(Seq(S)) : Len(v) = n /\ ~Separable(s, v)}
<1> SUFFICES ASSUME Bad # {} PROVE FALSE
  <2>1. Len(t) \in Nat
    OBVIOUS
  <2> QED BY <2>1
<1>1. PICK n \in Bad : \A k \in Bad : ~(k < n)
  <2> Bad \in SUBSET Nat
    OBVIOUS
  <2> HIDE DEF Bad
  <2> QED BY LeastNumber
<1>2. PICK v \in Seq(Seq(S)) : Len(v) = n /\ ~Separable(s, v)
  OBVIOUS
<1>3. v # <<>>
  <2>1. Join(s, <<>>) = s
    BY JoinNone
  <2>2. Join(FlattenSeq(s), <<>>) = FlattenSeq(s)
    BY JoinNone, FlattenType
  <2>3. Separable(s, <<>>)
    BY <2>1, <2>2, FlattenNone DEF Separable
  <2> QED BY <1>2, <2>3
<1>4. PICK u \in Seq(Seq(S)), x \in Seq(S) : v = Append(u, x)
  BY <1>3, SequenceEmptyOrAppend
<1>5. Len(u) \in Nat /\ Len(u) < n
  BY <1>2, <1>4
<1>6. Separable(s, u)
  BY <1>1, <1>5
<1>7. Join(s, u) \in Seq(Seq(S)) /\ Join(s, v) = Append(Join(s, u), x)
  <2>1. Join(s, u) \in Seq(Seq(S))
    BY JoinType
  <2>2. Append(Join(s, u), x) = Join(Join(s, u), <<x>>)
    BY <2>1, JoinLast
  <2>3. v = Join(u, <<x>>)
    BY <1>4, JoinLast
  <2>4. <<x>> \in Seq(Seq(S))
    OBVIOUS
  <2>5. PICK w \in Seq(Seq(S)) : w = <<x>>
    BY <2>4
  <2>6. Join(Join(s, u), w) = Join(s, Join(u, w))
    BY JoinAssociative
  <2> QED BY <2>1, <2>2, <2>3, <2>5, <2>6
<1>8. FlattenSeq(Join(s, v)) = Join(FlattenSeq(Join(s, u)), x)
  BY <1>7, FlattenAppend
<1>9. FlattenSeq(v) = Join(FlattenSeq(u), x)
  BY <1>4, FlattenAppend
<1>10. Join(Join(FlattenSeq(s), FlattenSeq(u)), x) = Join(FlattenSeq(s), Join(FlattenSeq(u), x))
  <2>1. FlattenSeq(s) \in Seq(S) /\ FlattenSeq(u) \in Seq(S)
    BY FlattenType
  <2> QED BY <2>1, JoinAssociative
<1>11. Separable(s, v)
  BY <1>6, <1>8, <1>9, <1>10 DEF Separable
<1> QED BY <1>2, <1>11

LEMMA FlattenFew ==
  ASSUME NEW S, NEW a \in Seq(S), NEW b \in Seq(S)
  PROVE  FlattenSeq(<<a>>) = a /\ FlattenSeq(<<a, b>>) = Join(a, b)
<1>1. <<>> \in Seq(Seq(S)) /\ <<a>> \in Seq(Seq(S))
  OBVIOUS
<1>2. Append(<<>>, a) = <<a>>
  <2>1. Append(<<>>, a) \in Seq(Seq(S)) /\ Len(Append(<<>>, a)) = 1 /\ Append(<<>>, a)[1] = a
    BY <1>1, AppendProperties
  <2>2. Len(<<a>>) = 1 /\ <<a>>[1] = a
    OBVIOUS
  <2> QED BY <1>1, <2>1, <2>2, SeqEqual
<1>5. Append(<<a>>, b) = <<a, b>>
  <2> DEFINE ab == Append(<<a>>, b)
  <2>1. ab \in Seq(Seq(S)) /\ Len(ab) = 2 /\ ab[1] = a /\ ab[2] = b
    BY <1>1, AppendProperties
  <2>2. <<a, b>> \in Seq(Seq(S)) /\ Len(<<a, b>>) = 2 /\ <<a, b>>[1] = a /\ <<a, b>>[2] = b
    OBVIOUS
  <2> HIDE DEF ab
  <2>3. \A i \in 1..2 : ab[i] = <<a, b>>[i]
    BY <2>1, <2>2
  <2>4. ab = <<a, b>>
    BY <2>1, <2>2, <2>3, SeqEqual
  <2> QED BY <2>4 DEF ab
<1>3. FlattenSeq(Append(<<>>, a)) = Join(FlattenSeq(<<>>), a)
  BY <1>1, FlattenAppend
<1>4. FlattenSeq(Append(<<a>>, b)) = Join(FlattenSeq(<<a>>), b)
  BY <1>1, FlattenAppend
<1> QED BY <1>2, <1>3, <1>4, <1>5, FlattenNone, JoinNone

\* Each piece holds one element.
Singles(s) == [i \in 1..Len(s) |-> <<s[i]>>]

LEMMA SinglesAppend ==
  ASSUME NEW S, NEW s \in Seq(S), NEW x \in S
  PROVE  /\ Singles(s) \in Seq(Seq(S))
         /\ Singles(Append(s, x)) = Append(Singles(s), <<x>>)
<1>1. /\ Len(s) \in Nat /\ Len(Append(s, x)) = Len(s) + 1 /\ Append(s, x)[Len(s) + 1] = x
      /\ \A i \in 1..Len(s) : Append(s, x)[i] = s[i]
  BY AppendProperties
<1>2. \A i \in 1..Len(s) : <<s[i]>> \in Seq(S)
  BY ElementOfSeq
<1>3. Singles(s) \in Seq(Seq(S)) /\ Len(Singles(s)) = Len(s)
  BY <1>1, <1>2 DEF Singles
<1>4. \A i \in 1..Len(s) : Singles(s)[i] = <<s[i]>>
  BY DEF Singles
<1> DEFINE l == Singles(Append(s, x))
           r == Append(Singles(s), <<x>>)
<1>5. /\ r \in Seq(Seq(S)) /\ Len(r) = Len(s) + 1 /\ r[Len(s) + 1] = <<x>>
      /\ \A i \in 1..Len(s) : r[i] = <<s[i]>>
  <2>1. <<x>> \in Seq(S)
    OBVIOUS
  <2> QED BY <1>3, <1>4, <2>1, AppendProperties
<1>6. \A i \in 1..(Len(s) + 1) : <<Append(s, x)[i]>> \in Seq(S)
  BY <1>1, ElementOfSeq
<1>7. /\ l \in Seq(Seq(S)) /\ Len(l) = Len(s) + 1
      /\ \A i \in 1..(Len(s) + 1) : l[i] = <<Append(s, x)[i]>>
  BY <1>1, <1>6 DEF Singles
<1> HIDE DEF l, r
<1>8. ASSUME NEW i \in 1..(Len(s) + 1) PROVE l[i] = r[i]
  <2>1. CASE i = Len(s) + 1
    BY <1>1, <1>5, <1>7, <2>1
  <2>2. CASE i # Len(s) + 1
    <3>1. i \in 1..Len(s)
      BY <1>1, <2>2
    <3> QED BY <1>1, <1>5, <1>7, <3>1
  <2> QED BY <2>1, <2>2
<1>9. l = r
  BY <1>5, <1>7, <1>8, SeqEqual
<1> QED BY <1>3, <1>9 DEF l, r

LEMMA FlattenSingles ==
  ASSUME NEW S, NEW s \in Seq(S) PROVE FlattenSeq(Singles(s)) = s
<1> DEFINE Bad == {n \in Nat : \E t \in Seq(S) : Len(t) = n /\ FlattenSeq(Singles(t)) # t}
<1> SUFFICES ASSUME Bad # {} PROVE FALSE
  <2>1. Len(s) \in Nat
    OBVIOUS
  <2> QED BY <2>1
<1>1. PICK n \in Bad : \A k \in Bad : ~(k < n)
  <2> Bad \in SUBSET Nat
    OBVIOUS
  <2> HIDE DEF Bad
  <2> QED BY LeastNumber
<1>2. PICK t \in Seq(S) : Len(t) = n /\ FlattenSeq(Singles(t)) # t
  OBVIOUS
<1>3. t # <<>>
  <2>1. Singles(<<>>) = <<>>
    BY DEF Singles
  <2> QED BY <1>2, <2>1, FlattenNone
<1>4. PICK u \in Seq(S), x \in S : t = Append(u, x)
  BY <1>3, SequenceEmptyOrAppend
<1>5. Len(u) \in Nat /\ Len(u) < n
  BY <1>2, <1>4
<1>6. FlattenSeq(Singles(u)) = u
  BY <1>1, <1>5
<1>7. Singles(u) \in Seq(Seq(S)) /\ Singles(t) = Append(Singles(u), <<x>>)
  BY <1>4, SinglesAppend
<1>8. <<x>> \in Seq(S)
  OBVIOUS
<1>9. FlattenSeq(Singles(t)) = Join(u, <<x>>)
  BY <1>6, <1>7, <1>8, FlattenAppend
<1> QED BY <1>2, <1>4, <1>9, JoinLast

-----------------------------------------------------------------------------
\* The newlines.

\* Texts in terms of Lf.
Texts == Seq(Symbols \ {Cr})

UnixPieces(s) == [i \in 1..Len(s) |-> UnixAt(s, i)]
FoldPieces(s) == [i \in 1..Len(s) |-> FoldAt(s, i)]
WindowsPieces(s) == [i \in 1..Len(s) |-> WindowsAt(s, i)]

LEMMA UnixGlued ==
  ASSUME NEW s \in Seq(Symbols)
  PROVE  /\ Unix(s) = FlattenSeq(UnixPieces(s))
         /\ UnixPieces(s) \in Seq(Texts) /\ Len(UnixPieces(s)) = Len(s)
         /\ \A i \in 1..Len(s) : UnixPieces(s)[i] = UnixAt(s, i)
<1>1. ASSUME NEW i \in 1..Len(s) PROVE UnixAt(s, i) \in Texts
  <2>1. s[i] \in Symbols /\ Lf \in Symbols \ {Cr}
    BY ElementOfSeq, PatchAssumption
  <2>2. <<>> \in Texts /\ <<Lf>> \in Texts /\ (s[i] # Cr => <<s[i]>> \in Texts)
    BY <2>1 DEF Texts
  <2> QED BY <2>2 DEF UnixAt
<1>2. Len(s) \in Nat
  OBVIOUS
<1> QED BY <1>1, <1>2 DEF Unix, UnixPieces

LEMMA WindowsGlued ==
  ASSUME NEW s \in Seq(Symbols)
  PROVE  /\ Windows(s) = FlattenSeq(WindowsPieces(s))
         /\ WindowsPieces(s) \in Seq(Seq(Symbols)) /\ Len(WindowsPieces(s)) = Len(s)
         /\ \A i \in 1..Len(s) : WindowsPieces(s)[i] = WindowsAt(s, i)
<1>1. ASSUME NEW i \in 1..Len(s) PROVE WindowsAt(s, i) \in Seq(Symbols)
  <2>1. s[i] \in Symbols /\ Lf \in Symbols /\ Cr \in Symbols
    BY ElementOfSeq, PatchAssumption
  <2>2. <<Cr, Lf>> \in Seq(Symbols) /\ <<s[i]>> \in Seq(Symbols)
    BY <2>1
  <2> QED BY <2>2 DEF WindowsAt
<1>2. Len(s) \in Nat
  OBVIOUS
<1> QED BY <1>1, <1>2 DEF Windows, WindowsPieces

LEMMA TextIsSeq == ASSUME NEW s \in Texts PROVE s \in Seq(Symbols)
BY SeqMonotonic DEF Texts

LEMMA TextLength == ASSUME NEW s \in Texts PROVE Len(s) \in Nat
BY DEF Texts

LEMMA UnixType == ASSUME NEW s \in Seq(Symbols) PROVE Unix(s) \in Texts
<1> DEFINE p == UnixPieces(s)
<1>1. Unix(s) = FlattenSeq(p) /\ p \in Seq(Seq(Symbols \ {Cr}))
  BY UnixGlued DEF Texts
<1> HIDE DEF p
<1>2. FlattenSeq(p) \in Seq(Symbols \ {Cr})
  BY <1>1, FlattenType
<1> QED BY <1>1, <1>2 DEF Texts

LEMMA WindowsType == ASSUME NEW s \in Seq(Symbols) PROVE Windows(s) \in Seq(Symbols)
BY WindowsGlued, FlattenType

\* A text without carriage returns is not changed by conversions to Lf.
LEMMA NoReturns == ASSUME NEW s \in Texts, NEW i \in 1..Len(s) PROVE s[i] \in Symbols \ {Cr}
BY ElementOfSeq DEF Texts

LEMMA IsText ==
  ASSUME NEW s \in Seq(Symbols), \A i \in 1..Len(s) : s[i] \in Symbols \ {Cr} PROVE s \in Texts
BY DEF Texts

LEMMA UnixOfText == ASSUME NEW s \in Texts PROVE Unix(s) = s
<1>1. \A i \in 1..Len(s) : UnixAt(s, i) = <<s[i]>>
  BY NoReturns DEF UnixAt, PairAt
<1>2. UnixPieces(s) = Singles(s)
  BY <1>1 DEF UnixPieces, Singles
<1>3. Unix(s) = FlattenSeq(UnixPieces(s))
  BY DEF Unix, UnixPieces
<1> QED BY <1>2, <1>3, FlattenSingles DEF Texts

LEMMA FoldOfText == ASSUME NEW s \in Texts PROVE Fold(s) = s
<1>1. \A i \in 1..Len(s) : FoldAt(s, i) = <<s[i]>>
  BY NoReturns DEF FoldAt, PairAt
<1>2. FoldPieces(s) = Singles(s)
  BY <1>1 DEF FoldPieces, Singles
<1>3. Fold(s) = FlattenSeq(FoldPieces(s))
  BY DEF Fold, FoldPieces
<1> QED BY <1>2, <1>3, FlattenSingles DEF Texts

\* No Windows newline is cut in two between s and t.
SafeCut(s, t) == s = <<>> \/ t = <<>> \/ s[Len(s)] # Cr \/ t[1] # Lf

LEMMA PairOfJoin ==
  ASSUME NEW s \in Seq(Symbols), NEW t \in Seq(Symbols), SafeCut(s, t),
         NEW i \in 1..(Len(s) + Len(t))
  PROVE  PairAt(Join(s, t), i) <=> IF i <= Len(s) THEN PairAt(s, i) ELSE PairAt(t, i - Len(s))
<1> DEFINE c == Join(s, t)
           n == Len(s)
           m == Len(t)
<1>1. /\ n \in Nat /\ m \in Nat /\ Len(c) = n + m
      /\ \A k \in 1..(n + m) : c[k] = IF k <= n THEN s[k] ELSE t[k - n]
  BY JoinAt
<1> HIDE DEF c
<1>2. CASE i < n
  <2>1. i \in 1..(n + m) /\ i + 1 \in 1..(n + m) /\ i + 1 <= n /\ i <= n /\ i < n + m
    BY <1>1, <1>2
  <2>2. c[i] = s[i] /\ c[i + 1] = s[i + 1]
    BY <1>1, <2>1
  <2> HIDE DEF n, m
  <2>3. PairAt(c, i) <=> PairAt(s, i)
    BY <1>1, <1>2, <2>1, <2>2 DEF PairAt, n
  <2> QED BY <2>1, <2>3 DEF c, n
<1>3. CASE i = n
  <2>1. ~PairAt(s, i) /\ i <= n /\ c[i] = s[n]
    BY <1>1, <1>3 DEF PairAt
  <2>2. ASSUME PairAt(c, i) PROVE FALSE
    <3>1. n < n + m /\ c[i] = Cr /\ c[i + 1] = Lf
      BY <1>1, <1>3, <2>2 DEF PairAt
    <3>2. i + 1 \in 1..(n + m) /\ ~(i + 1 <= n) /\ i + 1 - n = 1 /\ m # 0 /\ n # 0
      BY <1>1, <1>3, <3>1
    <3>3. c[i + 1] = t[1]
      BY <1>1, <3>2
    <3>4. s # <<>> /\ t # <<>>
      BY <3>2
    <3> QED BY <2>1, <3>1, <3>3, <3>4 DEF SafeCut
  <2> QED BY <2>1, <2>2 DEF c
<1>4. CASE i > n
  <2>1. ~(i <= n) /\ (i < n + m <=> i - n < m)
    BY <1>1, <1>4
  <2>2. c[i] = t[i - n]
    BY <1>1, <1>4
  <2>3. i < n + m => c[i + 1] = t[(i - n) + 1]
    <3> SUFFICES ASSUME i < n + m PROVE c[i + 1] = t[(i - n) + 1]
      OBVIOUS
    <3>1. i + 1 \in 1..(n + m) /\ ~(i + 1 <= n) /\ (i + 1) - n = (i - n) + 1
      BY <1>1, <1>4
    <3> QED BY <1>1, <3>1
  <2> HIDE DEF n, m
  <2>4. PairAt(c, i) <=> PairAt(t, i - n)
    BY <1>1, <2>1, <2>2, <2>3 DEF PairAt, m
  <2> QED BY <2>1, <2>4 DEF c, n
<1>5. i < n \/ i = n \/ i > n
  BY <1>1
<1> QED BY <1>2, <1>3, <1>4, <1>5

LEMMA UnixJoin ==
  ASSUME NEW s \in Seq(Symbols), NEW t \in Seq(Symbols), SafeCut(s, t)
  PROVE  Unix(Join(s, t)) = Join(Unix(s), Unix(t))
<1> DEFINE c == Join(s, t)
           n == Len(s)
           m == Len(t)
           l == UnixPieces(c)
           r == Join(UnixPieces(s), UnixPieces(t))
<1>1. /\ n \in Nat /\ m \in Nat /\ c \in Seq(Symbols) /\ Len(c) = n + m
      /\ \A k \in 1..(n + m) : c[k] = IF k <= n THEN s[k] ELSE t[k - n]
  <2>1. c \in Seq(Symbols)
    BY JoinType
  <2>2. Len(c) = n + m
    BY JoinAt
  <2>3. \A k \in 1..(n + m) : c[k] = IF k <= n THEN s[k] ELSE t[k - n]
    BY JoinAt
  <2>4. n \in Nat /\ m \in Nat
    OBVIOUS
  <2> QED BY <2>1, <2>2, <2>3, <2>4
<1>2. /\ UnixPieces(s) \in Seq(Texts) /\ Len(UnixPieces(s)) = n
      /\ \A i \in 1..n : UnixPieces(s)[i] = UnixAt(s, i)
  BY UnixGlued
<1>3. /\ UnixPieces(t) \in Seq(Texts) /\ Len(UnixPieces(t)) = m
      /\ \A i \in 1..m : UnixPieces(t)[i] = UnixAt(t, i)
  BY UnixGlued
<1>4. \A i \in 1..(n + m) :
         PairAt(c, i) <=> IF i <= n THEN PairAt(s, i) ELSE PairAt(t, i - n)
  BY PairOfJoin
<1> HIDE DEF c, n, m
<1>5. /\ l \in Seq(Texts) /\ Len(l) = n + m
      /\ \A i \in 1..(n + m) : l[i] = UnixAt(c, i)
  BY <1>1, UnixGlued
<1>6. /\ r \in Seq(Texts) /\ Len(r) = n + m
      /\ \A i \in 1..(n + m) :
            r[i] = IF i <= n THEN UnixPieces(s)[i] ELSE UnixPieces(t)[i - n]
  BY <1>2, <1>3, JoinAt, JoinType
<1> HIDE DEF l, r
<1>7. ASSUME NEW i \in 1..(n + m) PROVE l[i] = r[i]
  <2>1. CASE i <= n
    <3>1. i \in 1..n
      BY <1>1, <2>1
    <3>2. UnixAt(c, i) = UnixAt(s, i)
      BY <1>1, <1>4, <2>1 DEF UnixAt
    <3> QED BY <1>2, <1>5, <1>6, <2>1, <3>1, <3>2
  <2>2. CASE ~(i <= n)
    <3>1. i - n \in 1..m
      BY <1>1, <2>2
    <3>2. UnixAt(c, i) = UnixAt(t, i - n)
      BY <1>1, <1>4, <2>2 DEF UnixAt
    <3> QED BY <1>3, <1>5, <1>6, <2>2, <3>1, <3>2
  <2> QED BY <2>1, <2>2
<1>8. l = r
  BY <1>5, <1>6, <1>7, SeqEqual
<1>9. Separable(UnixPieces(s), UnixPieces(t))
  BY <1>2, <1>3, FlattenConcat DEF Texts
<1>10. Unix(c) = FlattenSeq(l)
  BY <1>1, UnixGlued DEF l
<1> QED BY <1>8, <1>9, <1>10, UnixGlued DEF Separable, c, r

LEMMA WindowsJoin ==
  ASSUME NEW s \in Seq(Symbols), NEW t \in Seq(Symbols)
  PROVE  Windows(Join(s, t)) = Join(Windows(s), Windows(t))
<1> DEFINE c == Join(s, t)
           n == Len(s)
           m == Len(t)
           l == WindowsPieces(c)
           r == Join(WindowsPieces(s), WindowsPieces(t))
<1>1. /\ n \in Nat /\ m \in Nat /\ c \in Seq(Symbols) /\ Len(c) = n + m
      /\ \A k \in 1..(n + m) : c[k] = IF k <= n THEN s[k] ELSE t[k - n]
  <2>1. c \in Seq(Symbols)
    BY JoinType
  <2>2. Len(c) = n + m
    BY JoinAt
  <2>3. \A k \in 1..(n + m) : c[k] = IF k <= n THEN s[k] ELSE t[k - n]
    BY JoinAt
  <2>4. n \in Nat /\ m \in Nat
    OBVIOUS
  <2> QED BY <2>1, <2>2, <2>3, <2>4
<1>2. /\ WindowsPieces(s) \in Seq(Seq(Symbols)) /\ Len(WindowsPieces(s)) = n
      /\ \A i \in 1..n : WindowsPieces(s)[i] = WindowsAt(s, i)
  BY WindowsGlued
<1>3. /\ WindowsPieces(t) \in Seq(Seq(Symbols)) /\ Len(WindowsPieces(t)) = m
      /\ \A i \in 1..m : WindowsPieces(t)[i] = WindowsAt(t, i)
  BY WindowsGlued
<1> HIDE DEF c, n, m
<1>5. /\ l \in Seq(Seq(Symbols)) /\ Len(l) = n + m
      /\ \A i \in 1..(n + m) : l[i] = WindowsAt(c, i)
  BY <1>1, WindowsGlued
<1>6. /\ r \in Seq(Seq(Symbols)) /\ Len(r) = n + m
      /\ \A i \in 1..(n + m) :
            r[i] = IF i <= n THEN WindowsPieces(s)[i] ELSE WindowsPieces(t)[i - n]
  BY <1>2, <1>3, JoinAt, JoinType
<1> HIDE DEF l, r
<1>7. ASSUME NEW i \in 1..(n + m) PROVE l[i] = r[i]
  <2>1. CASE i <= n
    <3>1. i \in 1..n
      BY <1>1, <2>1
    <3>2. WindowsAt(c, i) = WindowsAt(s, i)
      BY <1>1, <2>1 DEF WindowsAt
    <3> QED BY <1>2, <1>5, <1>6, <2>1, <3>1, <3>2
  <2>2. CASE ~(i <= n)
    <3>1. i - n \in 1..m
      BY <1>1, <2>2
    <3>2. WindowsAt(c, i) = WindowsAt(t, i - n)
      BY <1>1, <2>2 DEF WindowsAt
    <3> QED BY <1>3, <1>5, <1>6, <2>2, <3>1, <3>2
  <2> QED BY <2>1, <2>2
<1>8. l = r
  BY <1>5, <1>6, <1>7, SeqEqual
<1>9. Separable(WindowsPieces(s), WindowsPieces(t))
  BY <1>2, <1>3, FlattenConcat
<1>10. Windows(c) = FlattenSeq(l)
  BY <1>1, WindowsGlued DEF l
<1> QED BY <1>8, <1>9, <1>10, WindowsGlued DEF Separable, c, r

\* One character, and a Windows newline.
LEMMA WindowsOfOne ==
  ASSUME NEW x \in Symbols
  PROVE  /\ <<x>> \in Seq(Symbols)
         /\ Windows(<<x>>) = IF x = Lf THEN <<Cr, Lf>> ELSE <<x>>
<1>1. <<x>> \in Seq(Symbols) /\ Len(<<x>>) = 1 /\ <<x>>[1] = x
  OBVIOUS
<1> DEFINE w == IF x = Lf THEN <<Cr, Lf>> ELSE <<x>>
           p == WindowsPieces(<<x>>)
<1>2. w \in Seq(Symbols)
  BY PatchAssumption
<1>3. p \in Seq(Seq(Symbols)) /\ Len(p) = 1 /\ p[1] = w /\ Windows(<<x>>) = FlattenSeq(p)
  <2>1. p \in Seq(Seq(Symbols)) /\ Len(p) = 1 /\ Windows(<<x>>) = FlattenSeq(p)
        /\ \A i \in 1..1 : p[i] = WindowsAt(<<x>>, i)
    BY <1>1, WindowsGlued
  <2> QED BY <1>1, <2>1 DEF WindowsAt
<1> HIDE DEF w, p
<1>4. p = <<w>>
  BY <1>2, <1>3, SeqEqual
<1> QED BY <1>1, <1>2, <1>3, <1>4, FlattenFew DEF w

LEMMA UnixOfPair == <<Cr, Lf>> \in Seq(Symbols) /\ Unix(<<Cr, Lf>>) = <<Lf>>
<1> DEFINE c == <<Cr, Lf>>
           p == UnixPieces(c)
<1>1. c \in Seq(Symbols) /\ Len(c) = 2 /\ c[1] = Cr /\ c[2] = Lf /\ Cr # Lf
  BY PatchAssumption
<1>2. <<>> \in Seq(Symbols) /\ <<Lf>> \in Seq(Symbols)
  BY PatchAssumption
<1> HIDE DEF c
<1>3. /\ p \in Seq(Texts) /\ Len(p) = 2 /\ Unix(c) = FlattenSeq(p)
      /\ p[1] = UnixAt(c, 1) /\ p[2] = UnixAt(c, 2)
  BY <1>1, UnixGlued
<1>4. UnixAt(c, 1) = <<>> /\ UnixAt(c, 2) = <<Lf>>
  BY <1>1 DEF UnixAt, PairAt
<1>5. p = <<<<>>, <<Lf>>>>
  <2>1. <<<<>>, <<Lf>>>> \in Seq(Seq(Symbols))
    BY <1>2
  <2>2. p \in Seq(Seq(Symbols))
    <3>1. \A t \in Texts : t \in Seq(Symbols)
      BY TextIsSeq
    <3>2. Texts \subseteq Seq(Symbols)
      BY <3>1
    <3> QED BY <1>3, <3>2, SeqMonotonic
  <2> DEFINE q == <<<<>>, <<Lf>>>>
  <2>3. Len(q) = 2 /\ q[1] = <<>> /\ q[2] = <<Lf>>
    OBVIOUS
  <2> HIDE DEF p, q
  <2>4. \A i \in 1..2 : p[i] = q[i]
    BY <1>3, <1>4, <2>3
  <2>5. p = q
    BY <1>3, <2>1, <2>2, <2>3, <2>4, SeqEqual DEF q
  <2> QED BY <2>5 DEF q
<1>6. FlattenSeq(p) = Join(<<>>, <<Lf>>)
  BY <1>2, <1>5, FlattenFew
<1> QED BY <1>1, <1>2, <1>3, <1>6, JoinNone DEF c

LEMMA NothingConverted == Unix(<<>>) = <<>> /\ Windows(<<>>) = <<>>
<1>1. Len(<<>>) = 0
  OBVIOUS
<1>2. UnixPieces(<<>>) = <<>> /\ WindowsPieces(<<>>) = <<>>
  BY <1>1 DEF UnixPieces, WindowsPieces
<1>3. Unix(<<>>) = FlattenSeq(UnixPieces(<<>>)) /\ Windows(<<>>) = FlattenSeq(WindowsPieces(<<>>))
  BY DEF Unix, UnixPieces, Windows, WindowsPieces
<1> QED BY <1>2, <1>3, FlattenNone

\* What a character becomes is not cut, and becomes it again.
LEMMA WindowsCut ==
  ASSUME NEW x \in Symbols \ {Cr}, NEW s \in Seq(Symbols)
  PROVE  /\ Windows(<<x>>) \in Seq(Symbols) /\ Windows(<<x>>) # <<>>
         /\ SafeCut(s, Windows(<<x>>)) /\ SafeCut(Windows(<<x>>), s)
         /\ Unix(Windows(<<x>>)) = <<x>>
<1>1. CASE x = Lf
  <2>1. Windows(<<x>>) = <<Cr, Lf>>
    BY <1>1, WindowsOfOne
  <2> DEFINE w == <<Cr, Lf>>
  <2>2. w # <<>> /\ Len(w) = 2 /\ w[1] = Cr /\ w[2] = Lf /\ Cr # Lf
    BY PatchAssumption
  <2>3. SafeCut(s, w) /\ SafeCut(w, s)
    <3> HIDE DEF w
    <3> QED BY <2>2 DEF SafeCut
  <2> QED BY <1>1, <2>1, <2>2, <2>3, UnixOfPair
<1>2. CASE x # Lf
  <2>1. Windows(<<x>>) = <<x>>
    BY <1>2, WindowsOfOne
  <2> DEFINE w == <<x>>
  <2>2. w # <<>> /\ Len(w) = 1 /\ w[1] = x /\ w \in Texts /\ w \in Seq(Symbols)
    BY DEF Texts
  <2>3. Unix(w) = w
    BY <2>2, UnixOfText
  <2>4. SafeCut(s, w) /\ SafeCut(w, s)
    <3> HIDE DEF w
    <3> QED BY <1>2, <2>2 DEF SafeCut
  <2> QED BY <2>1, <2>2, <2>3, <2>4
<1> QED BY <1>1, <1>2

LEMMA WindowsAppend ==
  ASSUME NEW s \in Seq(Symbols), NEW x \in Symbols
  PROVE  Windows(Append(s, x)) = Join(Windows(s), Windows(<<x>>))
<1>1. <<x>> \in Seq(Symbols) /\ Append(s, x) = Join(s, <<x>>)
  BY WindowsOfOne, JoinLast
<1> QED BY <1>1, WindowsJoin

\* Converting a text forth and back changes nothing ...
LEMMA UnixOfWindows == ASSUME NEW s \in Texts PROVE Unix(Windows(s)) = s
<1> DEFINE Bad == {n \in Nat : \E t \in Texts : Len(t) = n /\ Unix(Windows(t)) # t}
<1> SUFFICES ASSUME Bad # {} PROVE FALSE
  <2>1. Len(s) \in Nat
    BY DEF Texts
  <2> QED BY <2>1
<1>1. PICK n \in Bad : \A k \in Bad : ~(k < n)
  <2> Bad \in SUBSET Nat
    OBVIOUS
  <2> HIDE DEF Bad
  <2> QED BY LeastNumber
<1>2. PICK t \in Texts : Len(t) = n /\ Unix(Windows(t)) # t
  OBVIOUS
<1>3. t # <<>>
  BY <1>2, NothingConverted
<1>4. PICK u \in Texts, x \in Symbols \ {Cr} : t = Append(u, x)
  BY <1>3, SequenceEmptyOrAppend DEF Texts
<1>5. Len(u) \in Nat /\ Len(u) < n
  BY <1>2, <1>4 DEF Texts
<1>6. Unix(Windows(u)) = u
  BY <1>1, <1>5
<1>7. u \in Seq(Symbols) /\ Windows(u) \in Seq(Symbols)
  BY TextIsSeq, WindowsType
<1>8. Windows(t) = Join(Windows(u), Windows(<<x>>))
  BY <1>4, <1>7, WindowsAppend
<1>9. /\ Windows(<<x>>) \in Seq(Symbols) /\ Unix(Windows(<<x>>)) = <<x>>
      /\ SafeCut(Windows(u), Windows(<<x>>))
  BY <1>7, WindowsCut
<1>10. Unix(Windows(t)) = Join(u, <<x>>)
  BY <1>6, <1>7, <1>8, <1>9, UnixJoin
<1>11. Append(u, x) = Join(u, <<x>>)
  BY <1>7, JoinLast
<1> QED BY <1>2, <1>4, <1>10, <1>11

\* ... and so does converting a file in which newlines are Windows newlines back and forth.
Paired(raw) ==
  \A i \in 1..Len(raw) :
    /\ raw[i] = Cr => PairAt(raw, i)
    /\ raw[i] = Lf => i > 1 /\ raw[i - 1] = Cr

LEMMA PairedBefore ==
  ASSUME NEW s \in Seq(Symbols), NEW x \in Symbols, Paired(Append(s, x)), x # Lf
  PROVE  x # Cr /\ Paired(s)
<1> DEFINE r == Append(s, x)
           n == Len(s)
<1>1. /\ n \in Nat /\ r \in Seq(Symbols) /\ Len(r) = n + 1 /\ r[n + 1] = x
      /\ \A i \in 1..n : r[i] = s[i]
  BY AppendProperties
<1> HIDE DEF r
<1>2. \A i \in 1..(n + 1) : /\ r[i] = Cr => i < n + 1 /\ r[i + 1] = Lf
                            /\ r[i] = Lf => i > 1 /\ r[i - 1] = Cr
  BY <1>1 DEF Paired, PairAt, r
<1>3. x # Cr
  BY <1>1, <1>2
<1>4. ASSUME NEW i \in 1..n
      PROVE  /\ s[i] = Cr => i < n /\ s[i + 1] = Lf
             /\ s[i] = Lf => i > 1 /\ s[i - 1] = Cr
  <2>1. i \in 1..(n + 1) /\ r[i] = s[i]
    BY <1>1
  <2>2. ASSUME s[i] = Cr PROVE i < n /\ s[i + 1] = Lf
    <3>1. r[i + 1] = Lf
      BY <1>2, <2>1, <2>2
    <3>2. i # n
      BY <1>1, <3>1
    <3>3. i < n /\ i + 1 \in 1..n
      BY <1>1, <3>2
    <3> QED BY <1>1, <3>1, <3>3
  <2>3. ASSUME s[i] = Lf PROVE i > 1 /\ s[i - 1] = Cr
    <3>1. i > 1 /\ r[i - 1] = Cr
      BY <1>2, <2>1, <2>3
    <3>2. i - 1 \in 1..n
      BY <1>1, <3>1
    <3> QED BY <1>1, <3>1, <3>2
  <2> QED BY <2>2, <2>3
<1> QED BY <1>3, <1>4 DEF Paired, PairAt

LEMMA PairedPair ==
  ASSUME NEW s \in Seq(Symbols), Paired(Append(s, Lf))
  PROVE  \E u \in Seq(Symbols) : s = Append(u, Cr) /\ Paired(u)
<1> DEFINE r == Append(s, Lf)
           n == Len(s)
<1>1. /\ n \in Nat /\ r \in Seq(Symbols) /\ Len(r) = n + 1 /\ r[n + 1] = Lf
      /\ \A i \in 1..n : r[i] = s[i]
  BY PatchAssumption, AppendProperties
<1> HIDE DEF r
<1>2. \A i \in 1..(n + 1) : /\ r[i] = Cr => i < n + 1 /\ r[i + 1] = Lf
                            /\ r[i] = Lf => i > 1 /\ r[i - 1] = Cr
  BY <1>1 DEF Paired, PairAt, r
<1>3. n \in 1..n /\ s[n] = Cr
  BY <1>1, <1>2
<1>4. s # <<>>
  BY <1>3
<1>5. PICK u \in Seq(Symbols), y \in Symbols : s = Append(u, y)
  BY <1>4, SequenceEmptyOrAppend
<1>6. y = Cr /\ Len(u) = n - 1 /\ Len(u) \in Nat /\ \A i \in 1..(n - 1) : u[i] = r[i]
  <2>1. Len(u) \in Nat /\ n = Len(u) + 1 /\ s[n] = y /\ \A i \in 1..Len(u) : s[i] = u[i]
    BY <1>5, AppendProperties
  <2>2. Len(u) = n - 1
    BY <2>1
  <2>3. \A i \in 1..(n - 1) : i \in 1..n
    BY <1>1
  <2> QED BY <1>1, <1>3, <2>1, <2>2, <2>3
<1>7. ASSUME NEW i \in 1..(n - 1)
      PROVE  /\ u[i] = Cr => i < n - 1 /\ u[i + 1] = Lf
             /\ u[i] = Lf => i > 1 /\ u[i - 1] = Cr
  <2>1. i \in 1..(n + 1) /\ u[i] = r[i]
    BY <1>1, <1>6
  <2>2. ASSUME u[i] = Cr PROVE i < n - 1 /\ u[i + 1] = Lf
    <3>1. r[i + 1] = Lf
      BY <1>2, <2>1, <2>2
    <3>2. i # n - 1
      <4>1. r[n] = Cr /\ Cr # Lf
        BY <1>1, <1>3, PatchAssumption
      <4> QED BY <1>1, <3>1, <4>1
    <3>3. i < n - 1 /\ i + 1 \in 1..(n - 1)
      BY <1>1, <3>2
    <3> QED BY <1>6, <3>1, <3>3
  <2>3. ASSUME u[i] = Lf PROVE i > 1 /\ u[i - 1] = Cr
    <3>1. i > 1 /\ r[i - 1] = Cr
      BY <1>2, <2>1, <2>3
    <3>2. i - 1 \in 1..(n - 1)
      BY <1>1, <3>1
    <3> QED BY <1>6, <3>1, <3>2
  <2> QED BY <2>2, <2>3
<1>8. Paired(u)
  BY <1>6, <1>7 DEF Paired, PairAt
<1> QED BY <1>5, <1>6, <1>8

LEMMA WindowsOfUnix == ASSUME NEW raw \in Seq(Symbols), Paired(raw) PROVE Windows(Unix(raw)) = raw
<1> DEFINE Bad == {n \in Nat : \E t \in Seq(Symbols) :
                                 Len(t) = n /\ Paired(t) /\ Windows(Unix(t)) # t}
<1> SUFFICES ASSUME Bad # {} PROVE FALSE
  <2>1. Len(raw) \in Nat
    OBVIOUS
  <2> QED BY <2>1
<1>1. PICK n \in Bad : \A k \in Bad : ~(k < n)
  <2> Bad \in SUBSET Nat
    OBVIOUS
  <2> HIDE DEF Bad
  <2> QED BY LeastNumber
<1>2. PICK t \in Seq(Symbols) : Len(t) = n /\ Paired(t) /\ Windows(Unix(t)) # t
  OBVIOUS
<1>3. t # <<>>
  BY <1>2, NothingConverted
<1>4. PICK s \in Seq(Symbols), x \in Symbols : t = Append(s, x)
  BY <1>3, SequenceEmptyOrAppend
<1>5. Len(s) \in Nat /\ Len(s) < n
  BY <1>2, <1>4
<1>6. CASE x # Lf
  <2>1. x # Cr /\ Paired(s)
    BY <1>2, <1>4, <1>6, PairedBefore
  <2>2. Windows(Unix(s)) = s
    BY <1>1, <1>5, <2>1
  <2> DEFINE w == <<x>>
  <2>3. w \in Seq(Symbols) /\ w \in Texts /\ Windows(w) = w
    BY <1>6, <2>1, WindowsOfOne DEF Texts
  <2>4. w[1] = x
    OBVIOUS
  <2>5. t = Join(s, w)
    BY <1>4, JoinLast
  <2> HIDE DEF w
  <2>6. SafeCut(s, w) /\ Unix(w) = w
    BY <1>6, <2>3, <2>4, UnixOfText DEF SafeCut
  <2>7. Unix(t) = Join(Unix(s), w) /\ Unix(s) \in Seq(Symbols)
    BY <2>3, <2>5, <2>6, UnixJoin, UnixType, TextIsSeq
  <2>8. Windows(Unix(t)) = Join(Windows(Unix(s)), Windows(w))
    BY <2>3, <2>7, WindowsJoin
  <2> QED BY <1>2, <2>2, <2>3, <2>5, <2>8
<1>7. CASE x = Lf
  <2>1. PICK u \in Seq(Symbols) : s = Append(u, Cr) /\ Paired(u)
    BY <1>2, <1>4, <1>7, PairedPair
  <2>2. Len(u) \in Nat /\ Len(u) < n
    BY <1>5, <2>1
  <2>3. Windows(Unix(u)) = u
    BY <1>1, <2>1, <2>2
  <2> DEFINE w == <<Cr, Lf>>
  <2>4. w \in Seq(Symbols) /\ Unix(w) = <<Lf>> /\ w[1] = Cr /\ Cr # Lf
    BY UnixOfPair, PatchAssumption
  <2>5. t = Join(u, w)
    <3>1. Cr \in Symbols /\ Lf \in Symbols
      BY PatchAssumption
    <3> DEFINE a == <<Cr>>
               b == <<Lf>>
    <3>2. a \in Seq(Symbols) /\ b \in Seq(Symbols)
      BY <3>1
    <3>3. Append(a, Lf) = w
      <4>1. Append(a, Lf) \in Seq(Symbols) /\ Len(Append(a, Lf)) = 2
            /\ Append(a, Lf)[1] = Cr /\ Append(a, Lf)[2] = Lf
        BY <3>1, <3>2, AppendProperties
      <4>2. Len(w) = 2 /\ w[1] = Cr /\ w[2] = Lf
        OBVIOUS
      <4>3. \A i \in 1..2 : Append(a, Lf)[i] = w[i]
        BY <4>1, <4>2
      <4> QED BY <2>4, <4>1, <4>2, <4>3, SeqEqual
    <3> HIDE DEF w
    <3>4. s = Join(u, a)
      BY <2>1, <3>1, JoinLast
    <3>5. t = Join(s, b)
      BY <1>4, <1>7, <3>1, JoinLast
    <3>6. Append(a, Lf) = Join(a, b)
      BY <3>1, <3>2, JoinLast
    <3> HIDE DEF a, b
    <3>7. Join(Join(u, a), b) = Join(u, Join(a, b))
      BY <3>2, JoinAssociative
    <3> QED BY <3>3, <3>4, <3>5, <3>6, <3>7
  <2> HIDE DEF w
  <2>6. SafeCut(u, w)
    BY <2>4 DEF SafeCut
  <2>7. Unix(t) = Join(Unix(u), <<Lf>>) /\ Unix(u) \in Seq(Symbols)
    BY <2>4, <2>5, <2>6, UnixJoin, UnixType, TextIsSeq
  <2>8. <<Lf>> \in Seq(Symbols) /\ Windows(<<Lf>>) = w
    BY PatchAssumption, WindowsOfOne DEF w
  <2>9. Windows(Unix(t)) = Join(Windows(Unix(u)), Windows(<<Lf>>))
    BY <2>7, <2>8, WindowsJoin
  <2> QED BY <1>2, <2>3, <2>5, <2>8, <2>9
<1> QED BY <1>6, <1>7

-----------------------------------------------------------------------------
\* The newlines of the file.

InWindows(like) == like # NoFile /\ HasPair(like)

LEMMA InStyleOfText ==
  ASSUME NEW s \in Texts, NEW like
  PROVE  InStyle(s, like) = IF InWindows(like) THEN Windows(s) ELSE s
BY FoldOfText DEF InStyle, InWindows

LEMMA InStyleType ==
  ASSUME NEW s \in Texts, NEW like
  PROVE  /\ InStyle(s, like) \in Seq(Symbols)
         /\ ~InWindows(like) => InStyle(s, like) \in Texts
         /\ Unix(InStyle(s, like)) = s
BY InStyleOfText, TextIsSeq, WindowsType, UnixOfText, UnixOfWindows

LEMMA JoinTexts == ASSUME NEW s \in Texts, NEW t \in Texts PROVE Join(s, t) \in Texts
BY JoinType DEF Texts

LEMMA InStyleJoin ==
  ASSUME NEW s \in Texts, NEW t \in Texts, NEW like
  PROVE  InStyle(Join(s, t), like) = Join(InStyle(s, like), InStyle(t, like))
<1>1. s \in Seq(Symbols) /\ t \in Seq(Symbols) /\ Join(s, t) \in Texts
  BY TextIsSeq, JoinTexts
<1>2. /\ InStyle(s, like) = IF InWindows(like) THEN Windows(s) ELSE s
      /\ InStyle(t, like) = IF InWindows(like) THEN Windows(t) ELSE t
      /\ InStyle(Join(s, t), like) = IF InWindows(like) THEN Windows(Join(s, t)) ELSE Join(s, t)
  BY <1>1, InStyleOfText
<1> QED BY <1>1, <1>2, WindowsJoin

\* A file with newlines of one kind is its text in its own style.
LEMMA StyleOfUnix ==
  ASSUME NEW raw \in Seq(Symbols), ~Mixed(raw) PROVE InStyle(Unix(raw), raw) = raw
<1>1. Unix(raw) \in Texts /\ raw # NoFile
  BY UnixType, PatchAssumption
<1>2. \A i \in 1..Len(raw) : raw[i] = Cr => PairAt(raw, i)
  BY DEF Mixed
<1>3. CASE HasPair(raw)
  <2>1. \A i \in 1..Len(raw) : raw[i] = Lf => i > 1 /\ raw[i - 1] = Cr
    BY <1>3 DEF Mixed
  <2>2. Paired(raw)
    BY <1>2, <2>1 DEF Paired
  <2> QED BY <1>1, <1>3, <2>2, WindowsOfUnix, InStyleOfText DEF InWindows
<1>4. CASE ~HasPair(raw)
  <2>1. \A i \in 1..Len(raw) : raw[i] \in Symbols \ {Cr}
    BY <1>2, <1>4, ElementOfSeq DEF HasPair
  <2>2. raw \in Texts
    BY <2>1 DEF Texts
  <2> QED BY <1>1, <1>4, <2>2, UnixOfText, InStyleOfText DEF InWindows
<1> QED BY <1>3, <1>4

\* A text in style neither ends in Cr nor, among Windows newlines, begins with Lf.
LEMMA StyledEdges ==
  ASSUME NEW s \in Texts, s # <<>>, NEW like, NEW a \in Seq(Symbols), NEW b \in Seq(Symbols),
         InWindows(like) \/ a \in Texts
  PROVE  /\ SafeCut(a, Join(InStyle(s, like), b))
         /\ SafeCut(InStyle(s, like), b)
         /\ InStyle(s, like) # <<>>
<1> DEFINE r == InStyle(s, like)
<1>1. r \in Seq(Symbols)
  BY InStyleType
<1>2. CASE ~InWindows(like)
  <2>1. r = s /\ a \in Texts
    BY <1>2, InStyleOfText
  <2>2. Len(s) \in Nat \ {0} /\ s[Len(s)] # Cr
    <3>1. Len(s) \in Nat \ {0} /\ Len(s) \in 1..Len(s)
      BY EmptySeq DEF Texts
    <3> QED BY <3>1, NoReturns
  <2>3. a = <<>> \/ a[Len(a)] # Cr
    <3>1. a # <<>> => Len(a) \in 1..Len(a)
      BY EmptySeq DEF Texts
    <3> QED BY <2>1, <3>1, NoReturns
  <2> HIDE DEF r
  <2> QED BY <2>1, <2>2, <2>3 DEF SafeCut, r
<1>3. CASE InWindows(like)
  <2>1. r = Windows(s)
    BY <1>3, InStyleOfText
  <2> HIDE DEF r
  <2>2. r # <<>> /\ r[Len(r)] # Cr
    <3>1. PICK u \in Texts, x \in Symbols \ {Cr} : s = Append(u, x)
      BY SequenceEmptyOrAppend DEF Texts
    <3> DEFINE w == Windows(<<x>>)
               v == Windows(u)
    <3>2. u \in Seq(Symbols) /\ v \in Seq(Symbols)
      BY TextIsSeq, WindowsType
    <3>3. /\ w \in Seq(Symbols) /\ Len(w) \in Nat \ {0} /\ w[Len(w)] # Cr
      <4>1. CASE x = Lf
        <5> DEFINE p == <<Cr, Lf>>
        <5>1. p \in Seq(Symbols) /\ Len(p) = 2 /\ p[2] = Lf /\ Cr # Lf
          BY PatchAssumption
        <5>2. w = p
          BY <4>1, WindowsOfOne
        <5> HIDE DEF p, w
        <5>3. w \in Seq(Symbols) /\ Len(w) = Len(p) /\ w[Len(w)] = p[Len(p)]
          BY <5>1, <5>2
        <5> QED BY <5>1, <5>3
      <4>2. CASE x # Lf
        <5> DEFINE p == <<x>>
        <5>1. p \in Seq(Symbols) /\ Len(p) = 1 /\ p[1] = x
          OBVIOUS
        <5>2. w = p
          BY <4>2, WindowsOfOne
        <5> HIDE DEF p, w
        <5>3. w \in Seq(Symbols) /\ Len(w) = Len(p) /\ w[Len(w)] = p[Len(p)]
          BY <5>1, <5>2
        <5> QED BY <5>1, <5>3
      <4> QED BY <4>1, <4>2
    <3>4. r = Join(v, w)
      BY <2>1, <3>1, <3>2, WindowsAppend
    <3> HIDE DEF v, w
    <3>5. /\ Len(r) = Len(v) + Len(w) /\ Len(v) \in Nat
          /\ \A i \in 1..(Len(v) + Len(w)) : r[i] = IF i <= Len(v) THEN v[i] ELSE w[i - Len(v)]
      <4>1. Len(r) = Len(v) + Len(w)
        BY <3>2, <3>3, <3>4, JoinAt
      <4>2. \A i \in 1..(Len(v) + Len(w)) : r[i] = IF i <= Len(v) THEN v[i] ELSE w[i - Len(v)]
        BY <3>2, <3>3, <3>4, JoinAt
      <4> QED BY <3>2, <4>1, <4>2
    <3>6. Len(r) \in 1..(Len(v) + Len(w)) /\ ~(Len(r) <= Len(v)) /\ Len(r) - Len(v) = Len(w)
      BY <3>3, <3>5
    <3>7. r[Len(r)] = w[Len(w)] /\ Len(r) # 0
      BY <3>3, <3>5, <3>6
    <3> QED BY <3>3, <3>7
  <2>3. r[1] # Lf
    <3>1. Len(s) \in Nat \ {0} /\ 1 \in 1..Len(s) /\ s[1] \in Symbols \ {Cr}
      <4>1. Len(s) \in Nat \ {0} /\ 1 \in 1..Len(s)
        BY EmptySeq DEF Texts
      <4> QED BY <4>1, NoReturns
    <3> DEFINE p == WindowsPieces(s)
               x == s[1]
    <3>2. PICK t \in Seq(Symbols), h \in Seq(Symbols) : h = <<x>> /\ s = Join(h, t)
      <4>1. s \in Seq(Symbols)
        BY TextIsSeq
      <4>2. s = <<s[1]>> \o SubSeq(s, 2, Len(s))
        <5>1. SubSeq(s, 1, Len(s)) = <<s[1]>> \o SubSeq(s, 1 + 1, Len(s))
          BY <3>1, <4>1, SubSeqRecursiveFirst
        <5>2. SubSeq(s, 1, Len(s)) = s
          BY <4>1, SubSeqFull
        <5> QED BY <5>1, <5>2
      <4>3. SubSeq(s, 2, Len(s)) \in Seq(Symbols) /\ <<s[1]>> \in Seq(Symbols)
        BY <3>1, <4>1
      <4> QED BY <4>2, <4>3 DEF Join
    <3> DEFINE w == Windows(<<x>>)
               v == Windows(t)
    <3>3. w \in Seq(Symbols) /\ Len(w) \in Nat \ {0} /\ w[1] # Lf
      <4>1. CASE x = Lf
        <5> DEFINE q == <<Cr, Lf>>
        <5>1. q \in Seq(Symbols) /\ Len(q) = 2 /\ q[1] = Cr /\ Cr # Lf
          BY PatchAssumption
        <5>2. w = q
          BY <3>1, <4>1, WindowsOfOne
        <5> HIDE DEF q, w
        <5>3. w \in Seq(Symbols) /\ Len(w) = Len(q) /\ w[1] = q[1]
          BY <5>1, <5>2
        <5> QED BY <5>1, <5>3
      <4>2. CASE x # Lf
        <5> DEFINE q == <<x>>
        <5>1. q \in Seq(Symbols) /\ Len(q) = 1 /\ q[1] = x
          BY <3>1
        <5>2. w = q
          BY <3>1, <4>2, WindowsOfOne
        <5> HIDE DEF q, w
        <5>3. w \in Seq(Symbols) /\ Len(w) = Len(q) /\ w[1] = q[1]
          BY <5>1, <5>2
        <5> QED BY <4>2, <5>1, <5>3
      <4> QED BY <4>1, <4>2
    <3>4. r = Join(w, v) /\ v \in Seq(Symbols)
      BY <2>1, <3>2, WindowsJoin, WindowsType
    <3> HIDE DEF v, w
    <3>5. /\ \A i \in 1..(Len(w) + Len(v)) : r[i] = IF i <= Len(w) THEN w[i] ELSE v[i - Len(w)]
          /\ Len(v) \in Nat
      <4>1. \A i \in 1..(Len(w) + Len(v)) : r[i] = IF i <= Len(w) THEN w[i] ELSE v[i - Len(w)]
        BY <3>3, <3>4, JoinAt
      <4>2. Len(v) \in Nat
        BY <3>4
      <4> QED BY <4>1, <4>2
    <3>6. 1 \in 1..(Len(w) + Len(v)) /\ 1 <= Len(w)
      BY <3>3, <3>5
    <3> QED BY <3>3, <3>5, <3>6
  <2>4. Join(r, b)[1] = r[1]
    <3>1. Len(r) \in Nat \ {0} /\ Len(b) \in Nat
      BY <1>1, <2>2, EmptySeq
    <3>2. 1 \in 1..(Len(r) + Len(b)) /\ 1 <= Len(r)
      BY <3>1
    <3> QED BY <1>1, <3>2, JoinAt
  <2> QED BY <2>2, <2>3, <2>4 DEF SafeCut, r
<1> QED BY <1>2, <1>3

\* In a file the text in style stands where the text itself stands in the file's text.
LEMMA UnixFramed ==
  ASSUME NEW s \in Texts, s # <<>>, NEW like, NEW a \in Seq(Symbols), NEW b \in Seq(Symbols),
         InWindows(like) \/ a \in Texts
  PROVE  Unix(Join(a, Join(InStyle(s, like), b))) = Join(Unix(a), Join(s, Unix(b)))
<1> DEFINE r == InStyle(s, like)
<1>1. r \in Seq(Symbols) /\ Unix(r) = s
  BY InStyleType
<1>2. SafeCut(a, Join(r, b)) /\ SafeCut(r, b)
  BY StyledEdges
<1> HIDE DEF r
<1>3. Join(r, b) \in Seq(Symbols)
  BY <1>1, JoinType
<1>4. Unix(Join(a, Join(r, b))) = Join(Unix(a), Unix(Join(r, b)))
  BY <1>2, <1>3, UnixJoin
<1>5. Unix(Join(r, b)) = Join(s, Unix(b))
  BY <1>1, <1>2, UnixJoin
<1> QED BY <1>4, <1>5 DEF r

-----------------------------------------------------------------------------
\* Places in a sequence.

\* Everything from m to n.
Part(s, m, n) == SubSeq(s, m, n)

LEMMA PartAt ==
  ASSUME NEW S, NEW s \in Seq(S), NEW m \in Nat \ {0}, NEW n \in Nat, m <= n + 1, n <= Len(s)
  PROVE  /\ Part(s, m, n) \in Seq(S) /\ Len(Part(s, m, n)) = n + 1 - m
         /\ \A i \in 1..(n + 1 - m) : Part(s, m, n)[i] = s[m + i - 1]
<1>1. \A i \in m..n : s[i] \in S
  <2>1. \A i \in m..n : i \in 1..Len(s)
    OBVIOUS
  <2> QED BY <2>1, ElementOfSeq
<1>2. m \in Int /\ n \in Int /\ (IF m <= n THEN n - m + 1 ELSE 0) = n + 1 - m
      /\ n - m + 1 = n + 1 - m
  OBVIOUS
<1> QED BY <1>1, <1>2, SubSeqProperties DEF Part

PartIs(p, s, m, n) == \A i \in 1..(n + 1 - m) : p[i] = s[m + i - 1]

LEMMA PartEach ==
  ASSUME NEW S, NEW s \in Seq(S), NEW m \in Nat \ {0}, NEW n \in Nat, m <= n + 1, n <= Len(s)
  PROVE  PartIs(Part(s, m, n), s, m, n)
BY PartAt DEF PartIs

\* What stands between a and b.
LEMMA Middle ==
  ASSUME NEW S, NEW a \in Seq(S), NEW o \in Seq(S), NEW b \in Seq(S),
         NEW x, x = Join(a, Join(o, b))
  PROVE  /\ x \in Seq(S) /\ Len(x) = Len(a) + Len(o) + Len(b)
         /\ Part(x, 1, Len(a)) = a
         /\ Part(x, Len(a) + 1, Len(a) + Len(o)) = o
         /\ Part(x, Len(a) + Len(o) + 1, Len(x)) = b
<1> DEFINE y == Join(o, b)
           k == Len(a)
           w == Len(o)
           m == Len(b)
<1>1. /\ y \in Seq(S) /\ Len(y) = w + m /\ k \in Nat /\ w \in Nat /\ m \in Nat
      /\ \A i \in 1..(w + m) : y[i] = IF i <= w THEN o[i] ELSE b[i - w]
  <2>1. y \in Seq(S)
    BY JoinType
  <2>2. Len(y) = w + m
    BY JoinAt
  <2>3. \A i \in 1..(w + m) : y[i] = IF i <= w THEN o[i] ELSE b[i - w]
    BY JoinAt
  <2>4. k \in Nat /\ w \in Nat /\ m \in Nat
    OBVIOUS
  <2> QED BY <2>1, <2>2, <2>3, <2>4
<1> HIDE DEF y
<1>2. /\ x \in Seq(S) /\ Len(x) = k + (w + m)
      /\ \A i \in 1..(k + (w + m)) : x[i] = IF i <= k THEN a[i] ELSE y[i - k]
  BY <1>1, JoinAt, JoinType DEF y
<1> HIDE DEF k, w, m
<1>3. Part(x, 1, k) = a
  <2>1. 1 \in Nat \ {0} /\ k \in Nat /\ 1 <= k + 1 /\ k <= Len(x) /\ k + 1 - 1 = k
    BY <1>1, <1>2
  <2>2. /\ Part(x, 1, k) \in Seq(S) /\ Len(Part(x, 1, k)) = k
        /\ \A i \in 1..k : Part(x, 1, k)[i] = x[1 + i - 1]
    <3>1. PICK f \in Nat \ {0}, l \in Nat : f = 1 /\ l = k
      BY <2>1
    <3>2. x \in Seq(S) /\ f <= l + 1 /\ l <= Len(x) /\ l + 1 - f = k
      BY <1>2, <2>1, <3>1
    <3>3. Part(x, f, l) \in Seq(S) /\ Len(Part(x, f, l)) = l + 1 - f
      BY <3>2, PartAt
    <3>4. PartIs(Part(x, f, l), x, f, l)
      BY <3>2, PartEach
    <3> QED BY <3>1, <3>2, <3>3, <3>4 DEF PartIs
  <2>3. \A i \in 1..k : 1 + i - 1 = i /\ i \in 1..(k + (w + m)) /\ i <= k
    BY <1>1
  <2>4. \A i \in 1..k : Part(x, 1, k)[i] = a[i]
    BY <1>2, <2>2, <2>3
  <2> QED BY <2>2, <2>4, SeqEqual DEF k
<1>4. Part(x, k + 1, k + w) = o
  <2>1. k + 1 \in Nat \ {0} /\ k + w \in Nat /\ k + 1 <= k + w + 1 /\ k + w <= Len(x)
        /\ k + w + 1 - (k + 1) = w
    BY <1>1, <1>2
  <2> DEFINE p == Part(x, k + 1, k + w)
  <2>2. /\ p \in Seq(S) /\ Len(p) = w
        /\ \A i \in 1..w : p[i] = x[k + 1 + i - 1]
    <3>1. PICK f \in Nat \ {0}, l \in Nat : f = k + 1 /\ l = k + w
      BY <2>1
    <3>2. x \in Seq(S) /\ f <= l + 1 /\ l <= Len(x) /\ l + 1 - f = w
      BY <1>2, <2>1, <3>1
    <3>3. Part(x, f, l) \in Seq(S) /\ Len(Part(x, f, l)) = l + 1 - f
      BY <3>2, PartAt
    <3>4. PartIs(Part(x, f, l), x, f, l)
      BY <3>2, PartEach
    <3> QED BY <3>1, <3>2, <3>3, <3>4 DEF PartIs
  <2> HIDE DEF p
  <2>3. ASSUME NEW i \in 1..w PROVE p[i] = o[i]
    <3>1. /\ k + 1 + i - 1 = k + i /\ k + i \in 1..(k + (w + m)) /\ ~(k + i <= k)
          /\ (k + i) - k = i /\ i \in 1..(w + m) /\ i <= w
      BY <1>1
    <3>2. PICK q \in 1..(k + (w + m)) : q = k + i
      BY <3>1
    <3>3. q = k + 1 + i - 1 /\ ~(q <= k) /\ q - k = i
      BY <3>1, <3>2
    <3>4. p[i] = x[q]
      BY <2>2, <3>3
    <3>5. x[q] = y[i]
      BY <1>2, <3>3
    <3>6. y[i] = o[i]
      BY <1>1, <3>1
    <3> QED BY <3>4, <3>5, <3>6
  <2>4. p = o
    BY <2>2, <2>3, SeqEqual DEF w
  <2> QED BY <2>4 DEF p
<1>5. Part(x, k + w + 1, Len(x)) = b
  <2>1. k + w + 1 \in Nat \ {0} /\ Len(x) \in Nat /\ k + w + 1 <= Len(x) + 1
        /\ Len(x) + 1 - (k + w + 1) = m
    BY <1>1, <1>2, SMTT(30)
  <2> DEFINE p == Part(x, k + w + 1, Len(x))
  <2>2. /\ p \in Seq(S) /\ Len(p) = m
        /\ \A i \in 1..m : p[i] = x[k + w + 1 + i - 1]
    <3>1. PICK f \in Nat \ {0}, l \in Nat : f = k + w + 1 /\ l = Len(x)
      BY <2>1
    <3>2. x \in Seq(S) /\ f <= l + 1 /\ l <= Len(x) /\ l + 1 - f = m
      BY <1>2, <2>1, <3>1
    <3>3. Part(x, f, l) \in Seq(S) /\ Len(Part(x, f, l)) = l + 1 - f
      BY <3>2, PartAt
    <3>4. PartIs(Part(x, f, l), x, f, l)
      BY <3>2, PartEach
    <3> QED BY <3>1, <3>2, <3>3, <3>4 DEF PartIs
  <2> HIDE DEF p
  <2>3. ASSUME NEW i \in 1..m PROVE p[i] = b[i]
    <3>1. /\ k + w + 1 + i - 1 = k + (w + i) /\ k + (w + i) \in 1..(k + (w + m))
          /\ ~(k + (w + i) <= k) /\ (k + (w + i)) - k = w + i
          /\ w + i \in 1..(w + m) /\ ~(w + i <= w) /\ (w + i) - w = i
      BY <1>1
    <3>2. PICK q \in 1..(k + (w + m)), r \in 1..(w + m) : q = k + (w + i) /\ r = w + i
      BY <3>1
    <3>3. q = k + w + 1 + i - 1 /\ ~(q <= k) /\ q - k = r /\ ~(r <= w) /\ r - w = i
      BY <3>1, <3>2
    <3>4. p[i] = x[q]
      BY <2>2, <3>3
    <3>5. x[q] = y[r]
      BY <1>2, <3>3
    <3>6. y[r] = b[i]
      BY <1>1, <3>3
    <3> QED BY <3>4, <3>5, <3>6
  <2>4. p = b
    BY <2>2, <2>3, SeqEqual DEF m
  <2> QED BY <2>4 DEF p
<1>6. k + (w + m) = k + w + m
  BY <1>1
<1> QED BY <1>2, <1>3, <1>4, <1>5, <1>6 DEF k, w, m

\* Any sequence is cut into three around w elements from i on.
LEMMA CutOut ==
  ASSUME NEW S, NEW x \in Seq(S), NEW i \in Nat \ {0}, NEW w \in Nat, i + w <= Len(x) + 1
  PROVE  \E a \in Seq(S), o \in Seq(S), b \in Seq(S) :
           /\ x = Join(a, Join(o, b))
           /\ Len(a) = i - 1 /\ Len(o) = w
           /\ a = Part(x, 1, i - 1) /\ o = Part(x, i, i + w - 1) /\ b = Part(x, i + w, Len(x))
<1> DEFINE n == Len(x)
           a == Part(x, 1, i - 1)
           o == Part(x, i, i + w - 1)
           b == Part(x, i + w, n)
           y == Join(o, b)
<1>0. n \in Nat /\ i + w <= n + 1
  OBVIOUS
<1> HIDE DEF n
<1>1. /\ a \in Seq(S) /\ Len(a) = i - 1
      /\ \A j \in 1..(i - 1) : a[j] = x[j]
  <2>1. /\ 1 \in Nat \ {0} /\ i - 1 \in Nat /\ 1 <= (i - 1) + 1 /\ i - 1 <= n
        /\ (i - 1) + 1 - 1 = i - 1
    BY <1>0
  <2>2. \A j \in 1..(i - 1) : 1 + j - 1 = j
    OBVIOUS
  <2>3. PICK f \in Nat \ {0}, l \in Nat : f = 1 /\ l = i - 1
    BY <2>1
  <2>4. f <= l + 1 /\ l <= Len(x) /\ l + 1 - f = i - 1
    BY <2>1, <2>3 DEF n
  <2>5. Part(x, f, l) \in Seq(S) /\ Len(Part(x, f, l)) = l + 1 - f
    BY <2>4, PartAt, SMTT(30)
  <2>6. PartIs(Part(x, f, l), x, f, l)
    BY <2>4, PartEach
  <2> QED BY <2>2, <2>3, <2>4, <2>5, <2>6 DEF PartIs
<1>2. /\ o \in Seq(S) /\ Len(o) = w
      /\ \A j \in 1..w : o[j] = x[i + j - 1]
  <2>1. i + w - 1 \in Nat /\ i <= (i + w - 1) + 1 /\ i + w - 1 <= n /\ (i + w - 1) + 1 - i = w
    BY <1>0
  <2> QED BY <2>1, PartAt DEF n
<1>3. /\ b \in Seq(S) /\ Len(b) = n + 1 - (i + w)
      /\ \A j \in 1..(n + 1 - (i + w)) : b[j] = x[i + w + j - 1]
  <2>1. i + w \in Nat \ {0} /\ i + w <= n + 1 /\ n <= n
    BY <1>0
  <2> QED BY <1>0, <2>1, PartAt, SMTT(30) DEF n
<1> HIDE DEF a, o, b
<1>4. /\ y \in Seq(S) /\ Len(y) = n + 1 - i
      /\ \A j \in 1..(n + 1 - i) : y[j] = IF j <= w THEN o[j] ELSE b[j - w]
  <2>1. w + (n + 1 - (i + w)) = n + 1 - i
    BY <1>0
  <2>2. y \in Seq(S)
    BY <1>2, <1>3, JoinType
  <2>3. Len(y) = Len(o) + Len(b)
    BY <1>2, <1>3, JoinAt
  <2>4. \A j \in 1..(Len(o) + Len(b)) : y[j] = IF j <= Len(o) THEN o[j] ELSE b[j - Len(o)]
    BY <1>2, <1>3, JoinAt
  <2> HIDE DEF y
  <2> QED BY <1>2, <1>3, <2>1, <2>2, <2>3, <2>4
<1> HIDE DEF y
<1>5. /\ Join(a, y) \in Seq(S) /\ Len(Join(a, y)) = n
      /\ \A j \in 1..n : Join(a, y)[j] = IF j <= i - 1 THEN a[j] ELSE y[j - (i - 1)]
  <2>1. (i - 1) + (n + 1 - i) = n
    BY <1>0
  <2>2. Join(a, y) \in Seq(S)
    BY <1>1, <1>4, JoinType
  <2>3. Len(Join(a, y)) = Len(a) + Len(y)
    BY <1>1, <1>4, JoinAt
  <2>4. \A j \in 1..(Len(a) + Len(y)) : Join(a, y)[j] = IF j <= Len(a) THEN a[j] ELSE y[j - Len(a)]
    BY <1>1, <1>4, JoinAt
  <2> QED BY <1>1, <1>4, <2>1, <2>2, <2>3, <2>4
<1>6. ASSUME NEW j \in 1..n PROVE x[j] = Join(a, y)[j]
  <2>1. CASE j <= i - 1
    BY <1>1, <1>5, <2>1
  <2>2. CASE ~(j <= i - 1) /\ j - (i - 1) <= w
    <3>1. /\ j - (i - 1) \in 1..w /\ j - (i - 1) \in 1..(n + 1 - i)
          /\ i + (j - (i - 1)) - 1 = j
      BY <1>0, <2>2
    <3> QED BY <1>2, <1>4, <1>5, <2>2, <3>1
  <2>3. CASE ~(j <= i - 1) /\ ~(j - (i - 1) <= w)
    <3> DEFINE l == j - (i - 1)
    <3>1. /\ l \in 1..(n + 1 - i) /\ l - w \in 1..(n + 1 - (i + w))
          /\ i + w + (l - w) - 1 = j
      BY <1>0, <2>3
    <3>2. Join(a, y)[j] = y[l] /\ y[l] = b[l - w]
      BY <1>4, <1>5, <2>3, <3>1
    <3> HIDE DEF l
    <3> QED BY <1>3, <3>1, <3>2
  <2> QED BY <2>1, <2>2, <2>3
<1>7. x = Join(a, y)
  BY <1>5, <1>6, SeqEqual DEF n
<1> QED BY <1>1, <1>2, <1>3, <1>7 DEF a, o, b, y, n

-----------------------------------------------------------------------------
\* One hunk.

LEMMA OccurrencesCount ==
  ASSUME NEW s \in Texts, NEW old \in Texts PROVE Occurrences(old, s) \in SUBSET Nat
<1>1. Len(s) \in Nat /\ Len(old) \in Nat
  BY TextLength
<1> QED BY <1>1 DEF Occurrences

LEMMA LeastOccurrence ==
  ASSUME NEW s \in Texts, NEW old \in Texts, NEW i \in LocateUnique(old, s)
  PROVE  /\ i \in Occurrences(old, s) /\ i \in Nat \ {0}
         /\ i + Len(old) <= Len(s) + 1
         /\ \A j \in Occurrences(old, s) : i <= j
         /\ Finds(old, s, i + Len(old)) = {}
<1>0. Len(s) \in Nat /\ Len(old) \in Nat
  BY DEF Texts
<1>1. Occurrences(old, s) \in SUBSET (Nat \ {0})
  BY <1>0 DEF Occurrences
<1>2. Finds(old, s, 1) = Occurrences(old, s)
  BY <1>1 DEF Finds
<1>3. /\ Finds(old, s, 1) # {} /\ i = Min(Finds(old, s, 1))
      /\ Finds(old, s, Min(Finds(old, s, 1)) + Len(old)) = {}
  BY DEF LocateUnique
<1>4. PICK k \in Occurrences(old, s) : \A j \in Occurrences(old, s) : ~(j < k)
  <2>1. Occurrences(old, s) \in SUBSET Nat
    BY <1>1
  <2> QED BY <1>2, <1>3, <2>1, LeastNumber
<1>5. \A j \in Occurrences(old, s) : k <= j
  BY <1>1, <1>4
<1>6. i \in Occurrences(old, s) /\ \A j \in Occurrences(old, s) : i <= j
  BY <1>2, <1>3, <1>5 DEF Min
<1>7. i \in 1..(Len(s) - Len(old) + 1)
  BY <1>6 DEF Occurrences
<1> QED BY <1>0, <1>3, <1>6, <1>7

\* The old text stands between a and b.
LEMMA OccursBetween ==
  ASSUME NEW a \in Texts, NEW old \in Texts, NEW b \in Texts, NEW s, s = Join(a, Join(old, b))
  PROVE  Len(a) + 1 \in Occurrences(old, s)
<1>1. /\ Len(s) = Len(a) + Len(old) + Len(b)
      /\ Part(s, Len(a) + 1, Len(a) + Len(old)) = old
      /\ Len(a) \in Nat /\ Len(old) \in Nat /\ Len(b) \in Nat
  <2>1. a \in Seq(Symbols) /\ old \in Seq(Symbols) /\ b \in Seq(Symbols)
    BY TextIsSeq
  <2>2. Len(s) = Len(a) + Len(old) + Len(b)
    BY <2>1, Middle
  <2>3. Part(s, Len(a) + 1, Len(a) + Len(old)) = old
    BY <2>1, Middle
  <2> QED BY <2>1, <2>2, <2>3
<1>2. Len(a) + 1 + Len(old) - 1 = Len(a) + Len(old)
      /\ Len(a) + 1 \in 1..(Len(s) - Len(old) + 1)
  BY <1>1
<1> QED BY <1>1, <1>2 DEF Occurrences, OccursAt, Part

\* Two places apart in the file are two places apart in its text.
LEMMA PlacesApart ==
  ASSUME NEW s \in Texts, NEW old \in Texts, old # <<>>, NEW like,
         NEW raw, raw = InStyle(s, like), NEW styled, styled = InStyle(old, like),
         NEW i \in Nat \ {0}, NEW j \in Nat,
         i + Len(styled) <= j, j + Len(styled) <= Len(raw) + 1,
         Part(raw, i, i + Len(styled) - 1) = styled,
         Part(raw, j, j + Len(styled) - 1) = styled
  PROVE  \E p, q \in Occurrences(old, s) : p + Len(old) <= q
<1> DEFINE w == Len(styled)
<1>1. /\ raw \in Seq(Symbols) /\ styled \in Seq(Symbols) /\ Unix(raw) = s
      /\ w \in Nat /\ Len(raw) \in Nat
      /\ ~InWindows(like) => raw \in Texts
  <2>1. raw \in Seq(Symbols) /\ Unix(raw) = s /\ (~InWindows(like) => raw \in Texts)
    BY InStyleType
  <2>2. styled \in Seq(Symbols)
    BY InStyleType
  <2> QED BY <2>1, <2>2
<1> HIDE DEF w
<1>2. j \in Nat \ {0} /\ j + w <= Len(raw) + 1 /\ i + w <= j
  BY <1>1 DEF w
<1>3. PICK c \in Seq(Symbols), o \in Seq(Symbols), b \in Seq(Symbols) :
        /\ raw = Join(c, Join(o, b))
        /\ Len(c) = j - 1 /\ Len(o) = w
        /\ c = Part(raw, 1, j - 1) /\ o = Part(raw, j, j + w - 1) /\ b = Part(raw, j + w, Len(raw))
  <2>1. PICK x \in Seq(Symbols), k \in Nat \ {0}, v \in Nat : x = raw /\ k = j /\ v = w
    BY <1>1, <1>2
  <2>2. k + v <= Len(x) + 1
    BY <1>2, <2>1
  <2>3. \E c \in Seq(Symbols), o \in Seq(Symbols), b \in Seq(Symbols) :
          /\ x = Join(c, Join(o, b))
          /\ Len(c) = k - 1 /\ Len(o) = v
          /\ c = Part(x, 1, k - 1) /\ o = Part(x, k, k + v - 1) /\ b = Part(x, k + v, Len(x))
    BY <2>2, CutOut
  <2> QED BY <2>1, <2>3
<1>4. o = styled
  BY <1>3 DEF w
<1>5. i + w <= Len(c) + 1
  BY <1>1, <1>2, <1>3
<1>6. PICK a \in Seq(Symbols), u \in Seq(Symbols), m \in Seq(Symbols) :
        /\ c = Join(a, Join(u, m))
        /\ Len(a) = i - 1 /\ Len(u) = w
        /\ a = Part(c, 1, i - 1) /\ u = Part(c, i, i + w - 1) /\ m = Part(c, i + w, Len(c))
  <2>1. w \in Nat /\ i + w <= Len(c) + 1
    BY <1>1, <1>5
  <2>2. \E a \in Seq(Symbols), u \in Seq(Symbols), m \in Seq(Symbols) :
          /\ c = Join(a, Join(u, m))
          /\ Len(a) = i - 1 /\ Len(u) = w
          /\ a = Part(c, 1, i - 1) /\ u = Part(c, i, i + w - 1) /\ m = Part(c, i + w, Len(c))
    BY <2>1, CutOut
  <2> QED BY <2>2
<1>7. u = styled
  <2> DEFINE y == Join(m, Join(o, b))
  <2>1. y \in Seq(Symbols) /\ Join(o, b) \in Seq(Symbols) /\ Join(u, m) \in Seq(Symbols)
    BY JoinType
  <2>2. raw = Join(a, Join(u, y))
    <3>1. raw = Join(Join(a, Join(u, m)), Join(o, b))
      BY <1>3, <1>6
    <3>2. Join(Join(a, Join(u, m)), Join(o, b)) = Join(a, Join(Join(u, m), Join(o, b)))
      BY <2>1, JoinAssociative
    <3>3. Join(Join(u, m), Join(o, b)) = Join(u, Join(m, Join(o, b)))
      <4> DEFINE t == Join(o, b)
      <4>1. t \in Seq(Symbols) /\ u \in Seq(Symbols) /\ m \in Seq(Symbols)
        BY <1>6, <2>1
      <4> HIDE DEF t
      <4>2. Join(Join(u, m), t) = Join(u, Join(m, t))
        BY <4>1, JoinAssociative
      <4> QED BY <4>2 DEF t
    <3> QED BY <3>1, <3>2, <3>3
  <2> HIDE DEF y
  <2>3. Part(raw, Len(a) + 1, Len(a) + Len(u)) = u
    BY <2>1, <2>2, Middle, SMTT(30)
  <2>4. Len(a) + 1 = i /\ Len(a) + Len(u) = i + w - 1
    BY <1>1, <1>6
  <2> QED BY <2>3, <2>4 DEF w
<1> DEFINE y == Join(m, Join(styled, b))
           rest == Join(old, Unix(b))
<1>8. /\ y \in Seq(Symbols) /\ Join(styled, b) \in Seq(Symbols)
      /\ raw = Join(a, Join(styled, y))
  <2>1. Join(styled, b) \in Seq(Symbols) /\ Join(styled, m) \in Seq(Symbols)
    BY <1>1, JoinType
  <2>2. y \in Seq(Symbols)
    BY <2>1, JoinType
  <2>3. raw = Join(Join(a, Join(styled, m)), Join(styled, b))
    BY <1>3, <1>4, <1>6, <1>7
  <2>4. Join(Join(a, Join(styled, m)), Join(styled, b))
          = Join(a, Join(Join(styled, m), Join(styled, b)))
    BY <2>1, JoinAssociative
  <2>5. Join(Join(styled, m), Join(styled, b)) = Join(styled, Join(m, Join(styled, b)))
    <3> DEFINE t == Join(styled, b)
    <3>1. t \in Seq(Symbols) /\ styled \in Seq(Symbols) /\ m \in Seq(Symbols)
      BY <1>1, <2>1
    <3> HIDE DEF t
    <3>2. Join(Join(styled, m), t) = Join(styled, Join(m, t))
      BY <3>1, JoinAssociative
    <3> QED BY <3>2 DEF t
  <2> QED BY <2>1, <2>2, <2>3, <2>4, <2>5
<1>9. InWindows(like) \/ (a \in Texts /\ m \in Texts)
  <2> SUFFICES ASSUME raw \in Texts PROVE a \in Texts /\ m \in Texts
    BY <1>1
  <2>1. \A k \in 1..Len(raw) : raw[k] \in Symbols \ {Cr}
    BY NoReturns
  <2>2. /\ Len(raw) = Len(c) + (Len(styled) + Len(b))
        /\ \A k \in 1..Len(c) : k \in 1..Len(raw) /\ raw[k] = c[k]
    <3>1. Len(c) \in Nat /\ Len(styled) \in Nat /\ Len(b) \in Nat
      BY <1>1
    <3>2. Len(Join(styled, b)) = Len(styled) + Len(b)
      BY <1>1, JoinAt
    <3>3. /\ Len(raw) = Len(c) + (Len(styled) + Len(b))
          /\ \A k \in 1..(Len(c) + (Len(styled) + Len(b))) : k <= Len(c) => raw[k] = c[k]
      <4> DEFINE t == Join(styled, b)
      <4>1. t \in Seq(Symbols) /\ Len(t) = Len(styled) + Len(b)
        BY <1>8, <3>2
      <4> HIDE DEF t
      <4>2. raw = Join(c, t)
        BY <1>3, <1>4 DEF t
      <4>3. Len(raw) = Len(c) + Len(t)
        BY <4>1, <4>2, JoinAt
      <4>4. \A k \in 1..(Len(c) + Len(t)) : raw[k] = IF k <= Len(c) THEN c[k] ELSE t[k - Len(c)]
        <5>1. c \in Seq(Symbols)
          BY <1>3
        <5>2. JoinIs(raw, c, t)
          BY <4>1, <4>2, <5>1, JoinEach
        <5> QED BY <5>2 DEF JoinIs
      <4> QED BY <4>1, <4>3, <4>4
    <3> QED BY <3>1, <3>3
  <2>3. \A k \in 1..Len(c) : c[k] \in Symbols \ {Cr}
    BY <2>1, <2>2
  <2>4. /\ Len(c) = Len(a) + (w + Len(m)) /\ Len(a) \in Nat /\ Len(m) \in Nat
        /\ \A k \in 1..Len(a) : k \in 1..Len(c) /\ c[k] = a[k]
        /\ \A k \in 1..Len(m) : Len(a) + w + k \in 1..Len(c) /\ c[Len(a) + w + k] = m[k]
    <3> DEFINE t == Join(styled, m)
               n == Len(a)
               l == Len(m)
    <3>1. /\ t \in Seq(Symbols) /\ Len(t) = w + l /\ n \in Nat /\ l \in Nat
          /\ \A k \in 1..(w + l) : t[k] = IF k <= w THEN styled[k] ELSE m[k - w]
      <4>1. t \in Seq(Symbols)
        BY <1>1, JoinType
      <4>2. Len(t) = Len(styled) + l
        BY <1>1, JoinAt
      <4>3. \A k \in 1..(Len(styled) + Len(m)) : t[k] = IF k <= Len(styled) THEN styled[k]
                                                       ELSE m[k - Len(styled)]
        <5>1. styled \in Seq(Symbols)
          BY <1>1
        <5>2. JoinIs(t, styled, m)
          BY <5>1, JoinEach
        <5> QED BY <5>2 DEF JoinIs
      <4>4. n \in Nat /\ l \in Nat
        OBVIOUS
      <4> QED BY <4>1, <4>2, <4>3, <4>4 DEF w
    <3> HIDE DEF t
    <3>2. /\ Len(c) = n + (w + l)
          /\ \A k \in 1..(n + (w + l)) : c[k] = IF k <= n THEN a[k] ELSE t[k - n]
      <4>1. c = Join(a, t)
        BY <1>6, <1>7 DEF t
      <4>2. Len(c) = Len(a) + Len(t)
        BY <3>1, <4>1, JoinAt
      <4>3. \A k \in 1..(Len(a) + Len(t)) : c[k] = IF k <= Len(a) THEN a[k] ELSE t[k - Len(a)]
        <5>1. a \in Seq(Symbols) /\ t \in Seq(Symbols)
          BY <1>6, <3>1
        <5>2. JoinIs(c, a, t)
          BY <4>1, <5>1, JoinEach
        <5> QED BY <5>2 DEF JoinIs
      <4> QED BY <3>1, <4>2, <4>3
    <3> HIDE DEF n, l
    <3>3. \A k \in 1..n : k \in 1..(n + (w + l)) /\ k <= n
      BY <1>1, <3>1
    <3>4. ASSUME NEW k \in 1..l PROVE n + w + k \in 1..(n + (w + l)) /\ c[n + w + k] = m[k]
      <4>1. /\ n + w + k \in 1..(n + (w + l)) /\ ~(n + w + k <= n) /\ n + w + k - n = w + k
            /\ w + k \in 1..(w + l) /\ ~(w + k <= w) /\ w + k - w = k
        BY <1>1, <3>1
      <4>2. PICK p \in 1..(n + (w + l)), q \in 1..(w + l) : p = n + w + k /\ q = w + k
        BY <4>1
      <4>3. ~(p <= n) /\ p - n = q /\ ~(q <= w) /\ q - w = k
        <5>1. n \in Nat /\ w \in Nat /\ k \in Nat \ {0}
          BY <1>1, <3>1
        <5> QED BY <4>2, <5>1
      <4>4. c[p] = t[p - n]
        BY <3>2, <4>3
      <4>5. t[q] = m[q - w]
        BY <3>1, <4>3
      <4> QED BY <4>1, <4>2, <4>3, <4>4, <4>5
    <3> QED BY <3>1, <3>2, <3>3, <3>4 DEF n, l
  <2>5. \A k \in 1..Len(a) : a[k] \in Symbols \ {Cr}
    BY <2>3, <2>4
  <2>6. \A k \in 1..Len(m) : m[k] \in Symbols \ {Cr}
    BY <2>3, <2>4
  <2> QED BY <2>5, <2>6, IsText
<1> HIDE DEF y
<1>10. s = Join(Unix(a), Join(old, Unix(y)))
  BY <1>1, <1>8, <1>9, UnixFramed, SMTT(30)
<1>11. Unix(y) = Join(Unix(m), rest)
  BY <1>8, <1>9, UnixFramed DEF y
<1> DEFINE ua == Unix(a)
           um == Unix(m)
           front == Join(Join(ua, old), um)
<1>12. /\ ua \in Texts /\ um \in Texts /\ Unix(b) \in Texts /\ Unix(y) \in Texts
       /\ Join(ua, old) \in Texts /\ front \in Texts /\ rest \in Texts
  <2>1. ua \in Texts /\ um \in Texts /\ Unix(b) \in Texts /\ Unix(y) \in Texts
    BY <1>8, UnixType
  <2>2. Join(ua, old) \in Texts /\ rest \in Texts
    BY <2>1, JoinTexts
  <2> QED BY <2>1, <2>2, JoinTexts
<1>13. s = Join(front, rest)
  <2>1. ua \in Seq(Symbols) /\ um \in Seq(Symbols) /\ old \in Seq(Symbols) /\ rest \in Seq(Symbols)
        /\ Join(ua, old) \in Seq(Symbols) /\ Join(um, rest) \in Seq(Symbols)
    BY <1>12, TextIsSeq, JoinType
  <2> HIDE DEF ua, um, rest
  <2>2. s = Join(ua, Join(old, Join(um, rest)))
    BY <1>10, <1>11 DEF ua, um
  <2> DEFINE t == Join(ua, old)
             v == Join(um, rest)
  <2>3. ua \in Seq(Symbols) /\ old \in Seq(Symbols) /\ v \in Seq(Symbols)
    BY <2>1
  <2>4. t \in Seq(Symbols) /\ um \in Seq(Symbols) /\ rest \in Seq(Symbols)
    BY <2>1
  <2> HIDE DEF front
  <2>5. Join(ua, Join(old, v)) = Join(Join(ua, old), v)
    <3> HIDE DEF v
    <3> QED BY <2>3, JoinAssociative
  <2>6. Join(t, Join(um, rest)) = Join(Join(t, um), rest)
    <3> HIDE DEF t
    <3> QED BY <2>4, JoinAssociative
  <2> QED BY <2>2, <2>5, <2>6 DEF front, t, v
<1>14. Len(ua) + 1 \in Occurrences(old, s)
  BY <1>10, <1>12, OccursBetween
<1>15. Len(front) + 1 \in Occurrences(old, s)
  BY <1>12, <1>13, OccursBetween
<1>16. Len(ua) + 1 + Len(old) <= Len(front) + 1
  <2> HIDE DEF ua, um
  <2>1. Len(ua) \in Nat /\ Len(um) \in Nat /\ Len(old) \in Nat
    BY <1>12, TextLength
  <2>2. ua \in Seq(Symbols) /\ old \in Seq(Symbols) /\ um \in Seq(Symbols)
        /\ Join(ua, old) \in Seq(Symbols)
    BY <1>12, TextIsSeq
  <2>3. Len(Join(ua, old)) = Len(ua) + Len(old)
    BY <2>2, JoinAt
  <2>4. Len(front) = Len(Join(ua, old)) + Len(um)
    BY <2>2, JoinAt
  <2> QED BY <2>1, <2>3, <2>4
<1> QED BY <1>14, <1>15, <1>16

\* The hunk's place in the file is the place found in the text, and there is no other
\* apart from it; what is put there keeps the rest of the file as it was.
LEMMA HunkEdits ==
  ASSUME NEW s \in Texts, NEW h, h.old \in Texts, h.new \in Texts, h.old # <<>>,
         NEW i \in LocateUnique(h.old, s), NEW like
  PROVE  /\ Replaced(s, i, h) \in Texts
         /\ InStyle(Replaced(s, i, h), like) \in Edits(InStyle(s, like), h, like)
<1> DEFINE raw == InStyle(s, like)
           styled == InStyle(h.old, like)
           w == Len(styled)
<1>1. /\ i \in Occurrences(h.old, s) /\ i \in Nat \ {0} /\ i + Len(h.old) <= Len(s) + 1
      /\ \A j \in Occurrences(h.old, s) : i <= j
      /\ Finds(h.old, s, i + Len(h.old)) = {}
      /\ Len(h.old) \in Nat /\ Len(s) \in Nat
  BY LeastOccurrence DEF Texts
<1>2. PICK a \in Texts, o \in Texts, b \in Texts :
        /\ s = Join(a, Join(o, b))
        /\ Len(a) = i - 1 /\ Len(o) = Len(h.old)
        /\ a = Part(s, 1, i - 1) /\ o = Part(s, i, i + Len(h.old) - 1)
        /\ b = Part(s, i + Len(h.old), Len(s))
  <2> DEFINE v == Len(h.old)
             T == Symbols \ {Cr}
  <2>1. v \in Nat /\ i \in Nat \ {0} /\ i + v <= Len(s) + 1 /\ s \in Seq(T)
    BY <1>1 DEF Texts
  <2> HIDE DEF v, T
  <2>2. \E a \in Seq(T), o \in Seq(T), b \in Seq(T) :
          /\ s = Join(a, Join(o, b))
          /\ Len(a) = i - 1 /\ Len(o) = v
          /\ a = Part(s, 1, i - 1) /\ o = Part(s, i, i + v - 1) /\ b = Part(s, i + v, Len(s))
    BY <2>1, CutOut
  <2> QED BY <2>2 DEF Texts, v, T
<1>3. o = h.old
  BY <1>1, <1>2 DEF Occurrences, OccursAt, Part
<1> DEFINE ra == InStyle(a, like)
           rb == InStyle(b, like)
           rn == InStyle(h.new, like)
<1>4. /\ ra \in Seq(Symbols) /\ rb \in Seq(Symbols) /\ rn \in Seq(Symbols)
      /\ styled \in Seq(Symbols) /\ raw \in Seq(Symbols) /\ w \in Nat
  <2>1. /\ ra \in Seq(Symbols) /\ rb \in Seq(Symbols) /\ rn \in Seq(Symbols)
        /\ styled \in Seq(Symbols) /\ raw \in Seq(Symbols)
    BY InStyleType
  <2> QED BY <2>1
<1>5. raw = Join(ra, Join(styled, rb))
  <2>1. Join(o, b) \in Texts
    BY JoinTexts
  <2>2. raw = Join(ra, InStyle(Join(o, b), like))
    BY <1>2, <2>1, InStyleJoin
  <2>3. InStyle(Join(o, b), like) = Join(styled, rb)
    BY <1>3, InStyleJoin
  <2> QED BY <2>2, <2>3
<1>6. /\ Replaced(s, i, h) \in Texts
      /\ InStyle(Replaced(s, i, h), like) = Join(Join(ra, rn), rb)
  <2>1. Replaced(s, i, h) = Join(Join(a, h.new), b)
    BY <1>2 DEF Replaced, Part, Join
  <2>2. Join(a, h.new) \in Texts
    BY JoinTexts
  <2>3. Join(Join(a, h.new), b) \in Texts
    BY <2>2, JoinTexts
  <2>4. InStyle(Join(Join(a, h.new), b), like) = Join(InStyle(Join(a, h.new), like), rb)
    BY <2>2, InStyleJoin
  <2>5. InStyle(Join(a, h.new), like) = Join(ra, rn)
    BY InStyleJoin
  <2> QED BY <2>1, <2>3, <2>4, <2>5
<1> HIDE DEF raw, styled, ra, rb, rn
<1> DEFINE k == Len(ra) + 1
           n == Len(raw)
           places == {j \in 1..(n - w + 1) : SubSeq(raw, j, j + w - 1) = styled}
<1>7. /\ n = Len(ra) + w + Len(rb) /\ Len(ra) \in Nat /\ Len(rb) \in Nat
      /\ Part(raw, 1, Len(ra)) = ra
      /\ Part(raw, Len(ra) + 1, Len(ra) + w) = styled
      /\ Part(raw, Len(ra) + w + 1, n) = rb
  <2> DEFINE x == Len(raw)
             v == Len(styled)
  <2>1. x = Len(ra) + v + Len(rb)
    BY <1>4, <1>5, Middle
  <2>2. Part(raw, 1, Len(ra)) = ra
    BY <1>4, <1>5, Middle
  <2>3. Part(raw, Len(ra) + 1, Len(ra) + v) = styled
    BY <1>4, <1>5, Middle
  <2>4. Part(raw, Len(ra) + v + 1, x) = rb
    BY <1>4, <1>5, Middle
  <2>5. x = n /\ v = w
    OBVIOUS
  <2>6. Len(ra) \in Nat /\ Len(rb) \in Nat
    BY <1>4
  <2> HIDE DEF x, v, n, w
  <2> QED BY <2>1, <2>2, <2>3, <2>4, <2>5, <2>6
<1> HIDE DEF w, n
<1>8. k \in places /\ Part(raw, 1, k - 1) = ra /\ Part(raw, k + w, n) = rb
  <2>1. /\ k - 1 = Len(ra) /\ k + w - 1 = Len(ra) + w /\ k + w = Len(ra) + w + 1
        /\ k \in 1..(n - w + 1)
    <3>1. PICK x \in Nat, v \in Nat, z \in Nat : x = Len(ra) /\ v = Len(rb) /\ z = w
      BY <1>4, <1>7
    <3>2. n = x + z + v /\ k = x + 1
      BY <1>7, <3>1
    <3>3. k - 1 = x /\ k + z - 1 = x + z /\ k + z = x + z + 1 /\ k \in 1..(n - z + 1)
      BY <3>2
    <3> QED BY <3>1, <3>3
  <2>2. Part(raw, k, k + w - 1) = styled
    BY <1>7, <2>1
  <2>3. SubSeq(raw, k, k + w - 1) = styled
    BY <2>2 DEF Part
  <2> QED BY <1>7, <2>1, <2>3
<1>9. ~ \E j, l \in places : j + w <= l
  <2> SUFFICES ASSUME NEW j \in places, NEW l \in places, j + w <= l PROVE FALSE
    OBVIOUS
  <2>1. /\ j \in Nat \ {0} /\ l \in Nat /\ l + w <= n + 1
        /\ Part(raw, j, j + w - 1) = styled /\ Part(raw, l, l + w - 1) = styled
    <3>1. n \in Nat
      BY <1>4, <1>7
    <3> QED BY <1>4, <3>1 DEF Part
  <2>2. PICK p \in Occurrences(h.old, s), q \in Occurrences(h.old, s) : p + Len(h.old) <= q
    BY <2>1, PlacesApart DEF raw, styled, w, n
  <2>3. p \in Nat /\ q \in Nat /\ i <= p
    <3>1. Occurrences(h.old, s) \in SUBSET Nat
      BY OccurrencesCount
    <3> QED BY <1>1, <3>1
  <2>4. q \in Finds(h.old, s, i + Len(h.old))
    BY <1>1, <2>2, <2>3 DEF Finds
  <2> QED BY <1>1, <2>4
<1>10. Edits(raw, h, like)
         = {SubSeq(raw, 1, j - 1) \o rn \o SubSeq(raw, j + w, n) : j \in places}
  BY <1>9 DEF Edits, styled, rn, w, n
<1>11. SubSeq(raw, 1, k - 1) \o rn \o SubSeq(raw, k + w, n) = Join(Join(ra, rn), rb)
  BY <1>8 DEF Part, Join
<1>12. Join(Join(ra, rn), rb) \in Edits(raw, h, like)
  <2> HIDE DEF k, places
  <2> QED BY <1>8, <1>10, <1>11
<1> QED BY <1>6, <1>12 DEF raw

-----------------------------------------------------------------------------
\* The patch.

\* The results of the hunks so far, in the newlines of the file.
ResultsSoFar ==
  IF IsNew THEN EditsOfAll({hunks[1].new}, Tail(hunks), original)
  ELSE EditsOfAll({original}, hunks, original)

\* The text is what the hunks so far have made of the file, but for the newlines; it is
\* written when it differs, and in the newlines of the file.
PatchInv ==
  /\ original \in Disks /\ hunks \in Seq(Hunks)
  /\ step \in {"hunks", "rejected", "written"}
  /\ Straight => text \in Texts
  /\ Straight /\ Editable => InStyle(text, original) \in ResultsSoFar
  /\ step = "written" => ~NoChange /\ disk = InStyle(text, original)

LEMMA PatchStarts == PatchInit => PatchInv
<1> SUFFICES ASSUME PatchInit PROVE PatchInv
  OBVIOUS
<1>1. original \in Disks /\ hunks = <<>> /\ step = "hunks" /\ hunks \in Seq(Hunks)
  BY DEF PatchInit
<1>2. CASE IsNew
  <2>1. text \in Texts
    BY <1>2, EmptySeq DEF PatchInit, Texts
  <2> QED BY <1>1, <1>2, <2>1 DEF PatchInv, Editable
<1>3. CASE ~IsNew
  <2>1. original \in Seq(Symbols) /\ text = Unix(original)
    BY <1>1, <1>3, PatchAssumption DEF PatchInit, IsNew
  <2>2. text \in Texts
    BY <2>1, UnixType
  <2>3. Straight => InStyle(text, original) = original
    BY <1>3, <2>1, StyleOfUnix DEF Straight
  <2>4. ResultsSoFar = {original}
    BY <1>1, <1>3, EditsOfNone DEF ResultsSoFar
  <2> QED BY <1>1, <1>3, <2>2, <2>3, <2>4 DEF PatchInv
<1> QED BY <1>2, <1>3

\* The hunks were straight before the last one, and that one is.
LEMMA StraightBefore ==
  ASSUME hunks \in Seq(Hunks), NEW h \in Hunks, hunks' = Append(hunks, h),
         original' = original, Straight'
  PROVE  Straight /\ h.old \in Texts /\ h.new \in Texts
<1>1. /\ Len(hunks) \in Nat /\ Len(hunks') = Len(hunks) + 1 /\ hunks'[Len(hunks) + 1] = h
      /\ \A i \in 1..Len(hunks) : hunks'[i] = hunks[i]
  BY AppendProperties
<1>2. /\ IsNew \/ ~Mixed(original)
      /\ \A i \in 1..(Len(hunks) + 1) :
            ~Contains(hunks'[i].old, Cr) /\ ~Contains(hunks'[i].new, Cr)
  BY <1>1 DEF Straight, IsNew, Mixed, HasPair, PairAt
<1>3. Straight
  <2>1. \A i \in 1..Len(hunks) : i \in 1..(Len(hunks) + 1)
    BY <1>1
  <2> QED BY <1>1, <1>2, <2>1 DEF Straight
<1>4. ~Contains(h.old, Cr) /\ ~Contains(h.new, Cr)
  BY <1>1, <1>2
<1>5. ASSUME NEW s \in Seq(Symbols), ~Contains(s, Cr) PROVE s \in Texts
  <2>1. \A i \in 1..Len(s) : s[i] \in Symbols \ {Cr}
    BY <1>5, ElementOfSeq DEF Contains
  <2> QED BY <2>1, IsText
<1> QED BY <1>3, <1>4, <1>5, PatchAssumption

LEMMA CreateKeeps == ASSUME PatchInv, NEW h \in Hunks, CreateFile(h) PROVE PatchInv'
<1>1. /\ IsNew /\ step = "hunks" /\ text' = h.new /\ hunks' = <<h>> /\ hunks = <<>>
      /\ original' = original /\ step' = step
  BY DEF CreateFile
<1>2. original' = NoFile /\ IsNew'
  BY <1>1 DEF IsNew
<1>3. hunks' \in Seq(Hunks) /\ hunks' = Append(hunks, h) /\ hunks \in Seq(Hunks)
  BY <1>1
<1>4. hunks'[1] = h /\ Tail(hunks') = <<>>
  BY <1>1
<1>5. ResultsSoFar' = {h.new}
  BY <1>2, <1>4, EditsOfNone DEF ResultsSoFar
<1>6. ASSUME Straight' PROVE text' \in Texts /\ InStyle(text', original') = h.new
  <2>1. h.new \in Texts
    BY <1>1, <1>3, <1>6, StraightBefore
  <2> QED BY <1>1, <1>2, <2>1, InStyleOfText DEF InWindows
<1>7. InStyle(text, original)' = InStyle(text', original')
  BY DEF InStyle, HasPair, PairAt, Windows, WindowsAt, Fold, FoldAt
<1>8. original' \in Disks /\ step' = "hunks"
  BY <1>1 DEF PatchInv
<1> QED BY <1>3, <1>5, <1>6, <1>7, <1>8 DEF PatchInv

LEMMA ApplyKeeps == ASSUME PatchInv, NEW h \in Hunks, ApplyHunk(h) PROVE PatchInv'
<1>1. /\ step = "hunks" /\ Editable /\ hunks' = Append(hunks, h) /\ h.old # <<>>
      /\ original' = original /\ step' = step /\ IsNew' = IsNew
  BY DEF ApplyHunk, IsNew
<1>2. PICK i \in LocateUnique(h.old, text) : text' = Replaced(text, i, h)
  BY DEF ApplyHunk
<1>3. ASSUME Straight'
      PROVE  /\ Straight /\ text' \in Texts
             /\ InStyle(text', original) \in Edits(InStyle(text, original), h, original)
  <2>1. Straight /\ h.old \in Texts /\ h.new \in Texts
    BY <1>1, <1>3, StraightBefore DEF PatchInv
  <2>2. text \in Texts
    BY <2>1 DEF PatchInv
  <2> QED BY <1>1, <1>2, <2>1, <2>2, HunkEdits
<1>4. /\ hunks \in Seq(Hunks) /\ hunks' \in Seq(Hunks) /\ hunks' # <<>>
      /\ hunks # <<>> => hunks'[1] = hunks[1] /\ Tail(hunks') = Append(Tail(hunks), h)
      /\ hunks # <<>> => Tail(hunks) \in Seq(Hunks)
  BY <1>1 DEF PatchInv
<1>5. ResultsSoFar' = EditAll(ResultsSoFar, h, original)
  <2>1. CASE IsNew
    <3>1. hunks # <<>>
      BY <1>1, <2>1 DEF Editable
    <3>2. ResultsSoFar' = EditsOfAll({hunks[1].new}, Append(Tail(hunks), h), original)
      BY <1>1, <1>4, <2>1, <3>1 DEF ResultsSoFar
    <3> DEFINE rest == Tail(hunks)
               first == {hunks[1].new}
    <3>3. rest \in Seq(Hunks)
      BY <1>4, <3>1
    <3> HIDE DEF rest, first
    <3>4. EditsOfAll(first, Append(rest, h), original)
            = EditAll(EditsOfAll(first, rest, original), h, original)
      BY <3>3, EditsOfOneMore
    <3> QED BY <2>1, <3>2, <3>4 DEF ResultsSoFar, rest, first
  <2>2. CASE ~IsNew
    <3>1. ResultsSoFar' = EditsOfAll({original}, Append(hunks, h), original)
      BY <1>1, <2>2 DEF ResultsSoFar
    <3> QED BY <1>4, <2>2, <3>1, EditsOfOneMore DEF ResultsSoFar
  <2> QED BY <2>1, <2>2
<1>6. Straight' => InStyle(text', original) \in ResultsSoFar'
  BY <1>1, <1>3, <1>5 DEF PatchInv, EditAll
<1>7. InStyle(text, original)' = InStyle(text', original)
  BY <1>1 DEF InStyle, HasPair, PairAt, Windows, WindowsAt, Fold, FoldAt
<1> QED BY <1>1, <1>3, <1>4, <1>6, <1>7 DEF PatchInv

LEMMA PatchKept == PatchInv /\ [PatchNext]_peVars => PatchInv'
<1> SUFFICES ASSUME PatchInv, [PatchNext]_peVars PROVE PatchInv'
  OBVIOUS
<1>1. ASSUME NEW h \in Hunks, CreateFile(h) PROVE PatchInv'
  BY <1>1, CreateKeeps
<1>2. ASSUME NEW h \in Hunks, ApplyHunk(h) PROVE PatchInv'
  BY <1>2, ApplyKeeps
<1>3. ASSUME step' \in {"rejected", "written", step}, UNCHANGED <<original, text, hunks>>,
             step' = "written" => ~NoChange /\ disk' = InStyle(text, original)
      PROVE  PatchInv'
  <2>1. IsNew' = IsNew /\ Editable' = Editable /\ ResultsSoFar' = ResultsSoFar
    BY <1>3 DEF IsNew, Editable, ResultsSoFar
  <2>2. NoChange' = NoChange
    BY <1>3, <2>1 DEF NoChange, Unix, UnixAt, PairAt
  <2>3. InStyle(text, original)' = InStyle(text, original)
    BY <1>3 DEF InStyle, HasPair, PairAt, Windows, WindowsAt, Fold, FoldAt
  <2>4. Straight' = Straight
    BY <1>3, <2>1 DEF Straight, Mixed, HasPair, PairAt
  <2>5. /\ original' \in Disks /\ hunks' \in Seq(Hunks)
        /\ step' \in {"hunks", "rejected", "written"}
        /\ Straight' => text' \in Texts
        /\ Straight' /\ Editable' => InStyle(text, original)' \in ResultsSoFar'
    BY <1>3, <2>1, <2>3, <2>4 DEF PatchInv
  <2>6. step' = "written" => ~NoChange' /\ disk' = InStyle(text, original)'
    BY <1>3, <2>2, <2>3
  <2> QED BY <2>5, <2>6 DEF PatchInv
<1>4. ASSUME NEW h \in Hunks, RejectHunk(h) PROVE PatchInv'
  BY <1>3, <1>4 DEF RejectHunk
<1>5. CASE RejectPatch
  BY <1>3, <1>5 DEF RejectPatch
<1>6. CASE WriteFile
  BY <1>3, <1>6 DEF WriteFile
<1>7. CASE UNCHANGED peVars
  BY <1>3, <1>7 DEF peVars, PatchInv
<1> QED BY <1>1, <1>2, <1>4, <1>5, <1>6, <1>7 DEF PatchNext

\* What is written differs from the file.
LEMMA WrittenDiffers ==
  ASSUME PatchInv, step = "written", Straight PROVE disk # original
<1>1. disk = InStyle(text, original) /\ ~NoChange /\ text \in Texts
  BY DEF PatchInv
<1>2. CASE IsNew
  <2>1. disk \in Seq(Symbols)
    BY <1>1, InStyleType
  <2> QED BY <1>2, <2>1, PatchAssumption DEF IsNew
<1>3. CASE ~IsNew
  <2>1. Unix(disk) = text
    BY <1>1, InStyleType
  <2> QED BY <1>1, <1>3, <2>1 DEF NoChange
<1> QED BY <1>2, <1>3

\* A written patch has changed the file exactly where its hunks say (EditedInPlace), for
\* any alphabet, any file of one kind of newlines and any hunks without carriage returns,
\* however many.
THEOREM PatchIsInPlace == PatchSpec => []EditedInPlace
<1>1. PatchInv => EditedInPlace
  <2> SUFFICES ASSUME PatchInv, step = "written", Straight
               PROVE  disk # original /\ disk \in ResultsSoFar
    BY DEF EditedInPlace, ResultsSoFar
  <2>1. Editable
    BY DEF PatchInv, NoChange, Editable
  <2> QED BY <2>1, WrittenDiffers DEF PatchInv
<1> QED BY <1>1, PatchStarts, PatchKept, PTL DEF PatchSpec
=============================================================================

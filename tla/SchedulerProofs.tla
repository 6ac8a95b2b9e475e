-------------------------- MODULE SchedulerProofs --------------------------
(* Proofs about the DAG scheduler, for any graph, files, workers and earlier *)
(* locks, in both scheduling modes.                                          *)
EXTENDS Scheduler, FiniteSetTheorems, TLAPS

-----------------------------------------------------------------------------
\* The inductive invariant.

\* The lists of the summary are disjoint, a task in hand is in none of them, and
\* a task has one entry once it is in one of them.
ListsKept ==
  /\ completed \cap failed = {} /\ completed \cap aborted = {} /\ failed \cap aborted = {}
  /\ active \cap Accounted = {}
  /\ \A t \in Tasks : entries[t] = IF t \in Accounted THEN 1 ELSE 0

\* What the scheduling thread believes of the workers is true.
WorkersKept ==
  /\ \A t \in Tasks : InHand(t) => t \in active
  /\ \A t \in active : worker[t] # "none"
  /\ \A t \in Tasks : worker[t] = "finished" => t \in active \cup completed \cup failed
  /\ \A t \in completed : worker[t] = "finished"
  /\ batch \subseteq Done /\ (phase # "collecting" => batch = {})

\* A task in hand has all its files, and nobody else but stale owners has any.
LocksKept ==
  /\ \A t \in Tasks : InHand(t) => \A f \in FilesOf[t] : fileLocks[f] = t
  /\ (given.parallel \/ phase # "raised") =>
        \A f \in Files, t \in Tasks \ {given.leftBy} :
           fileLocks[f] = t => f \in FilesOf[t] /\ InHand(t)

\* Tasks run after their dependencies, and exactly what is downstream of a failed
\* one is blocked.
FailuresKept ==
  /\ \A t \in completed \cup failed \cup active : Deps[t] \subseteq completed
  /\ \A u \in failed : Descendants(u) \subseteq blocked
  /\ \A t \in blocked : \E u \in failed : t \in Descendants(u)
  /\ given.parallel => blocked \subseteq Accounted
  /\ AbortedDownstream
  /\ given.leftBy = Free =>
        \A t \in failed : worker[t] = "finished" \/ t \notin given.proposed

\* run_sequential has one task in hand, and has scanned the ones that are over.
SequentialKept ==
  /\ phase \notin {"checking", "waiting", "collecting", "raising"}
  /\ phase = "scanning" => active = {}
  /\ phase = "executing" => \E t \in Tasks : active = {t}
  /\ \A t \in scan : t \notin completed \cup failed \cup active
                     /\ (t \in aborted => t \in blocked)
  /\ phase \in {"scanning", "executing"} => Tasks \subseteq scan \cup Accounted \cup active

\* run_parallel scans tasks that may run; with nothing in hand and no stale locks
\* whoever it has passed over waits for another task.
ParallelKept ==
  /\ phase # "executing"
  /\ phase = "scanning" => \A t \in scan : t \notin completed /\ Deps[t] \subseteq completed
  /\ (phase = "scanning" /\ given.leftBy = Free /\ active = {}) =>
        \A t \in Tasks \ (Accounted \cup scan) : ~(Deps[t] \subseteq completed)

PhaseKept ==
  /\ IF given.parallel THEN ParallelKept ELSE SequentialKept
  /\ phase \in {"closing", "over"} => Accounted = Tasks
  /\ phase = "waiting" => active # {}
  /\ phase = "collecting" => batch # {}

SchedulerInv ==
  SchedulerTypeOK /\ ListsKept /\ WorkersKept /\ LocksKept /\ FailuresKept /\ PhaseKept

-----------------------------------------------------------------------------
\* The graph.

\* The dependents are the first of the descendants, which are tasks.
LEMMA DescendantsAreTasks ==
  \A t \in Tasks : Descendants(t) \subseteq Tasks /\ Dependents(t) \subseteq Descendants(t)
BY DEF Descendants, Downstream, Dependents

\* What depends on a descendant is a descendant.
LEMMA DescendantsClosed ==
  ASSUME NEW t \in Tasks, NEW u \in Descendants(t)
  PROVE  Dependents(u) \subseteq Descendants(t)
<1> SUFFICES ASSUME NEW v \in Dependents(u), NEW S \in SUBSET Tasks, Closed(S),
                    Dependents(t) \subseteq S
             PROVE  v \in S
  BY DEF Descendants, Downstream, Dependents
<1>1. u \in S
  BY DEF Descendants, Downstream
<1> QED BY <1>1 DEF Closed

\* They are the least set of the kind.
LEMMA DescendantsWithin ==
  ASSUME NEW t \in Tasks, NEW S \in SUBSET Tasks, Closed(S), Dependents(t) \subseteq S
  PROVE  Descendants(t) \subseteq S
BY DEF Descendants, Downstream

\* The descendants of a descendant are descendants.
LEMMA DescendantsTransitive ==
  ASSUME NEW t \in Tasks, NEW u \in Descendants(t)
  PROVE  Descendants(u) \subseteq Descendants(t)
<1>1. Closed(Descendants(t)) /\ Descendants(t) \in SUBSET Tasks
  BY DescendantsClosed, DescendantsAreTasks DEF Closed
<1> QED BY <1>1, DescendantsClosed, DescendantsWithin

\* A task downstream of t depends on t, or on another task downstream of t.
LEMMA DescendantsReached ==
  ASSUME NEW t \in Tasks, NEW u \in Descendants(t)
  PROVE  t \in Deps[u] \/ \E v \in Descendants(t) : v \in Deps[u]
<1> DEFINE S == Dependents(t) \cup UNION {Dependents(v) : v \in Descendants(t)}
<1>1. S \in SUBSET Tasks /\ S \subseteq Descendants(t)
  BY DescendantsAreTasks, DescendantsClosed DEF Dependents
<1>2. Closed(S) /\ Dependents(t) \subseteq S
  BY <1>1 DEF Closed
<1>3. u \in S
  <2> HIDE DEF S
  <2> QED BY <1>1, <1>2, DescendantsWithin
<1> QED BY <1>3 DEF Dependents

\* In a graph without cycles no task is downstream of itself.
LEMMA NotBelowItself ==
  ASSUME NEW t \in Tasks
  PROVE  t \notin Descendants(t)
<1> SUFFICES ASSUME t \in Descendants(t) PROVE FALSE
  OBVIOUS
<1> DEFINE S == {u \in Descendants(t) : t \in Descendants(u)}
<1>1. t \in S /\ S \in SUBSET Tasks
  BY DescendantsAreTasks
<1>2. PICK u \in S : Deps[u] \cap S = {}
  BY <1>1, AcyclicAssumption
<1>3. PICK v \in Descendants(t) : v \in Deps[u]
  BY <1>2, DescendantsReached
<1>4. v \in Tasks /\ u \in Tasks /\ u \in Descendants(v)
  BY <1>1, <1>3, DescendantsAreTasks DEF Dependents
<1>5. t \in Descendants(v)
  BY <1>2, <1>4, DescendantsTransitive
<1> QED BY <1>2, <1>3, <1>5

\* Nothing downstream of a task that has not completed has started.
LEMMA NoneStartedBelow ==
  ASSUME SchedulerTypeOK, FailuresKept, NEW t \in Tasks \ completed
  PROVE  Descendants(t) \cap (completed \cup failed \cup active) = {}
<1> DEFINE S == Tasks \ (completed \cup failed \cup active)
<1>1. Dependents(t) \subseteq S /\ Closed(S)
  BY DEF Dependents, Closed, FailuresKept
<1> QED BY <1>1, DescendantsWithin

-----------------------------------------------------------------------------
\* What a step does to the lists of the summary.

Quiet == UNCHANGED <<completed, failed, aborted, blocked, active, entries>>

Starts(t) ==
  /\ t \notin Accounted \cup active /\ worker[t] = "none" /\ Deps[t] \subseteq completed
  /\ active' = active \cup {t}
  /\ UNCHANGED <<completed, failed, aborted, blocked, entries>>

Succeeds(t) ==
  /\ t \in Done
  /\ active' = active \ {t} /\ completed' = completed \cup {t} /\ Enter({t})
  /\ UNCHANGED <<failed, aborted, blocked>>

Fails(t, lost) ==
  /\ t \notin Accounted /\ Deps[t] \subseteq completed
  /\ \/ t \in Done
     \/ /\ t \notin active /\ worker[t] = "none"
        /\ given.leftBy = Free => t \notin given.proposed
  /\ lost \subseteq Descendants(t) \ Accounted
  /\ given.parallel => Descendants(t) \subseteq Accounted \cup lost
  /\ active' = active \ {t} /\ failed' = failed \cup {t} /\ aborted' = aborted \cup lost
  /\ blocked' = blocked \cup Descendants(t) /\ Enter({t} \cup lost)
  /\ UNCHANGED completed

Below(t) == \E u \in failed : t \in Descendants(u)

Aborts(lost) ==
  /\ lost \cap (Accounted \cup active) = {} /\ \A t \in lost : worker[t] = "none"
  /\ (given.parallel /\ given.leftBy # Free) \/ \A t \in lost : Below(t)
  /\ aborted' = aborted \cup lost /\ Enter(lost)
  /\ blocked \subseteq blocked' /\ \A t \in blocked' \ blocked : Below(t)
  /\ given.parallel => blocked' = blocked
  /\ UNCHANGED <<completed, failed, active>>

ListStep ==
  \/ Quiet
  \/ \E t \in Tasks : Starts(t) \/ Succeeds(t) \/ \E lost \in SUBSET Tasks : Fails(t, lost)
  \/ \E lost \in SUBSET Tasks : Aborts(lost)

\* Whoever is not accounted for and not in hand has not been dispatched.
LEMMA Untouched ==
  ASSUME SchedulerTypeOK, WorkersKept, NEW t \in Tasks \ (Accounted \cup active)
  PROVE  worker[t] = "none"
BY DEF SchedulerTypeOK, WorkersKept, Accounted, WorkerStates, InHand

\* With nothing in hand and no stale locks every file is free.
LEMMA NothingLocked ==
  ASSUME SchedulerTypeOK, WorkersKept, LocksKept, given.leftBy = Free, active = {},
         phase # "raised", NEW t \in Tasks
  PROVE  CanAcquire(t)
BY FilesAssumption DEF SchedulerTypeOK, WorkersKept, LocksKept, CanAcquire, LocksTypeOK

\* The loop has come to a task that it can start.
LEMMA Considered ==
  ASSUME SchedulerInv, NEW t \in Tasks, Consider(t)
  PROVE  /\ t \notin Accounted \cup active /\ worker[t] = "none"
         /\ Deps[t] \subseteq completed /\ phase = "scanning" /\ t \in scan
<1>1. t \notin Accounted \cup active /\ Deps[t] \subseteq completed
  BY DEF SchedulerInv, SchedulerTypeOK, PhaseKept, ParallelKept, SequentialKept, Consider,
         Examine, Settled, Blocked, Accounted
<1> QED BY <1>1, Untouched DEF SchedulerInv, Consider, Examine

\* The failure of a task that has not started.
LEMMA FailUnstartedFails ==
  ASSUME SchedulerInv, NEW t \in Tasks, Consider(t), FailUnstarted(t), active' = active,
         given.leftBy = Free => t \notin given.proposed
  PROVE  \E lost \in SUBSET Tasks : Fails(t, lost)
<1> USE Considered, DescendantsAreTasks
<1>1. CASE given.parallel /\ FailTask(t)
  <2> WITNESS Descendants(t) \ Accounted \in SUBSET Tasks
  <2> QED BY <1>1 DEF FailTask, Fails
<1>2. CASE ~given.parallel /\ ~FailTask(t)
  <2> WITNESS {} \in SUBSET Tasks
  <2> QED BY <1>2 DEF FailUnstarted, Fails
<1>3. CASE ~given.parallel /\ FailTask(t)
  <2> WITNESS Descendants(t) \ Accounted \in SUBSET Tasks
  <2> QED BY <1>3 DEF FailTask, Fails
<1> QED BY <1>1, <1>2, <1>3 DEF FailUnstarted

\* Whatever a task in hand returned, its result is a success or a failure.
LEMMA TallyCounts ==
  ASSUME SchedulerInv, NEW t \in Tasks, t \in Done, Tally(t)
  PROVE  Succeeds(t) \/ \E lost \in SUBSET Tasks : Fails(t, lost)
<1>1. t \notin Accounted /\ Deps[t] \subseteq completed
  BY DEF SchedulerInv, ListsKept, FailuresKept, Done
<1>2. CASE outcome[t] = "success"
  BY <1>2 DEF Tally, Succeeds
<1>3. CASE outcome[t] # "success"
  <2> SUFFICES \E lost \in SUBSET Tasks : Fails(t, lost)
    OBVIOUS
  <2> USE DescendantsAreTasks
  <2> WITNESS Descendants(t) \ Accounted \in SUBSET Tasks
  <2> QED BY <1>1, <1>3 DEF Tally, FailTask, Fails
<1> QED BY <1>2, <1>3

\* A task that run_sequential skips is downstream of a failed one.
LEMMA SkippedBelow ==
  ASSUME SchedulerInv, NEW t \in Tasks, Skip(t)
  PROVE  Below(t) /\ t \notin completed \cup failed \cup active /\ ~given.parallel
<1>1. /\ ~given.parallel /\ phase = "scanning" /\ t \in scan /\ Deps[t] \cap scan = {}
      /\ t \in blocked \/ ~(Deps[t] \subseteq completed)
  BY DEF Skip, Examine, Blocked
<1>2. SequentialKept /\ active = {} /\ t \notin completed \cup failed
  BY <1>1 DEF SchedulerInv, PhaseKept, SequentialKept
<1>3. ASSUME t \in blocked PROVE Below(t)
  BY <1>3 DEF SchedulerInv, FailuresKept, Below
<1>4. ASSUME NEW d \in Deps[t], d \notin completed PROVE Below(t)
  <2>1. d \in Tasks /\ t \in Dependents(d) /\ d \in failed \cup aborted
    BY <1>1, <1>2, <1>4, DepsAssumption DEF SequentialKept, Accounted, Dependents
  <2>2. CASE d \in failed
    BY <2>1, <2>2, DescendantsAreTasks DEF Below
  <2>3. CASE d \in aborted
    <3>1. PICK u \in failed : d \in Descendants(u)
      BY <1>1, <2>3 DEF SchedulerInv, FailuresKept, AbortedDownstream
    <3>2. u \in Tasks
      BY DEF SchedulerInv, SchedulerTypeOK
    <3> QED BY <2>1, <3>1, <3>2, DescendantsClosed DEF Below
  <2> QED BY <2>1, <2>2, <2>3
<1> QED BY <1>1, <1>2, <1>3, <1>4

\* Only stale locks leave tasks that the last pass has to give up.
LEMMA NoneToGiveUp ==
  ASSUME SchedulerInv, phase = "scanning", scan = {}, active = {},
         given.parallel => given.leftBy = Free
  PROVE  Accounted = Tasks
<1>0. Accounted \subseteq Tasks
  BY DEF SchedulerInv, SchedulerTypeOK, Accounted
<1>1. CASE ~given.parallel
  BY <1>0, <1>1 DEF SchedulerInv, PhaseKept, SequentialKept
<1>2. CASE given.parallel
  <2> SUFFICES ASSUME Tasks \ Accounted # {} PROVE FALSE
    BY <1>0
  <2>1. PICK t \in Tasks \ Accounted : Deps[t] \cap (Tasks \ Accounted) = {}
    BY AcyclicAssumption
  <2>2. PICK d \in Deps[t] : d \notin completed
    BY <1>2 DEF SchedulerInv, PhaseKept, ParallelKept
  <2>3. d \in Tasks /\ t \in Dependents(d) /\ d \in failed \cup aborted
    BY <2>1, <2>2, DepsAssumption DEF Accounted, Dependents
  <2>4. PICK u \in failed : t \in Descendants(u)
    <3>1. CASE d \in failed
      BY <2>3, <3>1, DescendantsAreTasks
    <3>2. CASE d \in aborted
      <4>1. PICK u \in failed : d \in Descendants(u)
        BY <1>2, <3>2 DEF SchedulerInv, FailuresKept, AbortedDownstream
      <4>2. u \in Tasks
        BY DEF SchedulerInv, SchedulerTypeOK
      <4> QED BY <2>3, <4>1, <4>2, DescendantsClosed
    <3> QED BY <2>3, <3>1, <3>2
  <2> QED BY <1>2, <2>4 DEF SchedulerInv, FailuresKept
<1> QED BY <1>1, <1>2

\* Every step does one of five things to the lists.
LEMMA NextListStep ==
  ASSUME SchedulerInv, [Next]_vars
  PROVE  ListStep
<1> USE DEF sets, vars
<1>1. CASE \/ CheckDone \/ WaitReturns \/ Shutdown \/ Ended \/ UNCHANGED vars
           \/ \E t \in Tasks : PassOver(t) \/ AcquireRaises(t) \/ Work(t)
  BY <1>1 DEF CheckDone, WaitReturns, Shutdown, Ended, PassOver, AcquireRaises, Work,
              TakeUp, Return, Escape, ReleaseLocks, ListStep, Quiet
<1>2. ASSUME NEW t \in Tasks, Dispatch(t) PROVE ListStep
  <2>1. Starts(t)
    BY <1>2, Considered DEF Dispatch, Starts
  <2> QED BY <2>1 DEF ListStep
<1>3. ASSUME NEW t \in Tasks, LockBusy(t) PROVE ListStep
  <2>1. CASE given.parallel
    BY <1>3, <2>1 DEF LockBusy, ListStep, Quiet
  <2>2. CASE ~given.parallel
    <3>1. given.leftBy # Free
      BY <1>3, <2>2, Considered, NothingLocked
         DEF LockBusy, SchedulerInv, PhaseKept, SequentialKept
    <3>2. \E lost \in SUBSET Tasks : Fails(t, lost)
      BY <1>3, <2>2, <3>1, FailUnstartedFails DEF LockBusy
    <3> QED BY <3>2 DEF ListStep
  <2> QED BY <2>1, <2>2
<1>4. ASSUME NEW t \in Tasks, MissingProposal(t) PROVE ListStep
  <2>1. \E lost \in SUBSET Tasks : Fails(t, lost)
    BY <1>4, FailUnstartedFails DEF MissingProposal
  <2> QED BY <2>1 DEF ListStep
<1>5. ASSUME NEW t \in Tasks, Collect(t) \/ CollectSequential(t) PROVE ListStep
  <2>1. t \in Done /\ Tally(t)
    BY <1>5 DEF Collect, CollectSequential, SchedulerInv, WorkersKept
  <2> QED BY <2>1, TallyCounts DEF ListStep
<1>6. ASSUME NEW t \in Tasks, Skip(t) PROVE ListStep
  <2>1. /\ Below(t) /\ t \notin completed \cup failed \cup active
        /\ ~given.parallel
    BY <1>6, SkippedBelow
  <2>2. t \notin aborted => worker[t] = "none"
    BY <2>1, Untouched DEF SchedulerInv, Accounted
  <2>3. \A u \in Descendants(t) : Below(u)
    BY <2>1, DescendantsTransitive DEF Below, SchedulerInv, SchedulerTypeOK
  <2>4. Aborts({t} \ aborted)
    BY <1>6, <2>1, <2>2, <2>3 DEF Skip, Aborts, Accounted
  <2> QED BY <2>4 DEF ListStep
<1>7. CASE EndScan
  <2>1. CASE active # {}
    BY <1>7, <2>1 DEF EndScan, ListStep, Quiet
  <2>2. CASE active = {}
    <3>1. given.parallel => given.leftBy # Free \/ Accounted = Tasks
      BY <1>7, <2>2, NoneToGiveUp DEF EndScan
    <3>2. ~given.parallel => Accounted = Tasks
      BY <1>7, <2>2, NoneToGiveUp DEF EndScan
    <3>3. \A t \in Tasks \ Accounted : worker[t] = "none"
      BY <2>2, Untouched DEF SchedulerInv
    <3>4. Aborts(Tasks \ Accounted)
      BY <1>7, <2>2, <3>1, <3>2, <3>3 DEF EndScan, GiveUpRest, Aborts
    <3> QED BY <3>4 DEF ListStep
  <2> QED BY <2>1, <2>2
<1> QED BY <1>1, <1>2, <1>3, <1>4, <1>5, <1>6, <1>7 DEF Next, Coordinate

\* A finished worker stays finished, and what was given stays.
LEMMA FinishedStays ==
  ASSUME SchedulerInv, [Next]_vars
  PROVE  /\ given' = given
         /\ \A t \in Tasks : worker[t] = "finished" => worker'[t] = "finished"
<1> DEFINE Stays == /\ given' = given
                    /\ \A t \in Tasks : worker[t] = "finished" => worker'[t] = "finished"
<1> USE DEF SchedulerInv, SchedulerTypeOK
<1>1. CASE UNCHANGED vars \/ Ended
  BY <1>1 DEF vars, Ended
<1>2. ASSUME NEW t \in Tasks, Dispatch(t) PROVE Stays
  BY <1>2, Considered DEF Dispatch
<1>3. CASE \/ CheckDone \/ EndScan \/ WaitReturns \/ Shutdown
           \/ \E t \in Tasks : \/ PassOver(t) \/ Skip(t) \/ LockBusy(t) \/ AcquireRaises(t)
                               \/ MissingProposal(t) \/ Collect(t) \/ CollectSequential(t)
  BY <1>3 DEF CheckDone, EndScan, WaitReturns, Shutdown, PassOver, Skip, LockBusy,
     AcquireRaises, MissingProposal, Collect, CollectSequential, Tally
<1>4. ASSUME NEW t \in Tasks, Work(t) PROVE Stays
  BY <1>4 DEF Work, TakeUp, Return, Escape, ReleaseLocks
<1> QED BY <1>1, <1>2, <1>3, <1>4 DEF Next, Coordinate

-----------------------------------------------------------------------------
\* The lists and the failures are kept.

\* A task enters one list, once.
LEMMA ListStepKeepsLists ==
  ASSUME SchedulerTypeOK, ListsKept, FailuresKept, ListStep
  PROVE  ListsKept'
<1> USE DEF ListsKept, Accounted, SchedulerTypeOK
<1>1. CASE Quiet
  BY <1>1 DEF Quiet
<1>2. ASSUME NEW t \in Tasks, Starts(t) PROVE ListsKept'
  BY <1>2 DEF Starts
<1>3. ASSUME NEW t \in Tasks, Succeeds(t) PROVE ListsKept'
  BY <1>3 DEF Succeeds, Enter, Done
<1>4. ASSUME NEW t \in Tasks, NEW lost \in SUBSET Tasks, Fails(t, lost) PROVE ListsKept'
  <2>1. lost \cap (completed \cup active) = {}
    BY <1>4, NoneStartedBelow DEF Fails
  <2>2. t \notin lost
    BY <1>4, NotBelowItself DEF Fails
  <2> QED BY <1>4, <2>1, <2>2 DEF Fails, Enter
<1>5. ASSUME NEW lost \in SUBSET Tasks, Aborts(lost) PROVE ListsKept'
  BY <1>5 DEF Aborts, Enter
<1> QED BY <1>1, <1>2, <1>3, <1>4, <1>5 DEF ListStep

\* What is blocked, aborted and run stays in order with what has failed.
LEMMA ListStepKeepsFailures ==
  ASSUME SchedulerTypeOK, ListsKept, WorkersKept, FailuresKept, ListStep, given' = given,
         \A t \in Tasks : worker[t] = "finished" => worker'[t] = "finished"
  PROVE  FailuresKept'
<1> USE DEF FailuresKept, AbortedDownstream, Accounted, SchedulerTypeOK
<1>1. CASE Quiet
  BY <1>1 DEF Quiet
<1>2. ASSUME NEW t \in Tasks, Starts(t) PROVE FailuresKept'
  BY <1>2 DEF Starts
<1>3. ASSUME NEW t \in Tasks, Succeeds(t) PROVE FailuresKept'
  BY <1>3 DEF Succeeds, Done
<1>4. ASSUME NEW t \in Tasks, NEW lost \in SUBSET Tasks, Fails(t, lost) PROVE FailuresKept'
  BY <1>4 DEF Fails, Done
<1>5. ASSUME NEW lost \in SUBSET Tasks, Aborts(lost) PROVE FailuresKept'
  BY <1>5 DEF Aborts, Below
<1> QED BY <1>1, <1>2, <1>3, <1>4, <1>5 DEF ListStep

-----------------------------------------------------------------------------
\* The scheduling thread and its workers.

\* Every step keeps the types,
LEMMA NextSchedulerType == SchedulerInv /\ [Next]_vars => SchedulerTypeOK'
<1> SUFFICES ASSUME SchedulerInv, [Next]_vars PROVE SchedulerTypeOK'
  OBVIOUS
<1> SchedulerTypeOK
  BY DEF SchedulerInv
<1> USE DescendantsAreTasks, FilesAssumption
    DEF SchedulerTypeOK, LocksTypeOK, Phases, WorkerStates, WorkerOutcomes, sets, Enter
<1>1. CASE CheckDone
  BY <1>1 DEF CheckDone, Ready
<1>2. CASE EndScan
  BY <1>2 DEF EndScan, GiveUpRest, Accounted
<1>3. CASE WaitReturns
  BY <1>3 DEF WaitReturns, Done
<1>4. CASE Shutdown
  BY <1>4 DEF Shutdown
<1>5. ASSUME NEW t \in Tasks, PassOver(t) PROVE SchedulerTypeOK'
  BY <1>5 DEF PassOver, Examine
<1>6. ASSUME NEW t \in Tasks, Skip(t) PROVE SchedulerTypeOK'
  BY <1>6 DEF Skip, Examine
<1>7. ASSUME NEW t \in Tasks, LockBusy(t) PROVE SchedulerTypeOK'
  BY <1>7 DEF LockBusy, FailUnstarted, FailTask, Consider, Examine
<1>8. ASSUME NEW t \in Tasks, AcquireRaises(t) PROVE SchedulerTypeOK'
  BY <1>8 DEF AcquireRaises, Consider, Examine
<1>9. ASSUME NEW t \in Tasks, MissingProposal(t) PROVE SchedulerTypeOK'
  BY <1>9 DEF MissingProposal, FailUnstarted, FailTask, Freed, Consider, Examine
<1>10. ASSUME NEW t \in Tasks, Dispatch(t) PROVE SchedulerTypeOK'
  BY <1>10 DEF Dispatch, Acquire, Consider, Examine
<1>11. ASSUME NEW t \in Tasks, Collect(t) PROVE SchedulerTypeOK'
  BY <1>11 DEF Collect, Tally, FailTask
<1>12. ASSUME NEW t \in Tasks, CollectSequential(t) PROVE SchedulerTypeOK'
  BY <1>12 DEF CollectSequential, Tally, FailTask
<1>13. ASSUME NEW t \in Tasks, TakeUp(t) PROVE SchedulerTypeOK'
  BY <1>13 DEF TakeUp
<1>14. ASSUME NEW t \in Tasks, Return(t) PROVE SchedulerTypeOK'
  BY <1>14 DEF Return
<1>15. ASSUME NEW t \in Tasks, Escape(t) PROVE SchedulerTypeOK'
  BY <1>15 DEF Escape
<1>16. ASSUME NEW t \in Tasks, ReleaseLocks(t) PROVE SchedulerTypeOK'
  BY <1>16 DEF ReleaseLocks, Release, Freed
<1>17. CASE UNCHANGED vars \/ Ended
  BY <1>17 DEF vars, Ended
<1> QED BY <1>1, <1>2, <1>3, <1>4, <1>5, <1>6, <1>7, <1>8, <1>9, <1>10, <1>11,
    <1>12, <1>13, <1>14, <1>15, <1>16, <1>17 DEF Next, Coordinate, Work

\* what the scheduling thread believes of the workers,
LEMMA NextWorkersKept == SchedulerInv /\ [Next]_vars => WorkersKept'
<1> SUFFICES ASSUME SchedulerInv, [Next]_vars PROVE WorkersKept'
  OBVIOUS
<1> SchedulerTypeOK /\ WorkersKept /\ ListsKept
  BY DEF SchedulerInv
<1> USE DEF SchedulerTypeOK, WorkersKept, Done, InHand, sets, WorkerStates
<1>1. CASE CheckDone
  BY <1>1 DEF CheckDone
<1>2. CASE EndScan
  BY <1>2 DEF EndScan
<1>3. CASE WaitReturns
  BY <1>3 DEF WaitReturns
<1>4. CASE Shutdown
  BY <1>4 DEF Shutdown
<1>5. ASSUME NEW t \in Tasks, PassOver(t) PROVE WorkersKept'
  BY <1>5 DEF PassOver
<1>6. ASSUME NEW t \in Tasks, Skip(t) PROVE WorkersKept'
  BY <1>6 DEF Skip
<1>7. ASSUME NEW t \in Tasks, LockBusy(t) PROVE WorkersKept'
  BY <1>7 DEF LockBusy, FailUnstarted, FailTask
<1>8. ASSUME NEW t \in Tasks, AcquireRaises(t) PROVE WorkersKept'
  BY <1>8 DEF AcquireRaises, Consider, Examine
<1>9. ASSUME NEW t \in Tasks, MissingProposal(t) PROVE WorkersKept'
  BY <1>9 DEF MissingProposal, FailUnstarted, FailTask
<1>10. ASSUME NEW t \in Tasks, Dispatch(t) PROVE WorkersKept'
  BY <1>10, Considered DEF Dispatch
<1>11. ASSUME NEW t \in Tasks, Collect(t) PROVE WorkersKept'
  BY <1>11 DEF Collect, Tally, FailTask, ListsKept
<1>12. ASSUME NEW t \in Tasks, CollectSequential(t) PROVE WorkersKept'
  BY <1>12 DEF CollectSequential, Tally, FailTask, ListsKept
<1>13. ASSUME NEW t \in Tasks, TakeUp(t) PROVE WorkersKept'
  BY <1>13 DEF TakeUp
<1>14. ASSUME NEW t \in Tasks, Return(t) PROVE WorkersKept'
  BY <1>14 DEF Return
<1>15. ASSUME NEW t \in Tasks, Escape(t) PROVE WorkersKept'
  BY <1>15 DEF Escape, SchedulerInv, PhaseKept, SequentialKept
<1>16. ASSUME NEW t \in Tasks, ReleaseLocks(t) PROVE WorkersKept'
  BY <1>16 DEF ReleaseLocks
<1>17. CASE UNCHANGED vars \/ Ended
  BY <1>17 DEF vars, Ended
<1> QED BY <1>1, <1>2, <1>3, <1>4, <1>5, <1>6, <1>7, <1>8, <1>9, <1>10, <1>11,
    <1>12, <1>13, <1>14, <1>15, <1>16, <1>17 DEF Next, Coordinate, Work

\* the locks,
LEMMA NextLocksKept == SchedulerInv /\ [Next]_vars => LocksKept'
<1> SUFFICES ASSUME SchedulerInv, [Next]_vars PROVE LocksKept'
  OBVIOUS
<1> SchedulerTypeOK /\ WorkersKept /\ LocksKept /\ LocksTypeOK
  BY DEF SchedulerInv, SchedulerTypeOK
<1> USE FilesAssumption, FreeAssumption
    DEF SchedulerTypeOK, LocksKept, LocksTypeOK, InHand
<1>1. CASE CheckDone
  BY <1>1 DEF CheckDone
<1>2. CASE EndScan
  BY <1>2 DEF EndScan
<1>3. CASE WaitReturns
  BY <1>3 DEF WaitReturns
<1>4. CASE Shutdown
  BY <1>4 DEF Shutdown
<1>5. ASSUME NEW t \in Tasks, PassOver(t) PROVE LocksKept'
  BY <1>5 DEF PassOver
<1>6. ASSUME NEW t \in Tasks, Skip(t) PROVE LocksKept'
  BY <1>6 DEF Skip
<1>7. ASSUME NEW t \in Tasks, LockBusy(t) PROVE LocksKept'
  BY <1>7 DEF LockBusy
<1>8. ASSUME NEW t \in Tasks, AcquireRaises(t) PROVE LocksKept'
  BY <1>8 DEF AcquireRaises, Consider, Examine
<1>9. ASSUME NEW t \in Tasks, MissingProposal(t) PROVE LocksKept'
  BY <1>9, Considered DEF MissingProposal, Freed
<1>10. ASSUME NEW t \in Tasks, Dispatch(t) PROVE LocksKept'
  BY <1>10, Considered DEF Dispatch, Acquire, CanAcquire
<1>11. ASSUME NEW t \in Tasks, Collect(t) PROVE LocksKept'
  BY <1>11 DEF Collect, Tally
<1>12. ASSUME NEW t \in Tasks, CollectSequential(t) PROVE LocksKept'
  BY <1>12 DEF CollectSequential, Tally
<1>13. ASSUME NEW t \in Tasks, TakeUp(t) PROVE LocksKept'
  BY <1>13 DEF TakeUp
<1>14. ASSUME NEW t \in Tasks, Return(t) PROVE LocksKept'
  BY <1>14 DEF Return
<1>15. ASSUME NEW t \in Tasks, Escape(t) PROVE LocksKept'
  BY <1>15 DEF Escape
<1>16. ASSUME NEW t \in Tasks, ReleaseLocks(t) PROVE LocksKept'
  BY <1>16 DEF ReleaseLocks, Release, Freed
<1>17. CASE UNCHANGED vars \/ Ended
  BY <1>17 DEF vars, Ended
<1> QED BY <1>1, <1>2, <1>3, <1>4, <1>5, <1>6, <1>7, <1>8, <1>9, <1>10, <1>11,
    <1>12, <1>13, <1>14, <1>15, <1>16, <1>17 DEF Next, Coordinate, Work

\* Disjoint sets are counted one by one.
LEMMA CountDisjoint ==
  ASSUME NEW S, NEW T, IsFiniteSet(S), IsFiniteSet(T), S \cap T = {}
  PROVE  Cardinality(S \cup T) = Cardinality(S) + Cardinality(T)
<1>1. Cardinality(S \cup T) = Cardinality(S) + Cardinality(T) - Cardinality(S \cap T)
  BY FS_Union
<1>2. Cardinality(S \cap T) = 0
  BY FS_EmptySet
<1>3. Cardinality(S) \in Nat /\ Cardinality(T) \in Nat
  BY FS_CardinalityType
<1> QED BY <1>1, <1>2, <1>3

\* and what each phase relies on.
LEMMA NextPhaseKept == SchedulerInv /\ [Next]_vars => PhaseKept'
<1> SUFFICES ASSUME SchedulerInv, [Next]_vars PROVE PhaseKept'
  OBVIOUS
<1> SchedulerTypeOK /\ WorkersKept /\ ListsKept /\ PhaseKept /\ FailuresKept
  BY DEF SchedulerInv
<1> USE DEF PhaseKept, ParallelKept, SequentialKept, Accounted, sets
<1>1. CASE CheckDone
  <2>0. phase = "checking" /\ given.parallel
    BY <1>1 DEF CheckDone
  <2>1. CASE phase' = "scanning" /\ scan' = Ready(completed, active, blocked)
    BY <1>1, <2>0, <2>1 DEF CheckDone, Ready, FailuresKept
  <2>2. CASE phase' = "closing" /\ Cardinality(completed) + Cardinality(failed)
                                     + Cardinality(aborted) = Cardinality(Tasks)
    <3>1. Accounted \in SUBSET Tasks /\ IsFiniteSet(completed) /\ IsFiniteSet(failed)
          /\ IsFiniteSet(aborted) /\ IsFiniteSet(completed \cup failed)
      BY FiniteAssumption, FS_Subset DEF SchedulerTypeOK
    <3>2. /\ Cardinality(completed \cup failed) = Cardinality(completed) + Cardinality(failed)
          /\ Cardinality(Accounted) = Cardinality(completed \cup failed) + Cardinality(aborted)
      <4>1. completed \cap failed = {} /\ (completed \cup failed) \cap aborted = {}
        BY DEF ListsKept
      <4> QED BY <3>1, <4>1, CountDisjoint
    <3>3. Cardinality(Accounted) = Cardinality(Tasks)
      BY <2>2, <3>2
    <3>4. Accounted = Tasks
      BY <3>1, <3>3, FiniteAssumption, FS_Subset
    <3> QED BY <1>1, <2>0, <2>2, <3>4 DEF CheckDone
  <2> QED BY <1>1, <2>1, <2>2 DEF CheckDone
<1>2. CASE EndScan
  BY <1>2 DEF EndScan, GiveUpRest, SchedulerTypeOK
<1>3. CASE WaitReturns
  BY <1>3 DEF WaitReturns
<1>4. CASE Shutdown
  BY <1>4 DEF Shutdown
<1>5. ASSUME NEW t \in Tasks, PassOver(t) PROVE PhaseKept'
  BY <1>5 DEF PassOver, Examine, Settled
<1>6. ASSUME NEW t \in Tasks, Skip(t) PROVE PhaseKept'
  BY <1>6 DEF Skip, Examine, Blocked
<1>7. ASSUME NEW t \in Tasks, LockBusy(t) PROVE PhaseKept'
  BY <1>7, Considered, NothingLocked
     DEF LockBusy, SchedulerInv, Consider, Examine, FailUnstarted, FailTask
<1>8. ASSUME NEW t \in Tasks, AcquireRaises(t) PROVE PhaseKept'
  BY <1>8 DEF AcquireRaises, Consider, Examine
<1>9. ASSUME NEW t \in Tasks, MissingProposal(t) PROVE PhaseKept'
  BY <1>9, Considered DEF MissingProposal, Consider, Examine, FailUnstarted, FailTask
<1>10. ASSUME NEW t \in Tasks, Dispatch(t) PROVE PhaseKept'
  BY <1>10, Considered DEF Dispatch, Consider, Examine
<1>11. ASSUME NEW t \in Tasks, Collect(t) PROVE PhaseKept'
  BY <1>11 DEF Collect, Tally, FailTask
<1>12. ASSUME NEW t \in Tasks, CollectSequential(t) PROVE PhaseKept'
  BY <1>12 DEF CollectSequential, Tally, FailTask, Done
<1>13. ASSUME NEW t \in Tasks, TakeUp(t) PROVE PhaseKept'
  BY <1>13 DEF TakeUp
<1>14. ASSUME NEW t \in Tasks, Return(t) PROVE PhaseKept'
  BY <1>14 DEF Return
<1>15. ASSUME NEW t \in Tasks, Escape(t) PROVE PhaseKept'
  BY <1>15 DEF Escape
<1>16. ASSUME NEW t \in Tasks, ReleaseLocks(t) PROVE PhaseKept'
  BY <1>16 DEF ReleaseLocks
<1>17. CASE UNCHANGED vars \/ Ended
  BY <1>17 DEF vars, Ended
<1> QED BY <1>1, <1>2, <1>3, <1>4, <1>5, <1>6, <1>7, <1>8, <1>9, <1>10, <1>11,
    <1>12, <1>13, <1>14, <1>15, <1>16, <1>17 DEF Next, Coordinate, Work

-----------------------------------------------------------------------------
\* The theorems.

LEMMA InitSchedulerInv == Init => SchedulerInv
<1> SUFFICES ASSUME Init PROVE SchedulerInv
  OBVIOUS
<1> USE DEF Init
<1>1. SchedulerTypeOK
  BY ChoicesAssumption, FilesAssumption
     DEF SchedulerTypeOK, Given, Phases, WorkerStates, WorkerOutcomes, LocksTypeOK, LocksInit
<1>2. ListsKept /\ WorkersKept /\ FailuresKept /\ PhaseKept
  BY DEF ListsKept, WorkersKept, FailuresKept, PhaseKept, ParallelKept, SequentialKept,
         AbortedDownstream, Accounted, Done, InHand
<1>3. LocksKept
  BY FreeAssumption DEF LocksKept, LocksInit, InHand
<1> QED BY <1>1, <1>2, <1>3 DEF SchedulerInv

LEMMA NextSchedulerInv == SchedulerInv /\ [Next]_vars => SchedulerInv'
<1> SUFFICES ASSUME SchedulerInv, [Next]_vars PROVE SchedulerInv'
  OBVIOUS
<1>1. SchedulerTypeOK' /\ WorkersKept' /\ LocksKept' /\ PhaseKept'
  BY NextSchedulerType, NextWorkersKept, NextLocksKept, NextPhaseKept
<1>2. ListStep
  BY NextListStep
<1>3. ListsKept'
  BY <1>2, ListStepKeepsLists DEF SchedulerInv
<1>4. FailuresKept'
  BY <1>2, FinishedStays, ListStepKeepsFailures DEF SchedulerInv
<1> QED BY <1>1, <1>3, <1>4 DEF SchedulerInv

\* In every reachable state of a run the summary's lists, the workers, the file locks
\* and the failures upstream agree with one another and with the scheduling thread.
THEOREM SchedulerBookkeeping == Spec => []SchedulerInv
BY InitSchedulerInv, NextSchedulerInv, PTL DEF Spec

\* The scheduler never leaves a variable outside its type.
THEOREM SchedulerTypeCorrect == Spec => []SchedulerTypeOK
<1>1. SchedulerInv => SchedulerTypeOK
  BY DEF SchedulerInv
<1> QED BY <1>1, SchedulerBookkeeping, PTL

\* ResourceLockManager does its job: two tasks in hand at once never share a file.
THEOREM FilesNotShared == Spec => []NoOverlap
<1>1. SchedulerInv => NoOverlap
  BY FilesAssumption DEF SchedulerInv, LocksKept, NoOverlap, Conflict
<1> QED BY <1>1, SchedulerBookkeeping, PTL

\* No lock leaks and none is released early: a file is locked exactly while a task that
\* needs it is in hand.
THEOREM LocksExact == Spec => []LocksFollowWorkers
<1>1. SchedulerInv => LocksFollowWorkers
  BY DEF SchedulerInv, LocksKept, LocksFollowWorkers
<1> QED BY <1>1, SchedulerBookkeeping, PTL

\* The three places that abort tasks never abort one that no failure is upstream of.
THEOREM OnlyDescendantsAborted == Spec => []AbortedDownstream
<1>1. SchedulerInv => AbortedDownstream
  BY DEF SchedulerInv, FailuresKept
<1> QED BY <1>1, SchedulerBookkeeping, PTL

\* The summary of a finished run names every task exactly once.
THEOREM SummaryComplete == Spec => []AccountedOnce
<1>1. SchedulerInv => AccountedOnce
  BY DEF SchedulerInv, PhaseKept, ListsKept, AccountedOnce
<1> QED BY <1>1, SchedulerBookkeeping, PTL

\* A run that returns a summary has run every task that has a patch and no failed task
\* upstream: no branch is lost to the failure of another one.
THEOREM IndependentBranchesRan == Spec => []IndependentRan
<1>1. SchedulerInv => IndependentRan
  <2> SUFFICES ASSUME SchedulerInv, phase = "over", given.leftBy = Free,
                      NEW t \in given.proposed, Independent(t)
               PROVE  worker[t] = "finished"
    BY DEF IndependentRan, IndependentsComplete
  <2>1. t \in Tasks /\ t \in Accounted /\ failed \subseteq Tasks
    BY DEF SchedulerInv, SchedulerTypeOK, Given, PhaseKept
  <2>2. CASE t \in completed
    BY <2>1, <2>2 DEF SchedulerInv, WorkersKept
  <2>3. CASE t \in failed
    BY <2>3 DEF SchedulerInv, FailuresKept
  <2>4. t \notin aborted
    BY <2>1 DEF SchedulerInv, FailuresKept, AbortedDownstream, Independent
  <2> QED BY <2>1, <2>2, <2>3, <2>4 DEF Accounted
<1> QED BY <1>1, SchedulerBookkeeping, PTL

\* What was taken up is in hand or has a result, and neither goes with a task upstream
\* that has not completed.
THEOREM UpstreamFirst == Spec => []UpstreamCompleted
<1>1. SchedulerInv => UpstreamCompleted
  <2> SUFFICES ASSUME SchedulerInv, NEW t \in Tasks, NEW u \in Descendants(t),
                      worker[u] # "none", t \notin completed
               PROVE  FALSE
    BY DEF UpstreamCompleted
  <2>1. u \in Tasks /\ u \notin completed \cup failed \cup active
    BY NoneStartedBelow, DescendantsAreTasks DEF SchedulerInv
  <2>2. InHand(u) \/ worker[u] = "finished"
    BY <2>1 DEF SchedulerInv, SchedulerTypeOK, WorkerStates, InHand
  <2> QED BY <2>1, <2>2 DEF SchedulerInv, WorkersKept
<1> QED BY <1>1, SchedulerBookkeeping, PTL

-----------------------------------------------------------------------------
\* The run gets on.

\* As long as a task is in hand one of them moves, unless the locks wait for a scan.
LEMMA SomeoneMoves ==
  ASSUME SchedulerInv, phase # "scanning", NEW t \in Tasks, InHand(t)
  PROVE  \E u \in Tasks : Movable(u)
<1>1. CASE \E u \in Tasks : worker[u] \in {"running", "returned"}
  BY <1>1 DEF Movable
<1>2. CASE \A u \in Tasks : worker[u] \notin {"running", "returned"}
  <2>1. Occupied = {} /\ worker[t] = "queued"
    BY <1>2 DEF Occupied, InHand
  <2>2. Cardinality(Occupied) < MaxWorkers
    BY <2>1, FS_EmptySet, WorkersAssumption
  <2> QED BY <2>1, <2>2 DEF Movable
<1> QED BY <1>1, <1>2

\* No run of any graph ever gets stuck, however few the workers are and whatever locks an
\* earlier run has left.
THEOREM RunNeverStuck == Spec => []NeverStuck
<1>1. SchedulerInv => NeverStuck
  <2> SUFFICES ASSUME SchedulerInv PROVE NeverStuck
    OBVIOUS
  <2>0. SchedulerTypeOK /\ WorkersKept /\ PhaseKept
    BY DEF SchedulerInv
  <2>1. CASE phase = "scanning"
    <3>1. scan # {} => \E t \in scan : Deps[t] \cap scan = {}
      BY <2>0, AcyclicAssumption DEF SchedulerTypeOK
    <3> QED BY <2>1, <3>1 DEF NeverStuck
  <2>2. CASE phase = "collecting"
    BY <2>0, <2>2 DEF PhaseKept, NeverStuck
  <2>3. CASE phase \in {"waiting", "executing"}
    <3>1. PICK t \in Tasks : t \in active
      BY <2>0, <2>3 DEF PhaseKept, ParallelKept, SequentialKept, SchedulerTypeOK
    <3>2. CASE t \in Done
      BY <2>3, <3>2 DEF NeverStuck
    <3>3. CASE t \notin Done
      <4>1. InHand(t)
        BY <2>0, <3>1, <3>3 DEF SchedulerTypeOK, WorkersKept, WorkerStates, Done, InHand
      <4> QED BY <2>3, <4>1, SomeoneMoves DEF NeverStuck
    <3> QED BY <3>2, <3>3
  <2>4. CASE phase \in {"closing", "raising"}
    BY <2>4, SomeoneMoves DEF NeverStuck
  <2> QED BY <2>0, <2>1, <2>2, <2>3, <2>4 DEF SchedulerTypeOK, Phases, NeverStuck
<1> QED BY <1>1, SchedulerBookkeeping, PTL

Decides == Decided \subseteq Decided' /\ Decided' # Decided
Executes ==
  /\ Decided' = Decided /\ worker' # worker
  /\ \A t \in Tasks : Progress[worker[t]] <= Progress[worker'[t]]
TurnsOn ==
  /\ Decided' = Decided /\ worker' = worker
  /\ Turn < Turn' \/ (Turn = Turn' /\ scan' \subseteq scan /\ scan' # scan)

\* A task that has not been decided is, by a result or because it could not be started.
LEMMA TallyDecides ==
  ASSUME SchedulerInv, NEW t \in Tasks, t \in active, Tally(t)
  PROVE  Decides
<1>1. t \notin Decided
  BY DEF SchedulerInv, ListsKept, Accounted, Decided
<1>2. Decided' = Decided \cup {t}
  BY DEF Tally, FailTask, Decided
<1> QED BY <1>1, <1>2 DEF Decides

LEMMA FailUnstartedDecides ==
  ASSUME SchedulerInv, NEW t \in Tasks, Consider(t), FailUnstarted(t)
  PROVE  Decides
<1>1. t \notin Decided
  BY Considered DEF Accounted, Decided
<1>2. Decided' = Decided \cup {t}
  BY DEF FailUnstarted, FailTask, Decided
<1> QED BY <1>1, <1>2 DEF Decides

\* A worker is taken from one state to a later one.
LEMMA WorkerGetsOn ==
  ASSUME SchedulerTypeOK, NEW t \in Tasks, NEW s \in WorkerStates,
         worker' = [worker EXCEPT ![t] = s], Progress[worker[t]] < Progress[s],
         Decided' = Decided
  PROVE  Executes
<1>1. worker \in [Tasks -> WorkerStates]
  BY DEF SchedulerTypeOK
<1>2. \A v \in WorkerStates : Progress[v] \in Nat
  BY DEF WorkerStates, Progress
<1>3. worker'[t] = s /\ \A u \in Tasks \ {t} : worker'[u] = worker[u]
  BY <1>1
<1>4. worker' # worker
  BY <1>1, <1>2, <1>3
<1>5. ASSUME NEW u \in Tasks PROVE Progress[worker[u]] <= Progress[worker'[u]]
  <2>1. Progress[worker[u]] \in Nat
    BY <1>1, <1>2
  <2>2. CASE u = t
    BY <1>2, <1>3, <2>1, <2>2
  <2>3. CASE u # t
    BY <1>3, <2>1, <2>3
  <2> QED BY <2>2, <2>3
<1> QED BY <1>4, <1>5 DEF Executes

\* Every step decides a task, takes an execution further or goes on in the turn.
LEMMA NextAdvances ==
  ASSUME SchedulerInv, [Next]_vars
  PROVE  Decides \/ Executes \/ TurnsOn \/ UNCHANGED vars
<1> DEFINE Advances == Decides \/ Executes \/ TurnsOn
<1> SchedulerTypeOK /\ WorkersKept /\ PhaseKept
  BY DEF SchedulerInv
<1>1. CASE CheckDone \/ EndScan \/ WaitReturns \/ Shutdown
  <2>1. Decided' = Decided /\ worker' = worker
    BY <1>1 DEF CheckDone, EndScan, GiveUpRest, WaitReturns, Shutdown, sets, Decided
  <2>2. Turn < Turn'
    BY <1>1 DEF CheckDone, EndScan, WaitReturns, Shutdown, Turn
  <2> QED BY <2>1, <2>2 DEF TurnsOn
<1>2. ASSUME NEW t \in Tasks,
             PassOver(t) \/ Skip(t) \/ (LockBusy(t) /\ given.parallel)
      PROVE  Advances
  <2>1. Decided' = Decided /\ worker' = worker /\ phase' = phase
    BY <1>2 DEF PassOver, Skip, LockBusy, sets, Decided
  <2>2. scan' \subseteq scan /\ scan' # scan
    BY <1>2 DEF PassOver, Skip, LockBusy, Consider, Examine
  <2>3. Turn' = Turn
    BY <2>1 DEF Turn
  <2> QED BY <2>1, <2>2, <2>3 DEF TurnsOn
<1>3. ASSUME NEW t \in Tasks, LockBusy(t), ~given.parallel PROVE Advances
  BY <1>3, FailUnstartedDecides DEF LockBusy
<1>4. ASSUME NEW t \in Tasks, MissingProposal(t) PROVE Advances
  BY <1>4, FailUnstartedDecides DEF MissingProposal
<1>5. ASSUME NEW t \in Tasks, AcquireRaises(t) PROVE Advances
  <2>1. Decided' = Decided /\ worker' = worker
    BY <1>5 DEF AcquireRaises, sets, Decided
  <2>2. Turn < Turn'
    BY <1>5 DEF AcquireRaises, Consider, Examine, Turn
  <2> QED BY <2>1, <2>2 DEF TurnsOn
<1>6. ASSUME NEW t \in Tasks, Collect(t) \/ CollectSequential(t) PROVE Advances
  <2>1. t \in active /\ Tally(t)
    BY <1>6 DEF Collect, CollectSequential, WorkersKept, Done
  <2> QED BY <2>1, TallyDecides
<1>7. ASSUME NEW t \in Tasks, Dispatch(t) \/ Work(t) PROVE Advances
  <2>1. Decided' = Decided
    BY <1>7 DEF Dispatch, Work, TakeUp, Return, Escape, ReleaseLocks, sets, Decided
  <2>2. \E s \in WorkerStates :
           worker' = [worker EXCEPT ![t] = s] /\ Progress[worker[t]] < Progress[s]
    BY <1>7, Considered
       DEF Dispatch, Work, TakeUp, Return, Escape, ReleaseLocks, WorkerStates, Progress
  <2> QED BY <2>1, <2>2, WorkerGetsOn
<1> QED BY <1>1, <1>2, <1>3, <1>4, <1>5, <1>6, <1>7 DEF Next, Coordinate, Ended

\* Whatever the graph and the order of scans, workers and results, every step takes a run
\* further in an order that ends, since tasks are finitely many: no run goes on for ever.
THEOREM RunGetsOn == Spec => RunAdvances
<1>1. SchedulerInv /\ [Next]_vars => [Advance]_vars
  <2> SUFFICES ASSUME SchedulerInv, [Next]_vars, ~UNCHANGED vars PROVE Advance
    OBVIOUS
  <2>1. \A t \in Tasks : Progress[worker[t]] \in Nat
    BY DEF SchedulerInv, SchedulerTypeOK, WorkerStates, Progress
  <2>2. Decides \/ Executes \/ TurnsOn
    BY NextAdvances
  <2> QED BY <2>1, <2>2 DEF Decides, Executes, TurnsOn, Advance
<1> QED BY <1>1, SchedulerBookkeeping, PTL DEF Spec, RunAdvances

-----------------------------------------------------------------------------
\* The scheduler implements DagRun.

\* The abstract specification means the same descendants.
LEMMA SameDescendants == \A t \in Tasks : Run!Descendants(t) = Descendants(t)
BY DEF Run!Descendants, Run!Downstream, Run!Closed, Run!Dependents,
       Descendants, Downstream, Closed, Dependents

\* The fate of a task, by the lists and the worker.
LEMMA FateOf ==
  ASSUME SchedulerInv, NEW t \in Tasks
  PROVE  /\ Fate(t) = "completed" <=> t \in completed
         /\ Fate(t) = "failed" <=> t \in failed
         /\ Fate(t) = "aborted" <=> t \in aborted
         /\ Fate(t) = "running" <=> InHand(t)
         /\ Fate(t) = "waiting" <=> worker[t] = "none" /\ t \notin Accounted
         /\ t \in Done => Fate(t) = "ran"
         /\ Fate(t) = "ran" <=> worker[t] = "finished" /\ t \notin Accounted
BY DEF SchedulerInv, SchedulerTypeOK, ListsKept, WorkersKept, WorkerStates, Accounted, InHand,
       Done, Fate

\* Dispatching starts a task, a worker that lets go of its files finishes it, and what
\* any other step does to the fates is what it does to the lists.
LEMMA NextImplementsDagRun ==
  SchedulerInv /\ [Next]_vars =>
     [Run!RunNext]_<<[t \in Tasks |-> Fate(t)], given.parallel /\ given.leftBy # Free>>
<1> DEFINE fate == [t \in Tasks |-> Fate(t)]
           barred == given.parallel /\ given.leftBy # Free
<1> SUFFICES ASSUME SchedulerInv, [Next]_vars
             PROVE  Run!RunNext \/ (fate' = fate /\ barred' = barred)
  OBVIOUS
<1>0. SchedulerInv' /\ given' = given /\ barred' = barred /\ SchedulerTypeOK
  BY NextSchedulerInv, FinishedStays DEF SchedulerInv
<1>a. \A u \in Tasks : fate[u] = Fate(u) /\ fate'[u] = Fate(u)'
  OBVIOUS
<1>b. SchedulerTypeOK /\ ListsKept /\ WorkersKept /\ ListStep
  BY NextListStep DEF SchedulerInv
<1>c. \A u \in Tasks : worker[u] \in WorkerStates
  BY <1>b DEF SchedulerTypeOK
\* A task whose place in the lists and whose worker stay keeps its fate.
<1>d. ASSUME NEW u \in Tasks, InHand(u)' <=> InHand(u),
             worker'[u] = "finished" <=> worker[u] = "finished",
             u \in completed' <=> u \in completed, u \in failed' <=> u \in failed,
             u \in aborted' <=> u \in aborted
      PROVE  fate'[u] = fate[u]
  BY <1>d DEF Fate
<1>e. DOMAIN fate = Tasks /\ DOMAIN fate' = Tasks
      /\ fate = [u \in Tasks |-> fate[u]] /\ fate' = [u \in Tasks |-> fate'[u]]
  OBVIOUS
<1> USE <1>a, <1>b, <1>c
<1> HIDE DEF fate, barred
<1>1. ASSUME NEW t \in Tasks, Dispatch(t) PROVE Run!RunNext
  <2>1. t \notin Accounted \cup active /\ worker[t] = "none" /\ Deps[t] \subseteq completed
    BY <1>1, Considered DEF Dispatch
  <2>2. /\ fate[t] = "waiting" /\ \A d \in Deps[t] : fate[d] = "completed"
    BY <2>1, DepsAssumption DEF Fate, Accounted, InHand
  <2>3. ASSUME NEW u \in Tasks, fate[u] = "running" PROVE FilesOf[t] \cap FilesOf[u] = {}
    <3>1. InHand(u) /\ u # t
      BY <2>3, <2>1 DEF Fate, InHand
    <3>2. \A f \in FilesOf[u] : fileLocks[f] = u
      BY <3>1 DEF SchedulerInv, LocksKept
    <3>3. \A f \in FilesOf[t] : fileLocks[f] \in {t, Free}
      BY <1>1 DEF Dispatch, Acquire, CanAcquire
    <3> QED BY <3>1, <3>2, <3>3, FreeAssumption
  <2>4. fate'[t] = "running"
    BY <1>1, <2>1 DEF Dispatch, Fate, Accounted, InHand, SchedulerTypeOK, sets
  <2>5. \A u \in Tasks \ {t} : fate'[u] = fate[u]
    BY <1>1, <1>d DEF Dispatch, InHand, SchedulerTypeOK, sets
  <2>6. fate' = [fate EXCEPT ![t] = "running"]
    BY <1>e, <2>4, <2>5
  <2>7. Run!Start(t)
    BY <2>2, <2>3, <2>6 DEF Run!Start, Run!Runnable, fate
  <2> QED BY <1>0, <2>7 DEF Run!RunNext, barred
<1>2. ASSUME NEW t \in Tasks, Work(t) PROVE Run!RunNext \/ (fate' = fate /\ barred' = barred)
  <2>0. UNCHANGED <<completed, failed, aborted>>
    BY <1>2 DEF Work, TakeUp, Return, Escape, ReleaseLocks, sets
  <2>1. CASE TakeUp(t) \/ Return(t)
    <3>1. \A u \in Tasks : fate'[u] = fate[u]
      BY <2>0, <2>1, <1>d DEF TakeUp, Return, InHand, SchedulerTypeOK
    <3> QED BY <1>0, <1>e, <3>1
  <2>2. CASE Escape(t) \/ ReleaseLocks(t)
    <3>1. /\ InHand(t) /\ worker'[t] = "finished"
          /\ \A u \in Tasks \ {t} : worker'[u] = worker[u]
      BY <2>2 DEF Escape, ReleaseLocks, InHand, SchedulerTypeOK
    <3>2. t \notin Accounted
      BY <3>1 DEF ListsKept, WorkersKept
    <3>3. fate[t] = "running" /\ fate'[t] = "ran"
      BY <2>0, <3>1, <3>2 DEF Fate, Accounted, InHand
    <3>4. \A u \in Tasks \ {t} : fate'[u] = fate[u]
      BY <2>0, <3>1, <1>d DEF InHand
    <3>5. fate' = [fate EXCEPT ![t] = "ran"]
      BY <1>e, <3>3, <3>4
    <3>6. Run!Finish(t)
      BY <3>3, <3>5 DEF Run!Finish, fate
    <3> QED BY <1>0, <3>6 DEF Run!RunNext, barred
  <2> QED BY <1>2, <2>1, <2>2 DEF Work
<1>3. ASSUME worker' = worker PROVE Run!RunNext \/ (fate' = fate /\ barred' = barred)
  <2>1. CASE Quiet
    <3>1. \A u \in Tasks : fate'[u] = fate[u]
      BY <1>3, <1>d, <2>1 DEF Quiet, InHand
    <3> QED BY <1>0, <1>e, <3>1
  <2>2. \A t \in Tasks : ~Starts(t)
    BY <1>0, <1>3 DEF Starts, SchedulerInv, WorkersKept
  <2>3. ASSUME NEW t \in Tasks, Succeeds(t) PROVE Run!RunNext
    <3>1. fate[t] = "ran" /\ fate'[t] = "completed"
      BY <2>3, FateOf DEF Succeeds, Fate
    <3>2. \A u \in Tasks \ {t} : fate'[u] = fate[u]
      BY <1>3, <1>d, <2>3 DEF Succeeds, InHand
    <3>3. fate' = [fate EXCEPT ![t] = "completed"]
      BY <1>e, <3>1, <3>2
    <3>4. Run!Complete(t)
      BY <3>1, <3>3 DEF Run!Complete, fate
    <3> QED BY <1>0, <3>4 DEF Run!RunNext, barred
  <2>4. ASSUME NEW t \in Tasks, NEW lost \in SUBSET Tasks, Fails(t, lost) PROVE Run!RunNext
    <3>0. t \notin lost /\ lost \cap (completed \cup active) = {}
          /\ lost \in SUBSET Run!Descendants(t) /\ lost \cap Accounted = {}
      BY <2>4, SameDescendants, NotBelowItself, NoneStartedBelow DEF Fails, Accounted, SchedulerInv
    <3>1. fate[t] = "ran" \/ (fate[t] = "waiting" /\ \A d \in Deps[t] : fate[d] = "completed")
      BY <2>4, FateOf, DepsAssumption DEF Fails, Fate
    <3>2. \A u \in lost : fate[u] = "waiting"
      BY <3>0, FateOf, Untouched
    <3>3. fate'[t] = "failed"
      BY <2>4 DEF Fails, Fate, Accounted
    <3>4. \A u \in lost : fate'[u] = "aborted"
      BY <2>4, <3>0 DEF Fails, Fate, Accounted
    <3>5. \A u \in Tasks \ (lost \cup {t}) : fate'[u] = fate[u]
      BY <1>3, <1>d, <2>4 DEF Fails, InHand
    <3>6. fate' = [u \in Tasks |-> IF u = t THEN "failed"
                                  ELSE IF u \in lost THEN "aborted" ELSE fate[u]]
      BY <1>e, <3>3, <3>4, <3>5
    <3>7. Run!Fail(t, lost)
      BY <3>1, <3>2, <3>6 DEF Run!Fail, Run!Runnable, fate
    <3> QED BY <1>0, <3>0, <3>7 DEF Run!RunNext, barred
  <2>5. ASSUME NEW lost \in SUBSET Tasks, Aborts(lost) PROVE Run!RunNext
    <3>1. \A u \in lost : fate[u] = "waiting" /\ fate'[u] = "aborted"
      BY <2>5, FateOf DEF Aborts, Fate, Accounted
    <3>2. barred \/ \A t \in lost : \E u \in Tasks : fate[u] = "failed"
                                                   /\ t \in Run!Descendants(u)
      BY <2>5, FateOf, SameDescendants DEF Aborts, Below, barred, SchedulerTypeOK
    <3>3. \A u \in Tasks \ lost : fate'[u] = fate[u]
      BY <1>3, <1>d, <2>5 DEF Aborts, InHand
    <3>4. fate' = [t \in Tasks |-> IF t \in lost THEN "aborted" ELSE fate[t]]
      BY <1>e, <3>1, <3>3
    <3>5. Run!Abort(lost)
      BY <3>1, <3>2, <3>4 DEF Run!Abort, fate, barred
    <3> QED BY <1>0, <3>5 DEF Run!RunNext, barred
  <2> QED BY <2>1, <2>2, <2>3, <2>4, <2>5 DEF ListStep
<1>4. \/ worker' = worker
      \/ \E t \in Tasks : Dispatch(t) \/ Work(t)
  BY DEF Next, Coordinate, Ended, vars, CheckDone, EndScan, WaitReturns, Shutdown, PassOver, Skip,
         LockBusy, AcquireRaises, MissingProposal, Collect, CollectSequential, Tally
<1> QED BY <1>1, <1>2, <1>3, <1>4

\* Whatever the mode, the order of the scans, of the workers and of their results, a run
\* of the scheduler is a run of the task graph.
THEOREM SchedulerImplementsDagRun == Spec => ImplementsDagRun
<1>1. Init => Run!RunInit
  BY FreeAssumption DEF Init, Run!RunInit, Fate, InHand, Given
<1> QED BY <1>1, NextImplementsDagRun, SchedulerBookkeeping, PTL
        DEF Spec, ImplementsDagRun, Run!DagRunSpec
=============================================================================

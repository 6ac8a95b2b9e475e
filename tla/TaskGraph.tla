----------------------------- MODULE TaskGraph -----------------------------
(* task/dag.py: the dependency graph of a run, once build_and_validate has  *)
(* accepted it.                                                             *)
EXTENDS Naturals, FiniteSets

CONSTANTS Tasks, Deps

\* DAGDependencyError and DAGCycleError: every dependency is a task of the
\* graph, and every set of tasks has one that depends on none of them.
ASSUME DepsAssumption == Deps \in [Tasks -> SUBSET Tasks]
ASSUME FiniteAssumption == IsFiniteSet(Tasks)
ASSUME AcyclicAssumption ==
  \A S \in SUBSET Tasks : S # {} => \E t \in S : Deps[t] \cap S = {}

Dependents(t) == {u \in Tasks : t \in Deps[u]}

Closed(S) == \A t \in S : Dependents(t) \subseteq S

\* get_descendants: the least closed set that has the tasks depending on t.
Downstream ==
  [t \in Tasks |-> {u \in Tasks : \A S \in SUBSET Tasks :
                                    (Closed(S) /\ Dependents(t) \subseteq S) => u \in S}]
Descendants(t) == Downstream[t]

\* Mutant: one completed dependency is enough.
ReadyEarly(done, busy, barred) ==
  {t \in Tasks \ (done \cup busy \cup barred) : Deps[t] # {} => Deps[t] \cap done # {}}

\* get_ready_tasks
Ready(done, busy, barred) ==
  {t \in Tasks \ (done \cup busy \cup barred) : Deps[t] \subseteq done}
=============================================================================

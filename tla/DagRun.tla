------------------------------- MODULE DagRun -------------------------------
(***************************************************************************)
(* What a run of a task graph promises, in either scheduling mode: a task  *)
(* starts once, when all its dependencies have completed and no running    *)
(* task shares a file with it; it ends completed or failed; and a task is  *)
(* given up without having run only downstream of a failed one, or because *)
(* locks that no task of the run holds bar the way.                        *)
(***************************************************************************)
EXTENDS TaskGraph

CONSTANTS Files, FilesOf

VARIABLES
  fate,           \* waiting, running, ran, completed, failed or aborted
  barred          \* are there such locks; never changes

RunInit == fate = [t \in Tasks |-> "waiting"] /\ barred \in BOOLEAN

Runnable(t) == fate[t] = "waiting" /\ \A d \in Deps[t] : fate[d] = "completed"

Start(t) ==
  /\ Runnable(t)
  /\ \A u \in Tasks : fate[u] = "running" => FilesOf[t] \cap FilesOf[u] = {}
  /\ fate' = [fate EXCEPT ![t] = "running"]

\* The task has let go of its files; its result is not yet known.
Finish(t) ==
  /\ fate[t] = "running"
  /\ fate' = [fate EXCEPT ![t] = "ran"]

Complete(t) ==
  /\ fate[t] \in {"running", "ran"}
  /\ fate' = [fate EXCEPT ![t] = "completed"]

\* A failure, of the task itself or because it could not be started, gives up
\* some of the waiting tasks downstream.
Fail(t, lost) ==
  /\ fate[t] \in {"running", "ran"} \/ Runnable(t)
  /\ \A u \in lost : fate[u] = "waiting"
  /\ fate' = [u \in Tasks |-> IF u = t THEN "failed"
                              ELSE IF u \in lost THEN "aborted" ELSE fate[u]]

Abort(lost) ==
  /\ \A t \in lost : fate[t] = "waiting"
  /\ barred \/ \A t \in lost : \E u \in Tasks : fate[u] = "failed" /\ t \in Descendants(u)
  /\ fate' = [t \in Tasks |-> IF t \in lost THEN "aborted" ELSE fate[t]]

RunNext ==
  /\ \/ \E t \in Tasks :
           \/ Start(t) \/ Finish(t) \/ Complete(t)
           \/ \E lost \in SUBSET Descendants(t) : Fail(t, lost)
     \/ \E lost \in SUBSET Tasks : Abort(lost)
  /\ UNCHANGED barred

DagRunSpec == RunInit /\ [][RunNext]_<<fate, barred>>
=============================================================================

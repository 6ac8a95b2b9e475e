--------------------------- MODULE ResourceLocks ---------------------------
(* task/locks.py, ResourceLockManager: which task holds which file.  Every  *)
(* method runs under the manager's lock, so each is one step.               *)
EXTENDS TaskGraph

CONSTANTS
  Files,
  FilesOf,        \* allowed_files of each task, normalised
  Free            \* "no task holds the file"

ASSUME FilesAssumption == FilesOf \in [Tasks -> SUBSET Files]
ASSUME FreeAssumption == Free \notin Tasks

VARIABLE fileLocks

LocksTypeOK == fileLocks \in [Files -> Tasks \cup {Free}]

\* Every file is free, but for those an earlier run left locked by `owner`.
LocksInit(owner) ==
  fileLocks = [f \in Files |-> IF owner # Free /\ f \in FilesOf[owner] THEN owner ELSE Free]

Conflict(t, u) == FilesOf[t] \cap FilesOf[u] # {}

CanAcquire(t) == \A f \in FilesOf[t] : fileLocks[f] \in {t, Free}

\* Mutant: the locks are taken without looking.
AcquireAnyway(t) ==
  fileLocks' = [f \in Files |-> IF f \in FilesOf[t] THEN t ELSE fileLocks[f]]

\* acquire takes every file of the task or none.
Acquire(t) ==
  /\ CanAcquire(t)
  /\ fileLocks' = [f \in Files |-> IF f \in FilesOf[t] THEN t ELSE fileLocks[f]]

\* The locks without those of the task.
Freed(t) == [f \in Files |-> IF f \in FilesOf[t] /\ fileLocks[f] = t
                             THEN Free ELSE fileLocks[f]]

Release(t) == fileLocks' = Freed(t)
=============================================================================

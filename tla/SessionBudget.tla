--------------------------- MODULE SessionBudget ---------------------------
(***************************************************************************)
(* safety/policy.py, SessionBudgetTracker: the line budget that all the    *)
(* transactions of one process share.  A transaction reserves its lines    *)
(* before it runs, and then commits or releases the reservation.  Every    *)
(* method holds the tracker's lock, so each is one action.                 *)
(***************************************************************************)
EXTENDS Naturals, FiniteSetsExt

CONSTANTS
  Txs,            \* reservation ids
  MaxAdded,       \* max_cumulative_lines_added
  MaxDeleted      \* max_cumulative_lines_deleted

ASSUME BudgetAssumption == MaxAdded \in Nat /\ MaxDeleted \in Nat /\ IsFiniteSet(Txs)

VARIABLES
  reservations,   \* _active_reservations: held or not, and for how many lines
  spent           \* cumulative_lines_added and cumulative_lines_deleted

budgetVars == <<reservations, spent>>

Lines == [added : Nat, deleted : Nat]

NotHeld == [held |-> FALSE, added |-> 0, deleted |-> 0]
Holding(lines) == [held |-> TRUE, added |-> lines.added, deleted |-> lines.deleted]
NothingSpent == [added |-> 0, deleted |-> 0]

BudgetTypeOK ==
  /\ reservations \in [Txs -> [held : BOOLEAN, added : Nat, deleted : Nat]]
  /\ spent \in Lines

BudgetInit == reservations = [t \in Txs |-> NotHeld] /\ spent = NothingSpent

AddedBy(ids) == MapThenSumSet(LAMBDA i : reservations[i].added, ids)
DeletedBy(ids) == MapThenSumSet(LAMBDA i : reservations[i].deleted, ids)

\* Would the budget hold with these lines on top of the reservations of `ids`?
FitsOver(ids, lines) ==
  /\ spent.added + AddedBy(ids) + lines.added <= MaxAdded
  /\ spent.deleted + DeletedBy(ids) + lines.deleted <= MaxDeleted

Plus(a, b) == [added |-> a.added + b.added, deleted |-> a.deleted + b.deleted]

\* Mutant: other transactions' reservations are not counted.
FitsAlone(t, lines) == FitsOver({}, lines)

\* Reserving again under the same id replaces the old reservation.
Fits(t, lines) == FitsOver(Txs \ {t}, lines)

Reserve(t, lines) ==
  /\ Fits(t, lines)
  /\ reservations' = [reservations EXCEPT ![t] = Holding(lines)]
  /\ UNCHANGED spent

Commit(t) ==
  /\ spent' = IF reservations[t].held THEN Plus(spent, reservations[t]) ELSE spent
  /\ reservations' = [reservations EXCEPT ![t] = NotHeld]

Release(t) ==
  /\ reservations' = [reservations EXCEPT ![t] = NotHeld]
  /\ UNCHANGED spent

\* Mutant: the legacy helper looks at what is spent only.
CheckSpentAndAdd(lines) ==
  /\ FitsOver({}, lines)
  /\ spent' = Plus(spent, lines)
  /\ UNCHANGED reservations

\* The legacy helper that spends without reserving.
CheckAndAdd(lines) ==
  /\ FitsOver(Txs, lines)
  /\ spent' = Plus(spent, lines)
  /\ UNCHANGED reservations

Reset == reservations' = [t \in Txs |-> NotHeld] /\ spent' = NothingSpent

-----------------------------------------------------------------------------
\* The tracker on its own, driven by arbitrary callers.

CONSTANT Sizes  \* the line counts the callers ask for

ASSUME SizesAssumption == Sizes \subseteq Lines

BudgetNext ==
  \/ \E t \in Txs, lines \in Sizes : Reserve(t, lines)
  \/ \E t \in Txs : Commit(t)
  \/ \E t \in Txs : Release(t)
  \/ \E lines \in Sizes : CheckAndAdd(lines)
  \/ Reset

BudgetSpec == BudgetInit /\ [][BudgetNext]_budgetVars

\* What is spent and what is promised never exceed the session's limits
\* together, so that every reservation that is held can still be committed.
WithinSessionBudget ==
  /\ spent.added + AddedBy(Txs) <= MaxAdded
  /\ spent.deleted + DeletedBy(Txs) <= MaxDeleted
=============================================================================

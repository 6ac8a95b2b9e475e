------------------------------ MODULE Outcomes ------------------------------
(* What a call of execute_transaction may leave behind: the contract         *)
(* between core/runtime.py, which ends transactions, and its callers.        *)

\* success; does the result carry a commit hash; the class of its failure; and
\* what became of the commit: it is on main, or parked in a retained worktree.
Outcome(success, committed, class, kept) ==
  [success |-> success, committed |-> committed, class |-> class, kept |-> kept]

Integrated    == Outcome(TRUE, TRUE, "NONE", "landed")
DryRunPassed  == Outcome(TRUE, FALSE, "NONE", "nothing")
Parked        == Outcome(FALSE, TRUE, "NONE", "parked")
\* The merge took effect although it was reported as refused.
ParkedLanded  == Outcome(FALSE, TRUE, "NONE", "landed")
Uncleaned     == Outcome(FALSE, TRUE, "ROLLBACK_FAILED", "landed")
Failed(class) == Outcome(FALSE, FALSE, class, "nothing")

TransactionOutcomes ==
  {Integrated, DryRunPassed, Parked, ParkedLanded, Uncleaned}
    \cup {Failed(class) : class \in {"RETRYABLE", "HARD_STOP", "ROLLBACK_FAILED"}}
=============================================================================

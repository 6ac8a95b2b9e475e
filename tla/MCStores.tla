------------------------------ MODULE MCStores ------------------------------
(***************************************************************************)
(* The three stores that the transactions of a process share, the crash    *)
(* journal, the session budget and the baseline cache, each driven by its  *)
(* callers, for TLC.  A behaviour drives one of the three.                 *)
(***************************************************************************)
EXTENDS SessionBudget, Validation

CONSTANTS
  Recorded,  \* the transactions that use the journal
  Drives     \* the stores to drive

VARIABLES driven, faulty, disk, pending

Journal == INSTANCE TransactionJournal WITH Txs <- Recorded

journalVars == <<disk, pending>>
storesVars == <<driven, faulty, budgetVars, journalVars, vaVars>>

IdleValidation ==
  /\ health = <<>> /\ checks = {} /\ caching = FALSE /\ tip \in {CHOOSE r \in Revisions : TRUE}
  /\ cached = <<>> /\ val = [v \in Validators |-> [step |-> "idle", verdict |-> "NONE"]]

StoresInit ==
  /\ driven \in Drives
  /\ BudgetInit /\ Journal!JournalInit
  /\ IF driven = "journal" THEN faulty \in BOOLEAN ELSE faulty = FALSE
  /\ IF driven = "baseline" THEN ValidationInit ELSE IdleValidation

StoresNext ==
  \/ driven = "budget" /\ BudgetNext /\ UNCHANGED <<driven, faulty, journalVars, vaVars>>
  \/ /\ driven = "journal" /\ Journal!JournalNext
     /\ UNCHANGED <<driven, faulty, budgetVars, vaVars>>
  \/ driven = "baseline" /\ ValidationNext /\ UNCHANGED <<driven, faulty, budgetVars, journalVars>>

StoresSpec == StoresInit /\ [][StoresNext]_storesVars

\* Rewriting the journal file for one transaction, or flushing it, never changes
\* what the journal reports for another one.
RewriteKeepsOthers == Journal!RewriteKeepsOthers

-----------------------------------------------------------------------------
\* Instances.

\* One line of either kind, two of both, and an empty patch.
FewSizes == { [added |-> 1, deleted |-> 0], [added |-> 0, deleted |-> 1],
              [added |-> 2, deleted |-> 2], [added |-> 0, deleted |-> 0] }

Health(build, behavioral, regression) ==
  [build |-> build, behavioral |-> behavioral, regression |-> regression]

Sound == Suite({}, "done")
Ill == Suite({"t1"}, "done")

\* Broken in one place, in another, not built, hung and cut short.
FewHealths ==
  { Health(TRUE, Sound, Sound), Health(TRUE, Ill, Sound), Health(TRUE, Sound, Ill),
    Health(FALSE, Sound, Sound), Health(TRUE, Suite({}, "hung"), Suite({"t1", "t2"}, "cut")) }
=============================================================================

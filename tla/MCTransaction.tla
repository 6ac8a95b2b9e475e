--------------------------- MODULE MCTransaction ---------------------------
(* Small instances of Transaction for TLC. *)
EXTENDS Transaction, TLC

CONSTANTS t1, t2, c1

\* Both patches have the same lines, so that the transactions are symmetric.
Each(added, deleted) == [t \in Txs |-> [added |-> added, deleted |-> deleted]]

Regime(faults, operator, cost) ==
  [runner |-> TRUE, dryRun |-> FALSE, faults |-> faults, operator |-> operator,
   cost |-> cost]

Normal == Regime({"git", "crash"}, FALSE, Each(2, 0))

\* With limits of three lines added and one deleted the patches of the normal
\* regime fit one by one but not together, the others are smaller.
FewConfigs ==
  { Normal, [Normal EXCEPT !.dryRun = TRUE], [Normal EXCEPT !.runner = FALSE],
    Regime({"prune", "crash"}, TRUE, Each(1, 1)),
    Regime({"git", "timeout", "rmtree"}, TRUE, Each(1, 0)),
    Regime({"journal"}, FALSE, Each(1, 0)) }

\* One configuration each for the other runs.
Cleaning == { Regime({}, TRUE, Each(1, 0)) }
Uncleanable == { Regime({"prune"}, FALSE, Each(2, 0)) }
Failing == { Regime({"git", "prune", "crash"}, FALSE, Each(2, 0)) }

Symmetric == Permutations(Txs)
=============================================================================

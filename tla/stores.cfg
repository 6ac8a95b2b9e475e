CONSTANTS
  Txs = {x1, x2, x3}
  Recorded = {x1, x2}
  MaxAdded = 3
  MaxDeleted = 2
  Sizes <- FewSizes
  Validators = {v1, v2}
  Revisions = {r1, r2}
  Healths <- FewHealths
  Checks = {{}, {"behavioral", "regression"}}
  Drives = {"journal", "budget", "baseline"}
SPECIFICATION StoresSpec
INVARIANTS WithinSessionBudget NothingNewBroken
PROPERTIES RewriteKeepsOthers

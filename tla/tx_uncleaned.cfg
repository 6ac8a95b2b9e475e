CONSTANTS
  t1 = t1
  t2 = t2
  c1 = c1
  Txs = {t1, t2}
  UserCommits = {c1}
  NoTx = NoTx
  MaxAdded = 3
  MaxDeleted = 1
  Configs <- Uncleanable
  MaxCrashes = 0
SPECIFICATION Spec
INVARIANTS SessionLimitsHold

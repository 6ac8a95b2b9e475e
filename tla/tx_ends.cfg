CONSTANTS
  t1 = t1
  t2 = t2
  c1 = c1
  Txs = {t1, t2}
  UserCommits = {}
  NoTx = NoTx
  MaxAdded = 3
  MaxDeleted = 1
  Configs <- Failing
  MaxCrashes = 1
SPECIFICATION FairSpec
CHECK_DEADLOCK FALSE
PROPERTIES TransactionsEnd

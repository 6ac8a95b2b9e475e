CONSTANTS
  t1 = t1
  t2 = t2
  c1 = c1
  Txs = {t1, t2}
  UserCommits = {c1}
  NoTx = NoTx
  MaxAdded = 3
  MaxDeleted = 1
  Configs <- FewConfigs
  MaxCrashes = 1
SYMMETRY Symmetric
SPECIFICATION Spec
CHECK_DEADLOCK FALSE
INVARIANTS
  LandedOnBase OutcomeTruthful EndsAsPromised NoResidue
  PendingIsRetained RecordedWorktrees ReservationLifetime LockFollowsThread SpentIsReported
  LandedWithinLimits
PROPERTIES NoRacingMerge ImplementsLog

CONSTANTS
  a = a
  b = b
  redA = redA
  redB = redB
  MaxAttempts = 3
  MaxRetries = 2
  Items = {i1, i2}
  Workers = {w1, w2}
  MaxCrashes = 1
  MaxRuns = 2
  MaxLate = 1
  w1 = w1
  w2 = w2
  Regimes <- FewRegimes
  Plans <- FewPlans
  NoTest = NoTest
  MaxRounds = 2
  Drives = {"recovery", "queue", "coordinator", "command"}
SPECIFICATION CallersSpec
INVARIANTS
  RecoveryTypeOK OneCommitPerTask AnswerTruthful HistoryComplete
  QueueTruthful RunAccounted LandsAsAsked
PROPERTIES LoopEnds ItemsSettle

CONSTANTS
  target = target
  other = other
  red = red
  holdout = holdout
  top = top
  tests = tests
  letter = letter
  Leader = Leader
  Kids = {k1, k2}
  Paths = {target, other, red, holdout}
  RedFile = red
  HoldoutFile = holdout
  Root = top
  DirOf <- Directories
  Begins <- Beginnings
  Tracked = {target, other}
  Symbols = {letter, Cr, Lf}
  Cr = Cr
  Lf = Lf
  NoFile = NoFile
  Disks <- FewDisks
  Hunks <- FewHunks
  MaxHunks = 2
  Setups <- FewSetups
  MaxWrites = 2
  Drives = {"sandbox", "worktree", "patch"}
SPECIFICATION AttemptSpec
CHECK_DEADLOCK FALSE
INVARIANTS
  SurvivorsExplained PassedIsComplete CommitConfined ChangesJudged CommittedAsTested
  EditedInPlace
PROPERTIES CommandReturns

CONSTANTS
  Leader = Leader
  Kids = {k1}
SPECIFICATION SandboxSpec
INVARIANTS NoOrphans
CHECK_DEADLOCK FALSE

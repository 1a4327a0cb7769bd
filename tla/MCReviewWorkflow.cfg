SPECIFICATION Spec
CONSTANTS
  base = base
  good = good
  other = other
  bad = bad
  Batches = {1, 2}
  Packets = {good, other, bad}
  Contents = {good, other, bad}
  Heads = {good}
  Base = base
  Paths <- MCPaths
  TestPaths = {"test"}
  AllowedPaths = {"code", "test"}
  DeniedPaths = {"harness"}
  SensitivePaths = {"secret"}
  Contracted = {good, other}
  MaxChanged = 3
  TreeOf <- MCTree
  Outcomes <- MCOutcomes
  Decisions <- MCDecisions
  TokenLimit = 2
  MaxFaults = 1
  MaxAge = 0
  MaxTime = 1
  MaxEdits = 1
INVARIANTS ChainIntact PaidOnce CleanupExact PassIsEarned
PROPERTY AlwaysForward
CHECK_DEADLOCK FALSE

SPECIFICATION Spec
CONSTANTS
  i1 = i1
  i2 = i2
  p1 = p1
  p2 = p2
  Ready <- MCReady
  Blocking = {3}
  Policies <- MCPolicies
  MaxAttempts = 2
  MaxConsumptions = 2
  SetSize = 2
  MaxConditions = 1
  TTL = 1
  MaxPolls = 1
  MaxCandidates = 2
  MaxCharges = 3
  MaxTokens = 1
  MaxTime = 1
  MaxSetBack = 1
SYMMETRY MCSymmetry
INVARIANTS ValidatorAgrees SearchedAsApproved CallsSettle
CHECK_DEADLOCK FALSE

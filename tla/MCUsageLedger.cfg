SPECIFICATION LedgerSpec
CONSTANTS
    cloudflare = cloudflare
    Providers = {cloudflare}
    Owners = {o1, o2}
    Sessions = {s1, s2}
    Dimensions <- MCDimensions
    Amounts <- MCAmounts
    Policies <- MCPolicies
    Times = {0, 1}
    DayLength = 1
    MaxReservations = 3
INVARIANTS LimitsHold Restorable
PROPERTY StartedStaysCharged
SYMMETRY Symmetry
CHECK_DEADLOCK FALSE

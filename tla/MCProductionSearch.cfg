SPECIFICATION FairSpec
CONSTANTS
    k1 = k1  k2 = k2  j1 = j1  j2 = j2
    Commands = {c1, c2}
    Unbound = {c2}
    Capabilities = {k1, k2}
    Jobs = {j1, j2}
    MaxPolls = 2
    MaxLifetime = 1
    Delays = {1}
    PlanLifetime = 1
    JobRetention = 2
    MaxTime = 2
    MaxExits = 1
CONSTRAINT NamedInOrder
INVARIANTS OncePerCommand SavedFromCompletedTask HistoriesExplained ChargesClosed
PROPERTY RunnerEnds
CHECK_DEADLOCK FALSE

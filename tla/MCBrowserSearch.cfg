SPECIFICATION FairSpec
CONSTANTS
    MaxAttempts = 3
    ApprovalTTL = 1
    MaxPreparations = 2
    MaxCommands = 8
    MaxImageSets = 2
    MaxEvents = 1
    MaxTime = 2
    MaxRevision = 12
INVARIANTS ViewMatchesSearch CancelWins ImageBudget ResultIsKept
PROPERTIES OnlyConfirmedCalls ViewsAreVersioned CommandsEnd
CHECK_DEADLOCK FALSE

SPECIFICATION Spec
CONSTANTS
    MaxAttempts = 3
    ApprovalTTL = 1
    MaxPreparations = 2
    MaxCommands = 8
    MaxImageSets = 2
    MaxEvents = 1
    MaxTime = 1
    MaxRevision = 9
INVARIANTS OffersHonoured
CHECK_DEADLOCK FALSE

SPECIFICATION FairSpec
CONSTANTS
    Locators = {l1, l2}
    Bindings = {b1, b2}
    Clients = {c1}
    Stop = Stop
    FirstLocator = l1
    FirstBinding = b1
    StartWindow = 1
    Retention = 1
    MaxTime = 1
    MaxFaults = 1
INVARIANTS TypeOK RowsValid RunsAtMostOnce AckedCancelWins NoLostJob
PROPERTIES ImplementsLifecycle WorkerDelivers
CONSTRAINT NamedInOrder
CHECK_DEADLOCK FALSE

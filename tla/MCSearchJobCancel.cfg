SPECIFICATION FairSpec
CONSTANTS
    Locators = {l1}
    Bindings = {b1}
    Clients = {c1}
    Stop = Stop
    FirstLocator = l1
    FirstBinding = b1
    StartWindow = 2
    Retention = 1
    MaxTime = 1
    MaxFaults = 0
PROPERTIES CancelCompletes
CHECK_DEADLOCK FALSE

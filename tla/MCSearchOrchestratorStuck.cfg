SPECIFICATION Spec
CONSTANTS
    Threads = {t1, t2}
    MaxAttempts = 2
    MaxConsumptions = 2
    MaxCharges = 4
    MaxGrants = 1
INVARIANTS NeverStuck
CHECK_DEADLOCK FALSE

SPECIFICATION Spec
CONSTANTS
    Threads = {t1, t2}
    MaxAttempts = 2
    MaxConsumptions = 1
    MaxCharges = 4
    MaxGrants = 2
INVARIANTS PaidCallsBounded ChargesClosed
PROPERTY ReplacedStayReplaced
SYMMETRY Symmetry
CHECK_DEADLOCK FALSE

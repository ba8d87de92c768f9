CONSTANTS
    r1 = r1
    r2 = r2
    d1 = d1
    Requests <- OneRequest
    DpsIds <- OneDps
    Concurrency = 1
    MaxRetry = 2
    MaxRequeue = 1
    MaxLate = 1
    Faults <- AllFaults
SPECIFICATION Spec
PROPERTY EveryStepSpends
INVARIANTS TypeOK OutcomeGrounded UnsignedOnlyAfterSigning RetryCountHonest DeliveryGrounded
CHECK_DEADLOCK FALSE

CONSTANTS
    r1 = r1
    r2 = r2
    d1 = d1
    Requests <- TwoRequests
    DpsIds <- OneDps
    Concurrency = 2
    MaxRetry = 1
    MaxRequeue = 0
    MaxLate = 0
    Faults <- SoundStore
SPECIFICATION Spec
INVARIANTS OneOutcomeTold OneSuccessPerDps
PROPERTIES ImplementsContract
SYMMETRY Symmetry
CHECK_DEADLOCK FALSE

CONSTANTS
    r1 = r1
    r2 = r2
    d1 = d1
    Requests <- OneRequest
    DpsIds <- OneDps
    Concurrency = 1
    MaxRetry = 3
    MaxRequeue = 1
    MaxLate = 1
    Faults <- LateAbort
SPECIFICATION Spec
PROPERTIES TerminalIsFinal
CHECK_DEADLOCK FALSE

CONSTANTS
    r1 = r1
    r2 = r2
    d1 = d1
    Requests <- TwoRequests
    DpsIds <- OneDps
    Concurrency = 1
    MaxRetry = 1
    MaxRequeue = 0
    MaxLate = 0
    Faults <- GovOnly
SPECIFICATION FairSpec
PROPERTIES AcceptedSettles SettledIsDelivered
CHECK_DEADLOCK FALSE

CONSTANTS
    r1 = r1
    r2 = r2
    d1 = d1
    Requests <- OneRequest
    DpsIds <- OneDps
    Concurrency = 1
    MaxRetry = 3
    MaxRequeue = 0
    MaxLate = 0
    Faults <- GovOnly
SPECIFICATION Spec
INVARIANTS CertificateMeansSigned
CHECK_DEADLOCK FALSE

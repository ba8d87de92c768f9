CONSTANTS
    q1 = q1
    q2 = q2
    q3 = q3
    a = a
    b = b
    Requests <- ThreeRequests
    Intents <- SomeIntents
    Keys <- TwoKeys
    PrefixOf <- SamePrefix
    RpmOf <- Rpm
    DefaultRpm = 2
    Period = 6
    TicksPerSecond = 2
    Revocable <- OneKey
    MaxTime = 3
    MaxUnanswered = 1
SPECIFICATION Spec
INVARIANTS TypeOK ServedWasActive RateHeld OnlyCreatorSees StatusUrlWorks ClientsOpenWhileServing
PROPERTIES RetryAfterSuffices ShutdownEnds
CHECK_DEADLOCK FALSE

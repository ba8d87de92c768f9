CONSTANTS
    c1 = c1
    c2 = c2
    Calls <- TwoCalls
    DpsOf <- SameDps
    Notified <- OneNotified
    MaxSubmitAttempt = 1
    MaxSendAttempt = 2
SPECIFICATION Spec
INVARIANTS OwnDuplicateAfterRetry SendResultHonest
PROPERTIES ImplementsSubmission CallsReturn
CHECK_DEADLOCK FALSE

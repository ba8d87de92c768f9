CONSTANTS
    RequestSets <- FewRequests
    MaxAmount = 5000
    MaxServiceValue = 1050
    Plans <- AllPlans
    SignerMakes <- SignedBy
    ToolMakes <- Passed
    Verifies <- VerifyDPSSignature
    ValidateCertificate = FALSE
SPECIFICATION IntakeSpec
INVARIANT AcceptedAsSigned
CHECK_DEADLOCK FALSE

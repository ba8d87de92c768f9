CONSTANTS
    RequestSets <- AllRequests
    MaxAmount = 5000
    MaxServiceValue = 1050
    Plans <- AllPlans
    SignerMakes <- SignedBy
    ToolMakes <- Passed
    Verifies <- VerifyDPSSignature
    ValidateCertificate = FALSE
SPECIFICATION IntakeSpec
INVARIANTS
    TypeOK AcceptedIsBuildable TakerIdentified AmountsAddUp AcceptedWithinService
    CompactSignatureHolds  BuilderDigestSurvives RowIsComplete
CHECK_DEADLOCK FALSE

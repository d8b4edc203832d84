SPECIFICATION FairSpec
CONSTANTS
    SuppressMaxSeverity = 5
    NdpiDeliverAll = FALSE
    Tenants = {"default", "acme"}
    Fids = {"f1", "f2"}
    DefaultTenant = "default"
    NoTenant = NoTenant
    Candidates <- ThreeRoutes
    ChEnabled = TRUE
    EchoTenant = TRUE
    Answers = {"result_ok", "result_failed", "armed", "completed", "failed"}
    MaxAnswers = 1
    MaxFinalized = 1
    MaxRestarts = 1
    CanCrash = FALSE
    RecoveryMayFail = FALSE
INVARIANTS
    EvidenceOwnTenant
PROPERTIES
    EveryCandidateFinalized

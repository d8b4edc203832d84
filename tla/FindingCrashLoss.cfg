SPECIFICATION FairSpec
CONSTANTS
    SuppressMaxSeverity = 5
    NdpiDeliverAll = FALSE
    Tenants = {"default"}
    Fids = {"f1"}
    DefaultTenant = "default"
    NoTenant = NoTenant
    Candidates <- OneCapture
    ChEnabled = TRUE
    EchoTenant = FALSE
    Answers = {"result_ok", "failed"}
    MaxAnswers = 1
    MaxFinalized = 1
    MaxRestarts = 1
    CanCrash = TRUE
    RecoveryMayFail = FALSE
PROPERTIES
    EveryCandidateFinalized

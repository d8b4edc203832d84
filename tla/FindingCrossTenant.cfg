SPECIFICATION Spec
CONSTANTS
    SuppressMaxSeverity = 5
    NdpiDeliverAll = FALSE
    Tenants = {"default", "acme"}
    Fids = {"f1"}
    DefaultTenant = "default"
    NoTenant = NoTenant
    Candidates <- SharedId
    ChEnabled = TRUE
    EchoTenant = FALSE
    Answers = {"result_ok", "failed"}
    MaxAnswers = 1
    MaxFinalized = 2
    MaxRestarts = 0
    CanCrash = FALSE
    RecoveryMayFail = FALSE
INVARIANTS
    EvidenceOwnTenant

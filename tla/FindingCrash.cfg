SPECIFICATION Spec
CONSTANTS
    SuppressMaxSeverity = 5
    NdpiDeliverAll = FALSE
    Tenants = {"default"}
    Fids = {"f1"}
    DefaultTenant = "default"
    NoTenant = NoTenant
    Candidates <- Reported
    ChEnabled = TRUE
    EchoTenant = TRUE
    Answers = {"result_ok", "result_failed", "failed"}
    MaxAnswers = 1
    MaxFinalized = 1
    MaxRestarts = 1
    CanCrash = TRUE
    RecoveryMayFail = TRUE
INVARIANTS
    TypeOK
    ObligationsTracked
    RevisionLadder
    SuppressionConsistent

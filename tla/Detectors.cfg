SPECIFICATION MCSpec
CONSTANTS
    Events <- Carvings
    Contents <- Kept
    MaxFileSize = 2
    MaxArchiveDepth = 2
    RetentionDays = 0
    Bundled = {"base"}
    Remote = {"open"}
    Hits <- Matching
    Tenant = "a"
    Actors = {"op", "eve"}
    Authorized = {"op"}
    None = None
    MaxTime = 1
    MaxFaults = 1
    MaxMoves = 2
    FlowReplicas = {r1, r2}
INVARIANTS
    NoFalseExfil
    FieldsCurrent
    EvidenceFresh
    EmittedOnce
    LiveSetsIndexed
    NoveltyJustified
    NoveltyReported
    OnlyPromotedRulesAct
    CommittedLinked
    ScansAccounted
SYMMETRY Symmetry
CHECK_DEADLOCK FALSE

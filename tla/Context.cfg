SPECIFICATION MCSpec
CONSTANTS
    Feeds <- TwoFeeds
    Published <- Rounds
    Indicators = {"hash", "net", "ip"}
    Hashes = {"hash"}
    Networks <- Ranges
    None = None
    Unresolved = Unresolved
    HourLength = 3
    SeenMax = 1
    MaxRedirects = 1
    MaxTime = 2
    MaxFaults = 1
    MaxEvents = 2
    MaxSuppressions = 1
INVARIANTS
    StoreFollowsFeeds
    CredentialsProtected
    HitsFollowPolicy
    HuntExact
    OwnershipAgrees
    EvidenceDurable
    RestsOnRecentFindings
    SavedIsKept
    NoEarlyClose
PROPERTY HistoryStands
CHECK_DEADLOCK FALSE

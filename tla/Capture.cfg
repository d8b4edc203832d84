SPECIFICATION MCSpec
CONSTANTS
    Intents <- Repeated
    Sensors = {"s1"}
    Hour = 2
    Lifetime = 1
    Lookback = 1
    RingSecs = 2
    RingSlots = 1
    PolicyExpires = 3
    MaxJobs = 1
    RequestsPerHour = 2
    BytesPerHour = 2
    TenantBytes = 1
    MaxTime = 3
    MaxFaults = 1
INVARIANTS
    HourlyBytes
    PreservedOnce
    DirectivesReserved
    BudgetCoversOutstanding
    EnrichedFromOwnTenant
PROPERTIES
    IntentsAnswered
    EveryRequestAnswered
CHECK_DEADLOCK FALSE

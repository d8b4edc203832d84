SPECIFICATION Spec
CONSTANTS
    Requests <- Pair
    Sensors = {"s1"}
    Profiles = {"ip", "sni"}
    MaxJobs = 2
    MaxBytes = 2
    LocalMax = 2
    MaxCrashes = 0
INVARIANTS
    SliceIsolated
CHECK_DEADLOCK FALSE

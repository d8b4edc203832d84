SPECIFICATION Spec
CONSTANTS
    Topic <- OnePartition
    SinkNames <- OneSink
    Retries = 0
    MaxPoll = 1
    MaxFaults = 1
    MaxReplays = 0
    None = None
INVARIANTS
    CommittedNeverLost
CHECK_DEADLOCK FALSE

SPECIFICATION FairSpec
CONSTANTS
    Topic <- SharedTopic
    SinkNames <- TwoSinks
    Retries = 1
    MaxPoll = 2
    MaxFaults = 1
    MaxReplays = 1
    None = None
INVARIANTS
    CommittedHandled
PROPERTIES
    TerminalNotResent
    EventuallyHandled
CHECK_DEADLOCK FALSE

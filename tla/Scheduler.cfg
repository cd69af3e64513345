CONSTANTS
    Task = {t1, t2}
    Capacity = 1
    Delays = {1, 2}
    BaseDelay = 1
    Multiplier = 2
    MaxDelay = 2
    JitterPercent = 50
    MaxRetries = 1
    PollInterval = 2
    FullDelay = 1
    MaxTime = 3
SPECIFICATION FairSpec
INVARIANTS
    NoOversleep
PROPERTIES
    DueIsPromoted
    StopEnds
CHECK_DEADLOCK FALSE

CONSTANTS
    Policies = {"every", "batch", "none"}
    BufSize = 4
    IOFaults = TRUE
    MaxAppends = 3
    MaxCrashes = 2
    MaxRotations = 1
SPECIFICATION Spec
INVARIANTS
    AckedDurable
    SeqIncreasing
    
    CloseKeepsAll
    DamageReported
    LengthNeverMisread
PROPERTIES
    ImplementsLog
CHECK_DEADLOCK FALSE

CONSTANTS
    t1 = t1
    t2 = t2
    t3 = t3
    k = k
    w1 = w1
    w2 = w2
    none = none
    Task <- TwoTasks
    Key = {k}
    None = none
    KeyOf <- NoKeys
    Delayed <- JustT1
    Expiring <- JustT1
    Cancellable <- Nobody
    Worker <- OneWorker
    Capacity = 2
    Policy = "reject"
    MaxRetries = 1
    Outcomes <- AllOutcomes
    Checkpointing = FALSE
    IOFaults = FALSE
    TimeoutsExpire = FALSE
    MaxCrashes = 1
    MaxStops = 1
    MaxEnds = 1
SPECIFICATION FairSpec
INVARIANTS
    CleanStopSaves
    NoOrphan
PROPERTIES
    ShutdownCompletes
    AckedFinishes
CHECK_DEADLOCK FALSE

CONSTANTS
    t1 = t1
    t2 = t2
    t3 = t3
    k = k
    w1 = w1
    w2 = w2
    none = none
    Task <- TwoTasks
    Key = {k}
    None = none
    KeyOf <- NoKeys
    Delayed <- JustT2
    Expiring <- Nobody
    Cancellable <- JustT1
    Worker <- OneWorker
    Capacity = 2
    Policy = "reject"
    MaxRetries = 1
    Outcomes <- OkErr
    Checkpointing = FALSE
    IOFaults = FALSE
    TimeoutsExpire = FALSE
    MaxCrashes = 0
    MaxStops = 0
    MaxEnds = 0
SPECIFICATION Spec
INVARIANTS
    NoOrphan
CHECK_DEADLOCK FALSE

CONSTANTS
    t1 = t1
    t2 = t2
    t3 = t3
    k = k
    w1 = w1
    w2 = w2
    none = none
    Task <- TwoTasks
    Key = {k}
    None = none
    KeyOf <- SameKey
    Delayed <- Nobody
    Expiring <- Nobody
    Cancellable <- Nobody
    Worker <- TwoWorkers
    Capacity = 2
    Policy = "reject"
    MaxRetries = 1
    Outcomes <- OnlyErr
    Checkpointing = TRUE
    IOFaults = TRUE
    TimeoutsExpire = FALSE
    MaxCrashes = 0
    MaxStops = 0
    MaxEnds = 0
SPECIFICATION Spec
INVARIANTS
    
    AckedOnDisk
    UniqueKey
SYMMETRY TaskSymmetry
CHECK_DEADLOCK FALSE

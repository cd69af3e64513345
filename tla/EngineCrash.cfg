CONSTANTS
    t1 = t1
    t2 = t2
    t3 = t3
    k = k
    w1 = w1
    w2 = w2
    none = none
    Task <- ThreeTasks
    Key = {k}
    None = none
    KeyOf <- PairKey
    Delayed <- Nobody
    Expiring <- Nobody
    Cancellable <- Nobody
    Worker <- OneWorker
    Capacity = 1
    Policy = "reject"
    MaxRetries = 1
    Outcomes <- OkErr
    Checkpointing = FALSE
    IOFaults = FALSE
    TimeoutsExpire = FALSE
    MaxCrashes = 2
    MaxStops = 0
    MaxEnds = 2
SPECIFICATION Spec
INVARIANTS
    TypeOK
    AckedRecoverable
    FinishedNotRequeued
    
    DLQComplete
    UniqueKey
SYMMETRY PairSymmetry
CHECK_DEADLOCK FALSE

CONSTANTS
    t1 = t1
    t2 = t2
    t3 = t3
    k = k
    w1 = w1
    w2 = w2
    none = none
    Task <- TwoTasks
    Key = {k}
    None = none
    KeyOf <- NoKeys
    Delayed <- JustT2
    Expiring <- JustT2
    Cancellable <- JustT1
    Worker <- OneWorker
    Capacity = 1
    Policy = "reject"
    MaxRetries = 1
    Outcomes <- OnlyErr
    Checkpointing = FALSE
    IOFaults = FALSE
    TimeoutsExpire = FALSE
    MaxCrashes = 1
    MaxStops = 0
    MaxEnds = 1
SPECIFICATION Spec
INVARIANTS
    ExclusiveOwnership
    FinishedNotRequeued
CHECK_DEADLOCK FALSE

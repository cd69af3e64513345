CONSTANTS
    t1 = t1
    t2 = t2
    t3 = t3
    k = k
    w1 = w1
    w2 = w2
    none = none
    Task <- OneTask
    Key = {k}
    None = none
    KeyOf <- NoKeys
    Delayed <- Nobody
    Expiring <- Nobody
    Cancellable <- Nobody
    Worker <- OneWorker
    Capacity = 2
    Policy = "reject"
    MaxRetries = 1
    Outcomes <- OnlyOk
    Checkpointing = TRUE
    IOFaults = TRUE
    TimeoutsExpire = TRUE
    MaxCrashes = 1
    MaxStops = 1
    MaxEnds = 2
SPECIFICATION Spec
INVARIANTS
PROPERTIES
    AckedStaysInSnapshot
CHECK_DEADLOCK FALSE

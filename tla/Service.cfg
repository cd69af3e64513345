CONSTANTS
    Burst = 1
    Rate = 1
    Unit = 2
    MaxTime = 2
    Task = {t1, t2}
    Worker = {w1, w2}
    Capacity = 1
    MaxRetries = 1
    PageSize = 1
    MaxInvalid = 1
SPECIFICATION Spec
INVARIANTS
    RateBound
    RefusedOnlyAtBound
    Conservation
    StatsConsistent
    
    PagesInOrder
CHECK_DEADLOCK FALSE

CONSTANTS
    t1 = t1
    t2 = t2
    t3 = t3
    t4 = t4
    t5 = t5
    t6 = t6
    Task <- SixTasks
    Time = {1, 2, 3}
    RemoveFresh = FALSE
SPECIFICATION Spec
INVARIANTS
    WellFormed
PROPERTIES
    ImplementsSet
SYMMETRY Symmetry

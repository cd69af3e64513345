CONSTANTS
    t1 = t1
    t2 = t2
    p1 = p1
    p2 = p2
    c1 = c1
    c2 = c2
    nil = nil
    Nil = nil
    Task <- TwoTasks
    Producer <- TwoProducers
    Consumer <- TwoConsumers
    Cap = 2
SPECIFICATION FairSpec
INVARIANTS
    TypeOK
    LiveWindow
    CloseReleasesAll
    NoLostWakeup
PROPERTIES
    ImplementsFIFO
    HeadTaken

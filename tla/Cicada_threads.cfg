CONSTANTS
    THREAD_NUM = 2
    TUPLE_NUM = 6
    SmallTable = 5
    Cores <- SomeCores
    Skew = 1
    BuildTime = 2
    MaxClock = 64
    Programs <- TwoPrograms
    Quota <- LeaderTwice
SPECIFICATION FairSpec
INVARIANTS
    TypeOK
    TableBuilt
    TimestampsOrdered
    SnapshotsBelow
PROPERTIES
    RmwMarked
    EveryThreadEnds
CHECK_DEADLOCK FALSE

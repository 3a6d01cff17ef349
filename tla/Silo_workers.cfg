CONSTANTS
    TidMod = 16
    EpochMod = 8
    NoTxn = NoTxn
    Workers = {w0, w1}
    Leader = w0
    Keys = {1, 2}
    Programs <- MixedSteps
    Quota <- LeaderTwice
    MaxEpoch = 2
    InitialTids = {2}
SPECIFICATION FairSpec
INVARIANTS
    TypeOK
    EpochLag
    EpochsOrderConflicts
    WorkerTidsGrow
    RestingTable
    Serializable
PROPERTIES
    ImplementsStore
    EveryWorkerStops
CHECK_DEADLOCK FALSE

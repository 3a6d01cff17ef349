CONSTANTS
    c1 = c1
    c2 = c2
    NumWorkers = 2
    Clients = {c1, c2}
    Quota <- OneEach
    EpochMod = 2
    MaxIncrements = 1
    TidMod = 8
    NoTxn = NoTxn
    Keys = {1}
    Programs <- OneAccount
SPECIFICATION BoundedSystem
INVARIANTS
    TypeOK
    EveryQueryCounted
    EpochsAdvertised
    SettledAtReturn
PROPERTIES
    TerminateReturns
    QueriesRun
CHECK_DEADLOCK FALSE

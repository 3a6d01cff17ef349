CONSTANTS
    TidMod = 8
    EpochMod = 1
    Txns = {t1, t2, t3}
    NoTxn = NoTxn
    Keys = {1, 2}
    Programs <- Transfers
SPECIFICATION FairSpec
INVARIANT Serializable
PROPERTY EveryQueryEnds
CHECK_DEADLOCK FALSE

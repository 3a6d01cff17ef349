CONSTANTS
    TidMod = 8
    EpochMod = 1
    Txns = {t1, t2}
    NoTxn = NoTxn
    Keys = {1}
    Programs <- Rewrites
SPECIFICATION FairSpec
PROPERTY EveryQueryEnds
CHECK_DEADLOCK FALSE

CONSTANTS
    TidMod = 8
    EpochMod = 3
    Txns = {t1, t2}
    NoTxn = NoTxn
    Keys = {1, 2}
    Programs <- Transfers
SPECIFICATION Spec
INVARIANT Serializable
CHECK_DEADLOCK FALSE

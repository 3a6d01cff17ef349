CONSTANTS
    TidMod = 8
    EpochMod = 2
    Txns = {t1, t2, t3}
    NoTxn = NoTxn
    Keys = {1, 2}
    Programs <- MixedPrograms
SPECIFICATION Spec
SYMMETRY TxnSymmetry
INVARIANTS
    TypeOK
    LocksOwned
    NoWaitCycle
    SnapshotReads
    SerializableButForCollisions
PROPERTY TidsGrow
CHECK_DEADLOCK FALSE

CONSTANTS
    Order = 3
    Keys <- MixedKeys
    Offered <- OwnValue
SPECIFICATION Spec
INVARIANTS
    TypeOK
    ChildrenKnowTheirParents
    LeavesLinked
    LookupsEnd
    NothingDropped
CONSTRAINT FewOrders

CONSTANTS
    Orders = {3, 4}
    Keys <- SomeKeys
    Offered <- OneKeyChanges
    Preloaded = 8
SPECIFICATION BothSpec
INVARIANTS
    TypeOK
    WellFormed
    Linked
    NothingLeaked
    RangesFromKeys
    LevelsPrinted
PROPERTIES
    ImplementsMap
CONSTRAINT FewKeys
VIEW TreeView

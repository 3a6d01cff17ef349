CONSTANTS
    Orders = {4}
    Keys <- SomeKeys
    Offered <- OneKeyChanges
    Preloaded = 8
SPECIFICATION BothSpec
INVARIANT RangesInclusive
VIEW TreeView

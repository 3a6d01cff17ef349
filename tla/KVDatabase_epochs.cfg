CONSTANTS
    c1 = c1
    c2 = c2
    NumWorkers = 1
    Clients = {c1}
    Quota <- TwoAndOne
    EpochMod = 4
SPECIFICATION Spec
INVARIANT EpochLag
CHECK_DEADLOCK FALSE

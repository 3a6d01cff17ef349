CONSTANTS
    Order = 16
    Keys <- TestKeys
    Offered <- OnlyValue
SPECIFICATION Spec
INVARIANT SplitTest
CONSTRAINT InTestOrder

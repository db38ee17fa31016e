SPECIFICATION AdakSpec
CONSTANTS
    Peers = {1, 2, 3, 4}
    MaxRatio = 3
    Held = 2
    Threshold = 3
INVARIANT SharesTypeOK
INVARIANT RightOnesServed
PROPERTY AdakEnds
CHECK_DEADLOCK FALSE

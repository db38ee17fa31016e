SPECIFICATION SetupSpec
CONSTANTS
    Nodes = {n1, n2, n3}
    PERCENT_CONNECTED = 1000
CHECK_DEADLOCK FALSE
INVARIANT AllVisibleConnected

SPECIFICATION Spec
CONSTANTS
    N = 3
    MaxKey = 7
    Latency = 2
    FinestStride = 4
    HeartbeatFrequency = 2
    SimLength = 7
    RunEvents = FALSE
    MaxOutages = 0
    JoinOrder <- Reversed
    Links <- FullLinks
    Consumers = {3}
CHECK_DEADLOCK FALSE
INVARIANT TypeOK
PROPERTY ImplementsLedger
PROPERTY NothingResent
PROPERTY HeardInOrder

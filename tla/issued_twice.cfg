SPECIFICATION Spec
CONSTANTS
    N = 2
    MaxKey = 7
    Latency = 1
    FinestStride = 1
    HeartbeatFrequency = 1
    SimLength = 7
    RunEvents = TRUE
    MaxOutages = 1
    JoinOrder <- InOrder
    Links <- FullLinks
    Consumers = {1, 2}
CHECK_DEADLOCK FALSE
INVARIANT IssuedOnce

SPECIFICATION Spec
CONSTANTS
    N = 3
    MaxKey = 31
    Latency = 1
    FinestStride = 1
    HeartbeatFrequency = 2
    SimLength = 10
    RunEvents = TRUE
    MaxOutages = 1
    JoinOrder <- InOrder
    Links <- FullLinks
    Consumers = {}
CHECK_DEADLOCK FALSE
INVARIANT NoKeyLost

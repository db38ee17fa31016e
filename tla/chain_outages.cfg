SPECIFICATION FairSpec
CONSTANTS
    N = 3
    MaxKey = 31
    Latency = 2
    FinestStride = 2
    HeartbeatFrequency = 1
    SimLength = 9
    RunEvents = TRUE
    MaxOutages = 1
    JoinOrder <- InOrder
    Links <- ChainLinks
    Consumers = {}
CHECK_DEADLOCK FALSE
INVARIANT NeverPastEnd
INVARIANT RatiosReadable
INVARIANT KeyspaceComplete
PROPERTY EveryNodeProvisioned

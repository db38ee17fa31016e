SPECIFICATION FairSpec
CONSTANTS
    N = 2
    MaxKey = 7
    Latency = 1
    FinestStride = 1
    HeartbeatFrequency = 2
    SimLength = 16
    RunEvents = TRUE
    MaxOutages = 4
    JoinOrder <- InOrder
    Links <- FullLinks
    Consumers = {2}
CHECK_DEADLOCK FALSE
INVARIANT NoKeyLost
PROPERTY GiveAfterHeard
PROPERTY ProvisionedAfterOutages

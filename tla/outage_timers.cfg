SPECIFICATION FairSpec
CONSTANTS
    Nodes = {n1, n2}
    MaxOnline = 3
    MaxOffline = 2
    Rollover = 9
    LastTick = 10
INVARIANT TypeOK
INVARIANT OnePeriodAtATime
PROPERTY AlwaysBack
PROPERTY ImplementsAvailability

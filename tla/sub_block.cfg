SPECIFICATION FairSpec
CONSTANTS
    MaxKey = 15
    Wanted = 4
    IntMax = 15
    MaxBlocks = 4
CHECK_DEADLOCK FALSE
INVARIANT TypeOK
INVARIANT EachKeyOnce
INVARIANT EnoughListed
INVARIANT SendsWhatIsListed
PROPERTY Ends

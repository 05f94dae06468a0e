CONSTANTS
    s1 = s1
    s2 = s2
    Sidecars <- TwoSidecars
    Databases <- Released
    MaxStarts = 3

SPECIFICATION FairSpec
INVARIANTS
    SchemaBeforeWork
PROPERTIES
    OneUpgrade
    LosesOnlyToAWinner
    EveryBootstrapEnds
CHECK_DEADLOCK FALSE

CONSTANTS
    RollBytes = 2
    HardLimit = 4
    Overhead = 0
    Kinds <- MCKinds
    MaxOffers = 3
    MaxParts = 3
SPECIFICATION FairSpec
INVARIANTS CloseDurable NoPictureForgotten Continuous
PROPERTIES Progress
CHECK_DEADLOCK FALSE

SPECIFICATION Spec
CONSTANTS
    Targets = {"app", "mt11", "a8", "zr10", "ax"}
    Streams = 3
    MaxOpens = 2
    Table <- TwoRows
    BatchSteps = 2
    CoarseStep = 3
    Peaks = {0, 4, 7}
    MaxFaults = 2
    MaxFocusCommands = 3
    Parts = 2
    Urbs = 2
    MaxFrames = 3
    MaxLost = 2
    MaxServed = 1
    Callers = {"main", "monitor"}
    TuneAfter = 2
    Attempts = 2
    Looks = 1
    Images = {"a", "b"}
    Crops = {1, 2}
    MaxOrders = 2
    MaxFiles = 1
    TopZoom = 2
    RangeInterval = 2
    MaxAsks = 2
INVARIANTS CleanedUp LensKnown SearchFindsPeak ThermalWhole TapeDecodable SigmaHonest RefusalHarmless NoPingPong
PROPERTIES CleanupEnds CloseEnds
CHECK_DEADLOCK FALSE

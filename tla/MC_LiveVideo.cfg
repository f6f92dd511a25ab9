CONSTANTS
    v1 = v1
    v2 = v2
    Streams <- OneStream
    Viewers <- TwoViewers
    MaxAccepts = 2
    MaxFrames = 2
    MaxFormats = 2
SPECIFICATION FairSpec
INVARIANTS NoUseAfterFree
PROPERTIES Served
CHECK_DEADLOCK FALSE

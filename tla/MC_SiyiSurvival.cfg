CONSTANTS
    o1 = o1
    o2 = o2
    Slots <- MCSlots
    Addresses <- MCAddresses
    Opcodes <- OneOpcode
    Lengths <- SomeLengths
    OutputBuffer = 4
    MaxPending = 1
    InputPackets = 2
    MaxGeneration = 1
    MaxRequests = 1
SPECIFICATION Spec
INVARIANTS ServerSurvives
CHECK_DEADLOCK FALSE

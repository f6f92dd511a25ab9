CONSTANTS
    o1 = o1
    o2 = o2
    Slots <- MCSlots
    Addresses <- MCAddresses
    Opcodes <- MCOpcodes
    Lengths <- TwoLengths
    OutputBuffer = 2
    MaxPending = 2
    InputPackets = 1
    MaxGeneration = 2
    MaxRequests = 2
SPECIFICATION Spec
INVARIANTS RepliesToAsker OutputFits
PROPERTIES AnswersInOrder
CHECK_DEADLOCK FALSE
SYMMETRY OpcodeSymmetry

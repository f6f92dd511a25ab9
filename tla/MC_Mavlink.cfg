SPECIFICATION MavlinkSpec
CONSTANTS
    Clients = 2
    Addresses = {1}
    Values = 2
    MaxConns = 2
    MaxMessages = 3
    UartOutput = 5
    MessageSizes = {2, 3}
    MaxQueued = 5
    ZoomMax = 3
    Counts = {0, 1, 3}
    Intervals = {0, 2}
    MaxCameraNow = 5
    MaxCommands = 3
    FtpClients = {"a", "b"}
    FtpIds = {0, 1}
    Sessions = 2
    Expiry = 1
    MaxFtpNow = 3
    QUEUE_SIZE = 2
    Retries = 2
    MaxGiven = 4
    MaxLinkFaults = 1
    MaxClock = 2
    MaxQueuedBytes = 4
    MaxQueuedFrames = 3
    Lengths = {1, 3, 5}
    MaxPushes = 6
    Hold = 1
    MaxUpsets = 2
INVARIANTS RoutesCurrent StreamWhole CommandsExact SessionKept SignedInOrder Decodable
PROPERTIES KeepsNewest TargetReached SendsInOrder CloseTerminates
CHECK_DEADLOCK FALSE

SPECIFICATION ControlSpec
CONSTANTS
    Lease = 4
    Pulse = 2
    Retry = 1
    Reopen = 4
    PublicPath = TRUE
    MaxCommands = 4
    Zooms = {1, 2, 4}
    Crossover = 3
    Configs = {"a", "b"}
    Ports = 2
    MaxMediaCommands = 3
INVARIANTS NoRunaway Exclusive Mt11Honest
PROPERTIES Progress
CHECK_DEADLOCK FALSE

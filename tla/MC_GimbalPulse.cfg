SPECIFICATION Spec
CONSTANTS
    Lease = 4
    Pulse = 2
    Retry = 1
    Reopen = 4
    PublicPath = TRUE
    MaxCommands = 4
INVARIANTS PulseBounded
CHECK_DEADLOCK FALSE

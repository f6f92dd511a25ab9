SPECIFICATION MediaSpec
CONSTANTS
    Zooms = {1, 2, 4}
    Crossover = 3
    Configs = {"a"}
    Ports = 1
    MaxMediaCommands = 2
INVARIANT ViewReported
CHECK_DEADLOCK FALSE

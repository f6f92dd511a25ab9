SPECIFICATION Spec
CONSTANTS
    Workers = {"w1", "w2"}
    Keys = {"k1", "k2"}
    Root = "k1"
    Images = {"i1", "i2"}
    CardFiles <- Zr10CardFiles
    MaxSessions = 2
    Lifetime = 1
    MaxNow = 1
    MaxRequests = 2
    MaxFaults = 1
    Restarters = {"w1", "w2"}
    MaxRestarts = 3
    MaxMishaps = 1
    Editors = {"w1"}
    MaxSaves = 2
    MaxSets = 1
    MaxToggles = 1
    MaxErrors = 2
INVARIANTS AccessHonest RestartHonest
PROPERTIES RestartServed ConfigSynced
CHECK_DEADLOCK FALSE

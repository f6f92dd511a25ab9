SPECIFICATION FairSpec
CONSTANTS
    QueueSize = 4
    BufferSize = 2
    HeaderRecords = 1
    MaxSessions = 2
    MaxSamples = 1
INVARIANTS FilesFaithful SessionDurable
PROPERTIES Progress

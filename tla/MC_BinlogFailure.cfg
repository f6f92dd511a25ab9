SPECIFICATION Spec
CONSTANTS
    QueueSize = 5
    BufferSize = 2
    HeaderRecords = 1
    MaxSessions = 2
    MaxSamples = 1
PROPERTIES
    FailureIsItsOwn

SPECIFICATION FairSpec
CONSTANTS
    s1 = s1
    Streams <- MCStreams
    MaxEvents = 3
    LostWorkers = 1
    ReporterRetries = 1
    FailureStage = "error"
    IdleLimit = 2
PROPERTIES
    LiveIsNew
    StreamEnds
CHECK_DEADLOCK FALSE

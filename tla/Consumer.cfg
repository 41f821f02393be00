SPECIFICATION FairSpec
CONSTANTS
    LogEnd = 5
    SystemEvents = {1}
    BatchSizes = {0, 2}
    Intervals = {TRUE, FALSE}
    MaxInFlight = 2
    MaxFailures = 1
    MaxFlushes = 2
    MaxRestarts = 1
    MaxCloses = 1
INVARIANTS
    TypeOK
    NoEventLost
    ExactFrontier
PROPERTIES
    CloseStoresFrontier
    CheckpointIsProgress
    StoredUnlessFailed
    EventuallyCaughtUp
CHECK_DEADLOCK FALSE

SPECIFICATION RetryingSpec
CONSTANTS
    LogEnd = 5
    SystemEvents = {1}
    BatchSizes = {2}
    Intervals = {TRUE}
    MaxInFlight = 2
    MaxFailures = 1
    MaxFlushes = 1
    MaxRestarts = 0
    MaxCloses = 0
PROPERTY
    EventuallyStored
CHECK_DEADLOCK FALSE

SPECIFICATION Spec
CONSTANTS
    LogEnd = 5
    SystemEvents = {1}
    BatchSizes = {2}
    Intervals = {FALSE}
    MaxInFlight = 2
    MaxFailures = 0
    MaxFlushes = 1
    MaxRestarts = 0
    MaxCloses = 0
INVARIANT
    BatchBoundsUncommitted
CHECK_DEADLOCK FALSE

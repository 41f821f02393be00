SPECIFICATION FairSpec
CONSTANTS
    Instances = {"i1", "i2"}
    Log = {0, 1, 2}
    LogEnd = 3
    SystemEvents = {1}
    Limits = {Unlimited, 0, 1}
    Unlimited = Unlimited
    Stores = {TRUE, FALSE}
    MaxRuns = 2
    MaxErrors = 1
    MaxFailures = 1
INVARIANTS
    TypeOK
    NoEventLost
    AtMostOneRepeated
PROPERTIES
    CheckpointMovesForward
    StopsWhenCancelled
    HandlesEverything
CHECK_DEADLOCK FALSE

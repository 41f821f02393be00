SPECIFICATION FairSpec
CONSTANTS
    Instances = {"i1", "i2"}
    Log = {"e1", "$metadata"}
    SystemEvents = {"$metadata"}
    Limits = {Unlimited, 0, 1}
    Unlimited = Unlimited
    MaxRuns = 2
    MaxErrors = 1
    MaxLost = 1
    MaxTimeouts = 1
INVARIANTS
    TypeOK
    AckedIsHandled
    RepeatedForAReason
PROPERTIES
    EverythingAcked
    StopsWhenCancelled
CHECK_DEADLOCK FALSE

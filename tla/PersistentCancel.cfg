SPECIFICATION FairSpec
CONSTANTS
    Instances = {"i1", "i2"}
    Log = {"e1", "$metadata"}
    SystemEvents = {"$metadata"}
    Limits = {1}
    Unlimited = Unlimited
    MaxRuns = 2
    MaxErrors = 0
    MaxLost = 0
    MaxTimeouts = 0
INVARIANT
    ProcessedBeforeAnswered
CHECK_DEADLOCK FALSE

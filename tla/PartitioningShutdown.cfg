SPECIFICATION FairSpec
CONSTANTS
    Callers = {"c1"}
    Keys = {"k1", "k2"}
    Count = 2
    HashKey <- MCHashKey
    Capacity = 1
    MaxCalls <- MCMaxCalls
    None = None
INVARIANT
    CleanShutdown
CHECK_DEADLOCK FALSE

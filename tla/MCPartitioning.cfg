SPECIFICATION FairSpec
CONSTANTS
    Callers = {"c1", "c2"}
    Keys = {"k1", "k2"}
    Count = 2
    HashKey <- MCHashKey
    Capacity = 1
    MaxCalls <- MCMaxCalls
    None = None
INVARIANTS
    TypeOK
    KeyOrder
    AnswerIsOfHandler
    HandledOnce
PROPERTIES
    AcceptedIsHandled
    CallsReturn
CHECK_DEADLOCK FALSE

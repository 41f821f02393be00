SPECIFICATION FairSpec
CONSTANTS
    Streams = {"s1", "s2"}
    Payloads = {"booked", "paid", "cancelled", "note"}
    Registered = {"booked", "paid", "cancelled"}
    Commands = {"book", "bookPaid", "pay", "cancel", "note", "unknown"}
    NoCommand = NoCommand
    Callers = {"f1", "f2"}
    AggCallers = {"a1"}
    Handlers <- MCHandlers
    Act <- MCAct
    Batches <- MCBatches
    MaxEvents = 2
INVARIANTS
    TypeOK
    NoLostUpdate
    AnswersAreCurrent
    GlobalOrder
    NoSpuriousConflict
PROPERTIES
    CommandsAreAtomic
    CallsReturn
CHECK_DEADLOCK FALSE

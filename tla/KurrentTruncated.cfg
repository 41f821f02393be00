SPECIFICATION ComparedSpec
CONSTANTS
    Streams = {"s1"}
    Payloads = {"opened", "used", "noted"}
    GoTypes = {"opened", "used", "noted"}
    Names = {"Opened", "Used", "Noted"}
    TypeOf <- MCTypeOf
    Misread = Misread
    Initially <- MCInitially
    Foreign <- MCForeign
    Commands = {"open", "use", "note", "unknown"}
    NoCommand = NoCommand
    Callers = {"f1", "f2"}
    AggCallers = {}
    Handlers <- MCHandlers
    Act <- MCAct
    Batches <- MCBatches
    Maintainers = {"m1"}
    Positions = {0, 1, 2}
    MaxEvents = 3
    MaxMaintained = 2
    MaxFailures = 1
INVARIANT
    LoadedAtLastEvent
CHECK_DEADLOCK FALSE

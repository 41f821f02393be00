SPECIFICATION ComparedSpec
CONSTANTS
    Streams = {"s1"}
    Payloads = {"opened", "used", "noted"}
    GoTypes = {"opened", "used", "noted"}
    Names = {"Opened", "Used", "Noted"}
    TypeOf <- MCTypeOf
    Misread = Misread
    Initially <- MCInitially
    Foreign <- MCForeign
    Commands = {"open", "use", "note"}
    NoCommand = NoCommand
    Callers = {f1, f2}
    AggCallers = {}
    Handlers <- MCHandlers
    Act <- MCAct
    Batches <- MCBatches
    Maintainers = {"m1"}
    Positions = {1, 2}
    MaxEvents = 2
    MaxMaintained = 2
    MaxFailures = 1
SYMMETRY MCCallers
INVARIANTS
    ComparedTypeOK
    DecidedOnWholeStream
    NoSpuriousConflict
    StandsIn
CHECK_DEADLOCK FALSE

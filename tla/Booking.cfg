SPECIFICATION BookingSpec
CONSTANTS
    Streams = {"b1", "b2"}
    Guests = {"g1"}
    Prices = {2}
    Amounts = {1}
    Payloads <- MCPayloads
    GoTypes = {"RoomBooked", "PaymentRecorded", "BookingCancelled"}
    Names = {"RoomBooked", "PaymentRecorded", "BookingCancelled", "GuestMoved"}
    TypeOf <- TypeOfEvent
    Misread = Misread
    Initially <- DomainTypeMap
    Foreign <- MCForeign
    Commands <- BookingCommands
    NoCommand = NoCommand
    NoBooking = NoBooking
    Callers = {"f1", "f2"}
    AggCallers = {}
    Handlers <- BookingHandlers
    Act <- BookingAct
    Batches <- MCBatches
    Maintainers = {}
    Positions = {}
    MaxEvents = 3
    MaxMaintained = 0
    MaxFailures = 0
    MaxRestarts = 1
INVARIANTS
    BookingTypeOK
    BookingRules
    ReadModelAgrees
    ServerErrorsAreFaults
PROPERTY
    ReadModelCatchesUp
CHECK_DEADLOCK FALSE

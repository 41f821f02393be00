------------------------------ MODULE Booking ------------------------------
(***************************************************************************)
(* samples/booking: an HTTP server whose requests are commands of the      *)
(* functional service over KurrentDB, and a catch-up subscription to $all  *)
(* that keeps a read model in memory.  Each HTTP request is served by a    *)
(* caller of the service.  The process may be interrupted, die and be      *)
(* started again; nobody deletes, truncates or registers anything.         *)
(*                                                                         *)
(* A booking's identifier stands for its stream, "Booking-" and the        *)
(* identifier.  Dates, rooms, currencies and reasons are left out.         *)
(***************************************************************************)
EXTENDS KurrentCommands, FiniteSets

CONSTANTS Guests, Prices, Amounts,
          NoBooking,     \* what the read model has of a booking it does not know
          MaxRestarts    \* how often the process may be started again

ASSUME BookingAssumption ==
    /\ Prices \subseteq Int /\ Amounts \subseteq Int /\ MaxRestarts \in Nat
    /\ Maintainers = {} /\ MaxMaintained = 0

BookingEvents ==
    [type : {"RoomBooked"}, booking : Streams, guest : Guests, price : Prices]
      \union [type : {"PaymentRecorded"}, booking : Streams, amount : Amounts]
      \union [type : {"BookingCancelled"}, booking : Streams]

\* An event of another program, of a type this one does not know.
GuestMoved == [type |-> "GuestMoved"]

TypeOfEvent(event) == event.type

DomainTypes == {"RoomBooked", "PaymentRecorded", "BookingCancelled"}

\* NewTypeMap of the domain: each type under its own name.
DomainTypeMap == [t \in DomainTypes |-> t]

\* BookingState, and the BookingDocument of the read model: the same fields.
BookingStates ==
    [booking : Streams, guest : Guests, price : Int, outstanding : Int,
     paid : BOOLEAN, cancelled : BOOLEAN]

\* What a RoomBooked begins.
NewBooking(e) ==
    [booking |-> e.booking, guest |-> e.guest, price |-> e.price,
     outstanding |-> e.price, paid |-> FALSE, cancelled |-> FALSE]

ZeroState ==
    [booking |-> NoBooking, guest |-> NoBooking, price |-> 0, outstanding |-> 0,
     paid |-> FALSE, cancelled |-> FALSE]

BookingFold(state, e) ==
    CASE e.type = "RoomBooked"       -> NewBooking(e)
      [] e.type = "PaymentRecorded"  ->
           LET due == state.outstanding - e.amount
           IN  [state EXCEPT !.outstanding = due, !.paid = @ \/ due <= 0]
      [] e.type = "BookingCancelled" -> [state EXCEPT !.cancelled = TRUE]
      [] OTHER                       -> state

\* The loop of LoadState over the events it has read.
Folded(payloads) ==
    LET state[i \in 0..Len(payloads)] ==
            IF i = 0 THEN ZeroState ELSE BookingFold(state[i - 1], payloads[i])
    IN  state[Len(payloads)]

-----------------------------------------------------------------------------
\* The commands of domain/commands.go, and the three handlers of main.go.
BookingCommands ==
    [type : {"BookRoom"}, booking : Streams, guest : Guests, price : Prices]
      \union [type : {"RecordPayment"}, booking : Streams, amount : Amounts]
      \union [type : {"CancelBooking"}, booking : Streams]

BookingHandlers ==
    [k \in BookingCommands |->
        [stream |-> k.booking,
         expected |-> IF k.type = "BookRoom" THEN "IsNew" ELSE "IsExisting"]]

\* What main.go wires: the commands, the handlers and the type map of the domain.  The
\* types of events are its own, and other programs write under other names.
ASSUME MainAssumption ==
    /\ Commands = BookingCommands /\ Handlers = BookingHandlers
    /\ Initially = DomainTypeMap
    /\ BookingEvents \subseteq Payloads
    /\ \A p \in Payloads : TypeOf(p) = TypeOfEvent(p)
    /\ \A e \in Foreign : e.name \notin DomainTypes
    /\ NoBooking \notin BookingStates

Rejected == [err |-> TRUE, events |-> <<>>]
Decides(event) == [err |-> FALSE, events |-> <<event>>]

BookedBy(k) ==
    [type |-> "RoomBooked", booking |-> k.booking, guest |-> k.guest, price |-> k.price]
PaidBy(k) == [type |-> "PaymentRecorded", booking |-> k.booking, amount |-> k.amount]
CancelledBy(k) == [type |-> "BookingCancelled", booking |-> k.booking]

\* A faulty HandleRecordPayment that accepts the payment of a cancelled booking.
ActOnCancelled(k, payloads) ==
    CASE k.type = "BookRoom"      -> Decides(BookedBy(k))
      [] k.type = "RecordPayment" ->
           IF Folded(payloads).paid THEN Rejected ELSE Decides(PaidBy(k))
      [] k.type = "CancelBooking" ->
           IF Folded(payloads).cancelled THEN Rejected ELSE Decides(CancelledBy(k))

\* HandleBookRoom, HandleRecordPayment and HandleCancelBooking.
BookingAct(k, payloads) ==
    CASE k.type = "BookRoom"      -> Decides(BookedBy(k))
      [] k.type = "RecordPayment" ->
           IF Folded(payloads).cancelled \/ Folded(payloads).paid
           THEN Rejected ELSE Decides(PaidBy(k))
      [] k.type = "CancelBooking" ->
           IF Folded(payloads).cancelled THEN Rejected ELSE Decides(CancelledBy(k))

-----------------------------------------------------------------------------
VARIABLES serving,     \* the process runs
          subscribed,  \* the subscription's Start has not returned
          received,    \* how many events of $all the subscription has received
          bookings,    \* the read model's documents
          guests,      \* the read model's summaries of each guest's bookings
          restarts     \* how often the process has been started again

sampleVars == <<serving, subscribed, received, bookings, guests, restarts>>
bookingVars == <<vars, sampleVars>>

Summaries == [booking : Streams, price : Prices, cancelled : BOOLEAN]

BookingInit ==
    /\ Init
    /\ serving = TRUE /\ subscribed = TRUE /\ received = 0 /\ restarts = 0
    /\ bookings = [b \in Streams |-> NoBooking]
    /\ guests = [g \in Guests |-> <<>>]

BookingTypeOK ==
    /\ TypeOK
    /\ serving \in BOOLEAN /\ subscribed \in BOOLEAN /\ (subscribed => serving)
    /\ received \in 0..commits
    /\ bookings \in [Streams -> BookingStates \union {NoBooking}]
    /\ guests \in [Guests -> Seq(Summaries)]
    /\ restarts \in 0..MaxRestarts

\* A faulty variant: the client chooses the identifier.
IdOfClient(b) == TRUE

\* uuid.New gives an identifier nobody has.
NewId(b) ==
    /\ log[b] = <<>>
    /\ \A c \in Callers : pc[c] # "idle" => CallStream(c) # b

\* One of the POST routes is called; whatever the {id} in its path.
Request(c, k) ==
    /\ serving
    /\ k.type = "BookRoom" => NewId(k.booking)
    /\ ServiceCall(c, k)
    /\ UNCHANGED sampleVars

\* A request that is being served.  What was sent to KurrentDB is carried out
\* even when the process has died since.
Serve(c) ==
    /\ ServiceLocal(c) \/ ServiceStore(c)
    /\ UNCHANGED sampleVars

OtherProgram(b) == ForeignAppend(b) /\ UNCHANGED sampleVars

-----------------------------------------------------------------------------
\* The event at the commit position the subscription has come to.
Received ==
    CHOOSE e \in UNION {{log[b][i] : i \in 1..Len(log[b])} : b \in Streams} :
        e.global = received

\* A faulty handling of a cancellation that leaves the summary as it is.
CancelDocumentOnly(e) ==
    /\ bookings' = [bookings EXCEPT ![e.booking].cancelled = TRUE]
    /\ UNCHANGED guests

CancelBoth(e) ==
    LET g == bookings[e.booking].guest
        IsIt(i) == guests[g][i].booking = e.booking
    IN  /\ bookings' = [bookings EXCEPT ![e.booking].cancelled = TRUE]
        /\ guests' = [guests EXCEPT ![g] =
              [i \in 1..Len(guests[g]) |->
                  IF IsIt(i) /\ \A j \in 1..(i - 1) : ~IsIt(j)
                  THEN [guests[g][i] EXCEPT !.cancelled = TRUE]
                  ELSE guests[g][i]]]

\* HandleEvent of the read model.
Project(e) ==
    \/ /\ e.type = "RoomBooked"
       /\ bookings' = [bookings EXCEPT ![e.booking] = NewBooking(e)]
       /\ guests' = [guests EXCEPT ![e.guest] = Append(@,
              [booking |-> e.booking, price |-> e.price, cancelled |-> FALSE])]
    \/ /\ e.type = "PaymentRecorded" /\ bookings[e.booking] # NoBooking
       /\ bookings' = [bookings EXCEPT
              ![e.booking].outstanding = @ - e.amount,
              ![e.booking].paid = @ \/ bookings[e.booking].outstanding <= e.amount]
       /\ UNCHANGED guests
    \/ e.type = "BookingCancelled" /\ bookings[e.booking] # NoBooking /\ CancelBoth(e)
    \/ /\ e.type # "RoomBooked" /\ bookings[e.booking] = NoBooking
       /\ UNCHANGED <<bookings, guests>>

\* A faulty loop that does not get past an event it cannot decode.
ReceiveDecodable ==
    /\ subscribed /\ received < commits
    /\ received' = received + 1
    /\ HasInstance(Received.name) /\ Project(Decoded(Received))
    /\ UNCHANGED <<vars, serving, subscribed, restarts>>

\* The loop of the subscription: an event it cannot decode has a nil payload,
\* which HandleEvent passes over.
Receive ==
    /\ subscribed /\ received < commits
    /\ received' = received + 1
    /\ IF HasInstance(Received.name)
       THEN Project(Decoded(Received))
       ELSE UNCHANGED <<bookings, guests>>
    /\ UNCHANGED <<vars, serving, subscribed, restarts>>

\* Start returns: the context has ended, the server dropped the subscription, or
\* there was none to begin with.  That is logged, and the server goes on.
SubscriptionEnds ==
    /\ subscribed /\ subscribed' = FALSE
    /\ UNCHANGED <<vars, serving, received, bookings, guests, restarts>>

\* The process ends: main returns as soon as the server is told to shut down, and
\* does not wait for its requests; or it dies.  A call that has sent its events
\* may still be carried out by KurrentDB, and its answer reaches nobody.
Exit ==
    /\ serving /\ serving' = FALSE /\ subscribed' = FALSE
    /\ \E sent \in SUBSET {c \in Callers : pc[c] = "append"} :
          LET Left(f, none) == [c \in DOMAIN f |-> IF c \in sent THEN f[c] ELSE none]
          IN  /\ pc' = Left(pc, "idle") /\ cmd' = Left(cmd, NoCommand)
              /\ result' = Left(result, Failure("none"))
              /\ seen' = Left(seen, <<>>) /\ version' = Left(version, VersionNoStream)
              /\ fresh' = Left(fresh, <<>>) /\ since' = Left(since, 0)
    /\ UNCHANGED <<typeMapVars, kurrentVars, upkeepVars, failures, decisions,
                   received, bookings, guests, restarts>>

\* A faulty start that subscribes after the first position and not at the start.
RestartAfterFirst ==
    /\ ~serving /\ restarts < MaxRestarts
    /\ restarts' = restarts + 1
    /\ serving' = TRUE /\ subscribed' = TRUE /\ received' = 1
    /\ bookings' = [b \in Streams |-> NoBooking]
    /\ guests' = [g \in Guests |-> <<>>]
    /\ UNCHANGED vars

\* main again: an empty read model, and a subscription that has no checkpoint
\* store and begins at the start of $all.
Restart ==
    /\ ~serving /\ restarts < MaxRestarts
    /\ restarts' = restarts + 1
    /\ serving' = TRUE /\ subscribed' = TRUE /\ received' = 0
    /\ bookings' = [b \in Streams |-> NoBooking]
    /\ guests' = [g \in Guests |-> <<>>]
    /\ UNCHANGED vars

BookingNext ==
    \/ \E c \in Callers : Serve(c) \/ \E k \in Commands : Request(c, k)
    \/ \E b \in Streams : OtherProgram(b)
    \/ Receive \/ SubscriptionEnds
    \/ Exit \/ Restart

\* The loop of a subscription that has not ended goes on.
BookingSpec ==
    BookingInit /\ [][BookingNext]_bookingVars /\ WF_bookingVars(Receive)

-----------------------------------------------------------------------------
\* The payloads of those events whose names are mapped to types.
KnownIn(events, types) ==
    LET known[i \in 0..Len(events)] ==
            IF i = 0 THEN <<>>
            ELSE IF types[events[i].name] # Unmapped
                 THEN Append(known[i - 1], events[i].payload) ELSE known[i - 1]
    IN  known[Len(events)]

\* Those of b's first n events this program knows the types of.
KnownOf(b, n) == KnownIn(SubSeq(log[b], 1, n), fromName)

\* How many of b's events the subscription has received.
ReceivedOf(b) == Cardinality({i \in 1..Len(log[b]) : log[b][i].global < received})

\* The rules of domain/handlers.go hold of every booking, whoever pays and cancels
\* at once and wherever the process ends: it is booked first and once, cancelled
\* at most once, and nothing is paid after it is paid up or cancelled.
BookingRules ==
    \A b \in Streams : \A n \in 1..Len(log[b]) :
        LET e == log[b][n].payload
            state == Folded(KnownOf(b, n - 1))
        IN  HasInstance(log[b][n].name) =>
                /\ e.booking = b
                /\ (e.type = "RoomBooked") <=> (n = 1)
                /\ e.type = "PaymentRecorded" => ~state.paid /\ ~state.cancelled
                /\ e.type = "BookingCancelled" => ~state.cancelled

\* The read model folds as the commands do: what GET /bookings/{id} returns is the
\* state of the booking as of the events received, and GET /guests/{id}/bookings
\* returns a guest's bookings, each once and in the order they were booked, with
\* what is known of their cancellation.
ReadModelAgrees ==
    /\ \A b \in Streams :
          LET known == KnownOf(b, ReceivedOf(b))
          IN  bookings[b] = IF known = <<>> THEN NoBooking ELSE Folded(known)
    /\ \A g \in Guests :
          LET ids == [i \in 1..Len(guests[g]) |-> guests[g][i].booking]
          IN  /\ {ids[i] : i \in 1..Len(ids)} =
                    {b \in Streams : bookings[b] # NoBooking /\ bookings[b].guest = g}
              /\ \A i, j \in 1..Len(ids) :
                    i < j => log[ids[i]][1].global < log[ids[j]][1].global
              /\ \A i \in 1..Len(ids) :
                    /\ guests[g][i].cancelled = bookings[ids[i]].cancelled
                    /\ guests[g][i].price = bookings[ids[i]].price

\* The HTTP status of what Handle returned, by the route and by writeCommandError.
\* ErrStreamExists has no case of its own.
StatusOf(k, outcome) ==
    CASE outcome = "ok"                   -> IF k.type = "BookRoom" THEN 201 ELSE 200
      [] outcome = "streamNotFound"       -> 404
      [] outcome = "conflict"             -> 409
      [] outcome = "handlerNotFound"      -> 400
      [] outcome = "rejected"             -> 422
      [] OTHER                            -> 500

\* No request is answered with an internal error for a reason that lies in the
\* booking: only if the store failed, or another program wrote to its stream.
ServerErrorsAreFaults ==
    \A c \in Callers :
        result[c].outcome \notin {"none", "pending"} /\ StatusOf(cmd[c], result[c].outcome) = 500 =>
            \/ failures > 0
            \/ \E i \in 1..Len(log[CallStream(c)]) :
                  ~HasInstance(log[CallStream(c)][i].name)

\* Unless its subscription ends, the read model comes to have received everything,
\* events of unknown types among it.
ReadModelCatchesUp == []<>(received = commits \/ ~subscribed)
=============================================================================

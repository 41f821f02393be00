--------------------------- MODULE BookingProofs ---------------------------
(***************************************************************************)
(* Proofs about Booking, for any callers, bookings, guests and prices, if  *)
(* the handlers decide as those of the domain do (ActsAsDomain): the rules *)
(* of the domain, and the read model a subscription builds of the log.     *)
(***************************************************************************)
EXTENDS Booking, KurrentCommandsProofs, FiniteSetTheorems

Known(e) == HasInstance(e.name)

\* The payloads of the first n events of a booking.
Begun(b, n) == [i \in 1..n |-> log[b][i].payload]

\* Nobody registers a type: the domain's are those of their names, and no other name
\* has one.
TypesWired ==
    /\ \A t \in DomainTypes : toName[t] = t /\ t \in GoTypes /\ t \in Names
    /\ \A n \in Names : fromName[n] = IF n \in DomainTypes THEN n ELSE Unmapped

\* Nobody deletes or truncates a stream.
Whole == deleted = {} /\ before = [b \in Streams |-> 0]

\* Each commit position is that of one event, and the events of a booking are in the
\* order of theirs.
Committed ==
    /\ \A b \in Streams : \A i \in 1..Len(log[b]) :
          /\ log[b][i].global < commits
          /\ \A j \in 1..Len(log[b]) : i < j => log[b][i].global < log[b][j].global
          /\ \A a \in Streams : \A j \in 1..Len(log[a]) :
                log[b][i].global = log[a][j].global => a = b /\ i = j
    /\ \A p \in 0..(commits - 1) :
          \E b \in Streams : \E i \in 1..Len(log[b]) : log[b][i].global = p

\* What event n of a booking may be, given what is known before it.
Allowed(b, n, e, payloads) ==
    /\ e \in BookingEvents /\ e.booking = b
    /\ (e.type = "RoomBooked") <=> (n = 1)
    /\ e.type = "PaymentRecorded" => ~Folded(payloads).paid /\ ~Folded(payloads).cancelled
    /\ e.type = "BookingCancelled" => ~Folded(payloads).cancelled

\* An event of this program comes after events of its own only.
Ruled(b) ==
    \A n \in 1..Len(log[b]) : Known(log[b][n]) =>
        /\ \A i \in 1..n : Known(log[b][i])
        /\ log[b][n].name = log[b][n].payload.type
        /\ Allowed(b, n, log[b][n].payload, Begun(b, n - 1))

\* A call has read the first events of its booking, all of them known, and has decided
\* on those.
ReadBooking(c) ==
    pc[c] \in {"decide", "append"} =>
        /\ version[c] = Len(seen[c]) - 1
        /\ Len(seen[c]) <= Len(log[CallStream(c)])
        /\ seen[c] = Begun(CallStream(c), Len(seen[c]))
        /\ \A i \in 1..Len(seen[c]) : Known(log[CallStream(c)][i])
        /\ (cmd[c].type = "BookRoom") <=> (seen[c] = <<>>)

DecidedBooking(c) ==
    pc[c] = "append" =>
        /\ ~BookingAct(cmd[c], seen[c]).err
        /\ fresh[c] = BookingAct(cmd[c], seen[c]).events

Books(c) == pc[c] # "idle" /\ cmd[c].type = "BookRoom"

\* While a room is booked nobody else books under its identifier.
OwnId(c) ==
    Books(c) =>
        /\ \A i \in 1..Len(log[CallStream(c)]) : ~Known(log[CallStream(c)][i])
        /\ \A d \in Callers : Books(d) /\ CallStream(d) = CallStream(c) => d = c

InternalErrors ==
    {"noop", "streamExists", "aggregateExists", "aggregateMissing", "storeFailed",
     "typeUnknown"}

\* An internal error is a fault of the store or of another program.
Faulted(c) ==
    result[c].outcome \in InternalErrors =>
        /\ cmd[c] \in Commands
        /\ \/ failures > 0
           \/ \E i \in 1..Len(log[CallStream(c)]) : ~Known(log[CallStream(c)][i])

BInv ==
    /\ TypesWired /\ Whole /\ Committed
    /\ \A b \in Streams : Ruled(b)
    /\ \A c \in Callers : ReadBooking(c) /\ DecidedBooking(c) /\ OwnId(c) /\ Faulted(c)

\* The first m events of b are those the subscription has received.
Sees(b, m) ==
    /\ m \in 0..Len(log[b])
    /\ \A i \in 1..Len(log[b]) : i <= m <=> log[b][i].global < received

\* What the read model has of a booking of whose events these are known.
DocumentOf(known) == IF known = <<>> THEN NoBooking ELSE Folded(known)

\* The read model has the first m events of b.
Documented(b, m) ==
    /\ Sees(b, m)
    /\ bookings[b] = DocumentOf(KnownOf(b, m))
    /\ bookings[b] # NoBooking => bookings[b].booking = b
    /\ bookings[b] # NoBooking <=> m > 0 /\ Known(log[b][1])

Listed(g) == {guests[g][i].booking : i \in 1..Len(guests[g])}

Summarised(g) ==
    /\ Listed(g) = {b \in Streams : bookings[b] # NoBooking /\ bookings[b].guest = g}
    /\ \A i, j \in 1..Len(guests[g]) : i < j =>
          log[guests[g][i].booking][1].global < log[guests[g][j].booking][1].global
    /\ \A i \in 1..Len(guests[g]) :
          /\ guests[g][i].cancelled = bookings[guests[g][i].booking].cancelled
          /\ guests[g][i].price = bookings[guests[g][i].booking].price

SampleTypeOK ==
    /\ serving \in BOOLEAN /\ subscribed \in BOOLEAN /\ (subscribed => serving)
    /\ received \in 0..commits
    /\ bookings \in [Streams -> BookingStates \union {NoBooking}]
    /\ guests \in [Guests -> Seq(Summaries)]
    /\ restarts \in 0..MaxRestarts

RInv ==
    /\ SampleTypeOK
    /\ \A b \in Streams : \E m \in 0..Len(log[b]) : Documented(b, m)
    /\ \A g \in Guests : Summarised(g)

-----------------------------------------------------------------------------
\* What the theorems about the sample assume beside MainAssumption: the handlers decide
\* as the domain's do.
ActsAsDomain ==
    \A k \in Commands, payloads \in Seq(Payloads) : Act(k, payloads) = BookingAct(k, payloads)

LEMMA CommandsWired ==
    ASSUME NEW k \in Commands
    PROVE  /\ k \in DOMAIN Handlers /\ k \in BookingCommands
           /\ k.type \in {"BookRoom", "RecordPayment", "CancelBooking"}
           /\ StreamOf(k) = k.booking /\ k.booking \in Streams
           /\ ExpectedOf(k) = IF k.type = "BookRoom" THEN "IsNew" ELSE "IsExisting"
<1>1. k \in BookingCommands /\ Handlers = BookingHandlers
  BY MainAssumption
<1>2. k.type \in {"BookRoom", "RecordPayment", "CancelBooking"} /\ k.booking \in Streams
  BY <1>1 DEF BookingCommands
<1>3. /\ k \in DOMAIN Handlers
      /\ Handlers[k] = [stream |-> k.booking,
                        expected |-> IF k.type = "BookRoom" THEN "IsNew" ELSE "IsExisting"]
  BY <1>1 DEF BookingHandlers
<1>4. QED BY <1>1, <1>2, <1>3 DEF StreamOf, ExpectedOf

LEMMA DecisionsWired ==
    ASSUME NEW k \in Commands, NEW payloads
    PROVE  \/ BookingAct(k, payloads) = Rejected
           \/ \E e \in BookingEvents :
                /\ BookingAct(k, payloads) = Decides(e)
                /\ e.booking = k.booking
                /\ e.type = "RoomBooked" <=> k.type = "BookRoom"
                /\ e.type = "PaymentRecorded" =>
                      ~Folded(payloads).paid /\ ~Folded(payloads).cancelled
                /\ e.type = "BookingCancelled" => ~Folded(payloads).cancelled
<1>1. k \in BookingCommands
  BY MainAssumption
<1>2. CASE k.type = "BookRoom"
  <2>1. BookedBy(k) \in BookingEvents
    BY <1>1, <1>2 DEF BookingCommands, BookingEvents, BookedBy
  <2>2. BookingAct(k, payloads) = Decides(BookedBy(k))
    BY <1>2 DEF BookingAct
  <2>3. BookedBy(k).type = "RoomBooked" /\ BookedBy(k).booking = k.booking
    BY DEF BookedBy
  <2>4. QED BY <1>2, <2>1, <2>2, <2>3
<1>3. CASE k.type = "RecordPayment"
  <2>1. PaidBy(k) \in BookingEvents
    BY <1>1, <1>3 DEF BookingCommands, BookingEvents, PaidBy
  <2>2. BookingAct(k, payloads) = IF Folded(payloads).cancelled \/ Folded(payloads).paid
                                  THEN Rejected ELSE Decides(PaidBy(k))
    BY <1>3 DEF BookingAct
  <2>3. PaidBy(k).type = "PaymentRecorded" /\ PaidBy(k).booking = k.booking
    BY DEF PaidBy
  <2>4. QED BY <1>3, <2>1, <2>2, <2>3
<1>4. CASE k.type = "CancelBooking"
  <2>1. CancelledBy(k) \in BookingEvents
    BY <1>1, <1>4 DEF BookingCommands, BookingEvents, CancelledBy
  <2>2. BookingAct(k, payloads) = IF Folded(payloads).cancelled
                                  THEN Rejected ELSE Decides(CancelledBy(k))
    BY <1>4 DEF BookingAct
  <2>3. CancelledBy(k).type = "BookingCancelled" /\ CancelledBy(k).booking = k.booking
    BY DEF CancelledBy
  <2>4. QED BY <1>4, <2>1, <2>2, <2>3
<1>5. QED BY <1>2, <1>3, <1>4, CommandsWired

LEMMA EventsWired ==
    ASSUME NEW e \in BookingEvents
    PROVE  /\ e \in Payloads /\ TypeOf(e) = e.type /\ e.type \in DomainTypes
           /\ e.booking \in Streams
BY MainAssumption DEF BookingEvents, TypeOfEvent, DomainTypes

LEMMA TypesStart == TypeMapInit => TypesWired
<1> SUFFICES ASSUME TypeMapInit PROVE TypesWired
  OBVIOUS
<1>1. /\ DOMAIN Initially = DomainTypes /\ DomainTypes \subseteq GoTypes
      /\ \A t \in DomainTypes : Initially[t] = t /\ t \in Names
  BY MainAssumption, KurrentAssumption DEF DomainTypeMap
<1>2. ASSUME NEW t \in DomainTypes PROVE toName[t] = t /\ t \in GoTypes /\ t \in Names
  BY <1>1 DEF TypeMapInit
<1>3. ASSUME NEW n \in Names
      PROVE  fromName[n] = IF n \in DomainTypes THEN n ELSE Unmapped
  <2>1. CASE n \in DomainTypes
    <3>1. fromName[n] = CHOOSE t \in DOMAIN Initially : Initially[t] = n
      BY <1>1, <2>1 DEF TypeMapInit
    <3>2. \E t \in DOMAIN Initially : Initially[t] = n
      BY <1>1, <2>1
    <3>3. fromName[n] \in DOMAIN Initially /\ Initially[fromName[n]] = n
      BY <3>1, <3>2
    <3>4. QED BY <1>1, <2>1, <3>3
  <2>2. CASE n \notin DomainTypes
    BY <1>1, <2>2 DEF TypeMapInit
  <2>3. QED BY <2>1, <2>2
<1>4. QED BY <1>2, <1>3 DEF TypesWired

LEMMA BookingStarts == BookingInit => KInv /\ BInv
<1> SUFFICES ASSUME BookingInit PROVE KInv /\ BInv
  OBVIOUS
<1>1. Init /\ KInv
  BY Starts DEF BookingInit
<1>2. /\ \A b \in Streams : log[b] = <<>> /\ Len(log[b]) = 0
      /\ deleted = {} /\ before = [b \in Streams |-> 0] /\ commits = 0
  BY <1>1 DEF Init, KurrentInit
<1>3. \A c \in Callers : pc[c] = "idle" /\ result[c].outcome = "none"
  BY <1>1 DEF Init, CallsInit, AllCallers, Failure
<1>4. TypesWired /\ Whole
  BY <1>1, <1>2, TypesStart DEF Init, Whole
<1>5. Committed /\ \A b \in Streams : Ruled(b)
  BY <1>2 DEF Committed, Ruled
<1>6. \A c \in Callers : ReadBooking(c) /\ DecidedBooking(c) /\ OwnId(c) /\ Faulted(c)
  BY <1>3 DEF ReadBooking, DecidedBooking, OwnId, Books, Faulted, InternalErrors
<1>7. QED BY <1>1, <1>4, <1>5, <1>6 DEF BInv

-----------------------------------------------------------------------------
LEMMA CallTyped ==
    ASSUME KInv, NEW c \in Callers
    PROVE  /\ c \in AllCallers /\ seen[c] \in Seq(Payloads) /\ Len(seen[c]) \in Nat
           /\ pc[c] # "idle" => cmd[c] \in Commands
           /\ cmd[c] \in Commands =>
                CallStream(c) \in Streams /\ Len(log[CallStream(c)]) \in Nat
<1>1. CallsTypeOK /\ ServiceTypeOK /\ KurrentTypeOK /\ c \in AllCallers
  BY PartsOfKInv DEF AllCallers
<1>2. seen[c] \in Seq(Payloads) /\ Len(seen[c]) \in Nat
  BY <1>1 DEF ServiceTypeOK
<1>3. pc[c] # "idle" => cmd[c] \in Commands
  BY <1>1, HandlersAssumption DEF CallsTypeOK
<1>4. ASSUME cmd[c] \in Commands
      PROVE  CallStream(c) \in Streams /\ Len(log[CallStream(c)]) \in Nat
  <2>1. CallStream(c) \in Streams
    BY <1>4, CommandsWired DEF CallStream
  <2>2. QED BY <1>1, <2>1 DEF KurrentTypeOK
<1>5. QED BY <1>1, <1>2, <1>3, <1>4

LEMMA BegunStays ==
    ASSUME KurrentTypeOK, Grows, NEW b \in Streams, NEW n \in Int, n <= Len(log[b])
    PROVE  Begun(b, n)' = Begun(b, n)
<1>1. Len(log[b]) \in Nat
  BY DEF KurrentTypeOK
<1>2. \A i \in 1..n : log'[b][i] = log[b][i]
  BY <1>1 DEF Grows
<1>3. QED BY <1>2 DEF Begun

LEMMA KnownStays ==
    ASSUME KurrentTypeOK, Grows, UNCHANGED typeMapVars, NEW b \in Streams,
           NEW i \in 1..Len(log[b])
    PROVE  i \in 1..Len(log'[b]) /\ log'[b][i] = log[b][i]
           /\ (Known(log[b][i])' <=> Known(log[b][i]))
<1>1. Len(log[b]) \in Nat /\ Len(log'[b]) >= Len(log[b])
  BY DEF KurrentTypeOK, Grows
<1>2. log'[b][i] = log[b][i]
  BY DEF Grows
<1>3. KurrentTypeOK => TRUE
  OBVIOUS
<1>4. QED BY <1>1, <1>2 DEF Known, HasInstance, typeMapVars

\* A step that does not concern caller d, nor what its last call has returned.
Same(d) == Stays(d) /\ result'[d] = result[d]

LEMMA CallerStays ==
    ASSUME KInv, KInv', BInv, Grows, UNCHANGED typeMapVars, failures' >= failures,
           NEW d \in Callers, Same(d)
    PROVE  ReadBooking(d)' /\ DecidedBooking(d)' /\ Faulted(d)'
<1>1. KurrentTypeOK /\ KurrentTypeOK' /\ failures \in Nat /\ failures' \in Nat
  <2>1. RestTypeOK /\ RestTypeOK'
    BY DEF KInv, TypeOK, RestTypeOK
  <2>2. QED BY <2>1, KurrentAssumption DEF RestTypeOK, KInv, TypeOK
<1>2. ReadBooking(d) /\ DecidedBooking(d) /\ Faulted(d)
  BY DEF BInv
<1>3. /\ pc'[d] = pc[d] /\ cmd'[d] = cmd[d] /\ seen'[d] = seen[d]
      /\ version'[d] = version[d] /\ fresh'[d] = fresh[d] /\ result'[d] = result[d]
      /\ CallStream(d)' = CallStream(d)
  BY DEF Same, Stays, CallStream
<1>4. ReadBooking(d)'
  <2>1. SUFFICES ASSUME pc[d] \in {"decide", "append"} PROVE ReadBooking(d)'
    BY <1>3 DEF ReadBooking
  <2>2. cmd[d] \in Commands
    BY <2>1, CallTyped
  <2>3. PICK b \in Streams, n \in Nat : b = CallStream(d) /\ n = Len(seen[d])
    BY <2>2, CallTyped
  <2>4. n <= Len(log[b]) /\ seen[d] = Begun(b, n) /\ \A i \in 1..n : Known(log[b][i])
    BY <1>2, <2>1, <2>3 DEF ReadBooking
  <2>5. Len(log[b]) \in Nat /\ Len(log'[b]) \in Nat /\ Len(log'[b]) >= Len(log[b])
    BY <1>1 DEF KurrentTypeOK, Grows
  <2>6. Begun(b, n)' = Begun(b, n)
    BY <1>1, <2>4, BegunStays
  <2>7. \A i \in 1..n : Known(log[b][i])'
    BY <1>1, <2>4, <2>5, KnownStays
  <2>8. n <= Len(log'[b])
    BY <2>4, <2>5
  <2>9. QED BY <1>2, <1>3, <2>1, <2>3, <2>4, <2>6, <2>7, <2>8 DEF ReadBooking
<1>5. DecidedBooking(d)'
  BY <1>2, <1>3 DEF DecidedBooking
<1>6. Faulted(d)'
  <2>1. SUFFICES ASSUME result[d].outcome \in InternalErrors PROVE Faulted(d)'
    BY <1>3 DEF Faulted
  <2>2. cmd[d] \in Commands
    BY <1>2, <2>1 DEF Faulted
  <2>3. PICK b \in Streams : b = CallStream(d)
    BY <2>2, CallTyped
  <2>4. CASE failures > 0
    BY <1>1, <1>3, <2>2, <2>4 DEF Faulted
  <2>5. CASE ~(failures > 0)
    <3>1. PICK i \in 1..Len(log[b]) : ~Known(log[b][i])
      BY <1>2, <2>1, <2>3, <2>5 DEF Faulted
    <3>2. i \in 1..Len(log'[b]) /\ ~Known(log[b][i])'
      BY <1>1, <3>1, KnownStays
    <3>3. CallStream(d)' = b /\ cmd'[d] \in Commands
      BY <1>3, <2>2, <2>3
    <3>4. QED BY <3>2, <3>3 DEF Faulted, Known, HasInstance
  <2>6. QED BY <2>4, <2>5
<1>7. QED BY <1>4, <1>5, <1>6

LEMMA LogStays ==
    ASSUME BInv, UNCHANGED <<typeMapVars, kurrentVars>>
    PROVE  TypesWired' /\ Whole' /\ Committed' /\ \A b \in Streams : Ruled(b)'
<1>1. TypesWired' /\ Whole'
  BY DEF BInv, TypesWired, Whole, typeMapVars, kurrentVars
<1>2. UNCHANGED <<log, commits, fromName>>
  BY DEF typeMapVars, kurrentVars
<1>3. Committed'
  BY <1>2 DEF BInv, Committed
<1>4. ASSUME NEW b \in Streams PROVE Ruled(b)'
  BY <1>2 DEF BInv, Ruled, Known, HasInstance, Begun
<1>5. QED BY <1>1, <1>3, <1>4

\* A step of caller c alone, between its call and its return.
LEMMA LocalBooking ==
    ASSUME KInv, KInv', BInv, UNCHANGED <<typeMapVars, kurrentVars>>, failures' >= failures,
           NEW c \in Callers, cmd'[c] = cmd[c], pc'[c] # "idle" => pc[c] # "idle",
           \A d \in Callers \ {c} : Same(d),
           ReadBooking(c)', DecidedBooking(c)', Faulted(c)'
    PROVE  BInv'
<1>1. TypesWired' /\ Whole' /\ Committed' /\ \A b \in Streams : Ruled(b)'
  BY LogStays
<1>2. Grows /\ UNCHANGED log /\ UNCHANGED typeMapVars
  BY PartsOfKInv, StaysGrows DEF kurrentVars
<1>3. ASSUME NEW d \in Callers PROVE ReadBooking(d)' /\ DecidedBooking(d)' /\ Faulted(d)'
  <2>1. CASE d = c
    BY <2>1
  <2>2. CASE d # c
    BY <1>2, <2>2, CallerStays
  <2>3. QED BY <2>1, <2>2
<1>4. \A d \in Callers : Books(d)' => Books(d) /\ CallStream(d)' = CallStream(d)
  BY DEF Books, Same, Stays, CallStream
<1>5. ASSUME NEW d \in Callers PROVE OwnId(d)'
  <2>1. OwnId(d)
    BY DEF BInv
  <2>2. QED BY <1>2, <1>4, <2>1 DEF OwnId, Known, HasInstance, typeMapVars
<1>6. QED BY <1>1, <1>3, <1>5 DEF BInv

-----------------------------------------------------------------------------
LEMMA BegunIs ==
    ASSUME NEW b, NEW n \in Nat
    PROVE  Len(Begun(b, n)) = n /\ (n = 0 => Begun(b, n) = <<>>)
BY DEF Begun

\* The stream of a call, and what it was told to expect of it.
LEMMA CallWired ==
    ASSUME KInv, NEW c \in Callers, cmd[c] \in Commands
    PROVE  /\ CallStream(c) \in Streams /\ CallStream(c) = cmd[c].booking
           /\ ExpectedOf(cmd[c]) =
                 IF cmd[c].type = "BookRoom" THEN "IsNew" ELSE "IsExisting"
BY CommandsWired DEF CallStream

LEMMA BookingCalls ==
    ASSUME KInv, KInv', BInv, NEW c \in Callers, NEW k \in Commands, ServiceCall(c, k),
           k.type = "BookRoom" => NewId(k.booking)
    PROVE  BInv'
<1>1. /\ CallsTypeOK /\ c \in AllCallers /\ k \in DOMAIN Handlers /\ KurrentTypeOK
      /\ failures' = failures /\ failures \in Int
  <2>1. RestTypeOK /\ failures' = failures
    BY PartsOfKInv DEF ServiceCall
  <2>2. failures \in Int
    BY <2>1, KurrentAssumption DEF RestTypeOK
  <2>3. QED BY <2>1, <2>2, PartsOfKInv, CommandsWired DEF AllCallers
<1>2. /\ pc'[c] = "load" /\ cmd'[c] = k /\ result'[c] = Failure("pending")
      /\ pc[c] = "idle" /\ UNCHANGED <<seen, version, fresh>>
      /\ \A d \in AllCallers \ {c} :
            pc'[d] = pc[d] /\ cmd'[d] = cmd[d] /\ result'[d] = result[d]
  BY <1>1 DEF ServiceCall, Handle, BeginCall, CallsTypeOK, serviceVars
<1>3. TypesWired' /\ Whole' /\ Committed' /\ \A b \in Streams : Ruled(b)'
  BY LogStays DEF ServiceCall
<1>4. Grows /\ UNCHANGED log /\ UNCHANGED typeMapVars
  BY <1>1, StaysGrows DEF kurrentVars, ServiceCall
<1>5. \A d \in Callers \ {c} : Same(d)
  BY <1>2 DEF Same, Stays, AllCallers
<1>6. ReadBooking(c)' /\ DecidedBooking(c)' /\ Faulted(c)'
  <2>1. result'[c].outcome = "pending"
    BY <1>2 DEF Failure
  <2>2. QED BY <1>2, <2>1 DEF ReadBooking, DecidedBooking, Faulted, InternalErrors
<1>7. \A d \in Callers : ReadBooking(d)' /\ DecidedBooking(d)' /\ Faulted(d)'
  <2>1. ASSUME NEW d \in Callers PROVE ReadBooking(d)' /\ DecidedBooking(d)' /\ Faulted(d)'
    <3>1. CASE d = c
      BY <1>6, <3>1
    <3>2. CASE d # c
      BY <1>1, <1>4, <1>5, <3>2, CallerStays
    <3>3. QED BY <3>1, <3>2
  <2>2. QED BY <2>1
<1>8. CallStream(c)' = k.booking
  BY <1>2, CommandsWired DEF CallStream
<1>9. \A d \in Callers \ {c} :
         CallStream(d)' = CallStream(d) /\ (Books(d)' <=> Books(d)) /\ (Books(d) => pc[d] # "idle")
  BY <1>5 DEF Same, Stays, CallStream, Books
<1>10. Books(c)' => /\ log[k.booking] = <<>>
                    /\ \A d \in Callers : pc[d] # "idle" => CallStream(d) # k.booking
  BY <1>2 DEF Books, NewId
<1>11. ASSUME NEW d \in Callers PROVE OwnId(d)'
  <2>1. CASE d = c
    <3>1. \A e \in Callers : Books(c)' /\ Books(e)' /\ CallStream(e)' = CallStream(c)' => e = c
      BY <1>8, <1>9, <1>10
    <3>2. Books(c)' => Len(log'[k.booking]) = 0
      BY <1>4, <1>10
    <3>3. QED BY <1>8, <2>1, <3>1, <3>2 DEF OwnId
  <2>2. CASE d # c
    <3>1. OwnId(d)
      BY DEF BInv
    <3>2. Books(d)' =>
            \A i \in 1..Len(log'[CallStream(d)']) : ~Known(log[CallStream(d)][i])'
      BY <1>4, <1>9, <2>2, <3>1 DEF OwnId, Known, HasInstance, typeMapVars
    <3>3. ASSUME NEW e \in Callers, Books(d)', Books(e)', CallStream(e)' = CallStream(d)'
          PROVE  e = d
      <4>1. CASE e = c
        BY <1>8, <1>9, <1>10, <2>2, <3>3, <4>1
      <4>2. CASE e # c
        BY <1>9, <2>2, <3>1, <3>3, <4>2 DEF OwnId
      <4>3. QED BY <4>1, <4>2
    <3>4. QED BY <3>2, <3>3 DEF OwnId
  <2>3. QED BY <2>1, <2>2
<1>12. QED BY <1>3, <1>7, <1>11 DEF BInv

\* What a read of a booking returns: its first events, if the program knows them.
LEMMA BookingRead ==
    ASSUME KInv, BInv, NEW b \in Streams, KurrentFound(b), Readable(b)
    PROVE  \E n \in 1..Len(log[b]) :
              /\ PayloadsOf(ReadEvents(b, 0, Everything)) = Begun(b, n)
              /\ Len(ReadEvents(b, 0, Everything)) = n
              /\ \A i \in 1..n : Known(log[b][i])
<1>1. PICK x \in Nat : x = Len(log[b]) /\ x > 0
  <2>1. PICK all \in Seq(RecordedEvents) : all = log[b]
    BY PartsOfKInv DEF KurrentTypeOK
  <2>2. Len(all) \in Nat /\ Len(all) # 0
    BY <2>1 DEF KurrentFound
  <2>3. QED BY <2>1, <2>2
<1>2. Begin(b, 0) = 0
  BY DEF BInv, Whole, Begin
<1>3. PICK n \in 1..x : n = Least(Everything, Rest(x, Begin(b, 0)))
  BY <1>1, <1>2 DEF Least, Rest, Everything
<1>4. KurrentTypeOK /\ Everything \in Nat /\ 0 \in Nat
  BY PartsOfKInv DEF Everything
<1>5. PICK shown \in Seq(RecordedEvents) :
          /\ shown = Forwards(b, 0, Everything) /\ Len(shown) = n
          /\ \A i \in 1..n : Begin(b, 0) + i \in 1..x /\ shown[i] = log[b][Begin(b, 0) + i]
  BY <1>1, <1>3, <1>4, ForwardsShows
<1>6. \A i \in 1..n : shown[i] = log[b][i]
  BY <1>1, <1>2, <1>3, <1>5
<1>7. \A i \in 1..n : Known(log[b][i])
  BY <1>5, <1>6 DEF Readable, CanDecode, Known
<1>8. \A i \in 1..Len(shown) : fromName[shown[i].name] = TypeOf(shown[i].payload)
  <2>1. \A i \in 1..n : LegibleEvent(log[b][i])
    BY <1>1, <1>3 DEF KInv, Legible
  <2>2. QED BY <1>5, <1>6, <1>7, <2>1 DEF LegibleEvent, Known, HasInstance
<1>9. PayloadsOf(AsRead(shown)) = [i \in 1..n |-> shown[i].payload]
  BY <1>5, <1>8, ReadAsWritten
<1>10. PayloadsOf(AsRead(shown)) = Begun(b, n)
  BY <1>6, <1>9 DEF Begun
<1>11. Len(AsRead(shown)) = n
  BY <1>5 DEF AsRead
<1>12. QED BY <1>1, <1>5, <1>7, <1>10, <1>11 DEF ReadEvents

LEMMA CallerIs ==
    ASSUME KInv, NEW c \in Callers
    PROVE  /\ c \in AllCallers /\ CallsTypeOK /\ ServiceTypeOK /\ KurrentTypeOK
           /\ failures \in Nat
<1>1. RestTypeOK
  BY PartsOfKInv
<1>2. QED BY <1>1, PartsOfKInv, KurrentAssumption DEF AllCallers, RestTypeOK

\* A call that returns, and does so with an internal error for a cause only.
LEMMA BookingReturns ==
    ASSUME KInv, KInv', BInv, UNCHANGED <<typeMapVars, kurrentVars>>, failures' >= failures,
           NEW c \in Callers, NEW r, Return(c, r), Forget(c) \/ UNCHANGED serviceVars,
           r.outcome \in InternalErrors =>
              /\ cmd[c] \in Commands
              /\ failures' > 0 \/ \E i \in 1..Len(log[CallStream(c)]) : ~Known(log[CallStream(c)][i])
    PROVE  BInv'
<1>1. c \in AllCallers /\ CallsTypeOK /\ ServiceTypeOK
  BY CallerIs
<1>2. /\ pc'[c] = "idle" /\ result'[c] = r /\ UNCHANGED cmd
      /\ \A d \in AllCallers \ {c} : pc'[d] = pc[d] /\ result'[d] = result[d]
  BY <1>1 DEF Return, CallsTypeOK
<1>3. \A d \in Callers \ {c} : Same(d)
  BY <1>1, <1>2 DEF Forget, serviceVars, ServiceTypeOK, Same, Stays, AllCallers
<1>4. ReadBooking(c)' /\ DecidedBooking(c)'
  BY <1>2 DEF ReadBooking, DecidedBooking
<1>5. Faulted(c)'
  BY <1>2 DEF Faulted, Known, HasInstance, CallStream, typeMapVars, kurrentVars
<1>6. QED BY <1>2, <1>3, <1>4, <1>5, LocalBooking

LEMMA BookingLoads ==
    ASSUME KInv, KInv', BInv, NEW c \in Callers, ServiceLoad(c)
    PROVE  BInv'
<1>1. /\ c \in AllCallers /\ CallsTypeOK /\ ServiceTypeOK /\ failures \in Nat
      /\ pc[c] = "load" /\ failures' = failures /\ UNCHANGED <<typeMapVars, kurrentVars>>
  BY CallerIs DEF ServiceLoad
<1>2. cmd[c] \in Commands
  BY <1>1, CallTyped
<1>3. PICK b \in Streams : b = CallStream(c)
  BY <1>2, CallWired
<1>4. PICK found, raw, expected :
          /\ found = KurrentFound(b) /\ raw = ReadEvents(b, 0, Everything)
          /\ expected = ExpectedOf(cmd[c])
  OBVIOUS
<1>5. PICK loaded : loaded = LoadState(found, raw, expected)
  OBVIOUS
<1>6. Load(c, found, raw) /\ (KurrentFound(b) => Readable(b))
  BY <1>3, <1>4 DEF ServiceLoad
<1>7. expected = IF cmd[c].type = "BookRoom" THEN "IsNew" ELSE "IsExisting"
  BY <1>2, <1>4, CallWired
<1>8. \/ loaded.err = "streamNotFound"
      \/ \E n \in Nat :
            /\ loaded.err = "none" /\ n <= Len(log[b]) /\ loaded.payloads = Begun(b, n)
            /\ loaded.version = n - 1 /\ \A i \in 1..n : Known(log[b][i])
            /\ (cmd[c].type = "BookRoom") <=> n = 0
  <2>1. CASE found
    <3>1. PICK n \in 1..Len(log[b]) :
              /\ PayloadsOf(raw) = Begun(b, n) /\ Len(raw) = n
              /\ \A i \in 1..n : Known(log[b][i])
      BY <1>4, <1>6, <2>1, BookingRead
    <3>2. Len(log[b]) \in Nat /\ n \in Nat /\ n <= Len(log[b]) /\ n # 0 /\ 1 \in 1..n
          /\ 1 \in 1..Len(log[b])
      BY <1>2, <1>3, CallTyped
    <3>3. cmd[c].type # "BookRoom"
      <4>1. OwnId(c)
        BY DEF BInv
      <4>2. Known(log[b][1])
        BY <3>1, <3>2
      <4>3. QED BY <1>1, <1>3, <3>2, <4>1, <4>2 DEF OwnId, Books
    <3>4. loaded = [err |-> "none", payloads |-> PayloadsOf(raw), version |-> Len(raw) - 1]
      BY <1>5, <1>7, <2>1, <3>3 DEF LoadState
    <3>5. QED BY <3>1, <3>2, <3>3, <3>4
  <2>2. CASE ~found
    <3>1. CASE cmd[c].type = "BookRoom"
      <4>1. loaded = [err |-> "none", payloads |-> <<>>, version |-> VersionNoStream]
        BY <1>5, <1>7, <2>2, <3>1 DEF LoadState
      <4>2. Begun(b, 0) = <<>> /\ VersionNoStream = 0 - 1 /\ 0 \in Nat /\ 0 <= Len(log[b])
        BY <1>2, <1>3, BegunIs, CallTyped DEF VersionNoStream
      <4>3. QED BY <3>1, <4>1, <4>2
    <3>2. CASE cmd[c].type # "BookRoom"
      BY <1>5, <1>7, <2>2, <3>2 DEF LoadState
    <3>3. QED BY <3>1, <3>2
  <2>3. found \in BOOLEAN
    BY <1>4 DEF KurrentFound
  <2>4. QED BY <2>1, <2>2, <2>3
<1>9. CASE loaded.err = "streamNotFound"
  <2>1. Return(c, Failure("streamNotFound")) /\ UNCHANGED serviceVars
    BY <1>3, <1>4, <1>5, <1>6, <1>9 DEF Load
  <2>2. Failure("streamNotFound").outcome \notin InternalErrors
    BY DEF Failure, InternalErrors
  <2>3. failures' >= failures
    BY <1>1
  <2>4. QED BY <1>1, <2>1, <2>2, <2>3, BookingReturns
<1>10. ASSUME NEW n \in Nat,
              loaded.err = "none", n <= Len(log[b]), loaded.payloads = Begun(b, n),
              loaded.version = n - 1, \A i \in 1..n : Known(log[b][i]),
              (cmd[c].type = "BookRoom") <=> n = 0
       PROVE  BInv'
  <2>1. /\ pc' = [pc EXCEPT ![c] = "decide"] /\ UNCHANGED <<cmd, result, fresh>>
        /\ seen' = [seen EXCEPT ![c] = loaded.payloads]
        /\ version' = [version EXCEPT ![c] = loaded.version]
    BY <1>3, <1>4, <1>5, <1>6, <1>10 DEF Load, Proceed
  <2>2. pc'[c] = "decide" /\ seen'[c] = Begun(b, n) /\ version'[c] = n - 1
        /\ \A d \in Callers \ {c} : Same(d)
    BY <1>1, <1>10, <2>1 DEF CallsTypeOK, ServiceTypeOK, AllCallers, Same, Stays
  <2>3. /\ CallStream(c)' = b /\ UNCHANGED <<log, fromName>> /\ Begun(b, n)' = Begun(b, n)
    BY <1>1, <1>3, <2>1 DEF CallStream, kurrentVars, typeMapVars, Begun
  <2>4. ReadBooking(c)'
    <3>1. Len(seen'[c]) = n /\ (n = 0 => seen'[c] = <<>>) /\ (seen'[c] = <<>> => n = 0)
      <4>1. Len(<<>>) = 0
        OBVIOUS
      <4>2. QED BY <2>2, <4>1, BegunIs
    <3>2. cmd'[c].type = cmd[c].type
      BY <2>1
    <3>3. \A i \in 1..n : Known(log[b][i])'
      BY <1>10, <2>3 DEF Known, HasInstance
    <3>4. QED BY <1>10, <2>2, <2>3, <3>1, <3>2, <3>3 DEF ReadBooking
  <2>5. DecidedBooking(c)'
    BY <2>2 DEF DecidedBooking
  <2>6. Faulted(c)'
    <3>1. Faulted(c)
      BY DEF BInv
    <3>2. QED BY <1>1, <1>3, <2>1, <2>3, <3>1 DEF Faulted, Known, HasInstance, CallStream
  <2>7. failures' >= failures /\ cmd'[c] = cmd[c] /\ pc[c] # "idle"
    BY <1>1, <2>1
  <2>8. QED BY <1>1, <2>2, <2>4, <2>5, <2>6, <2>7, LocalBooking
<1>11. QED BY <1>8, <1>9, <1>10

-----------------------------------------------------------------------------
LEMMA BookingDecides ==
    ASSUME KInv, KInv', BInv, ActsAsDomain, NEW c \in Callers, ServiceDecide(c)
    PROVE  BInv'
<1>1. /\ c \in AllCallers /\ CallsTypeOK /\ ServiceTypeOK /\ failures \in Nat
      /\ pc[c] = "decide" /\ failures' = failures /\ UNCHANGED <<typeMapVars, kurrentVars>>
      /\ failures' >= failures
  BY CallerIs DEF ServiceDecide, Decide
<1>2. cmd[c] \in Commands /\ seen[c] \in Seq(Payloads)
  BY <1>1, CallTyped
<1>3. PICK decision : decision = Act(cmd[c], seen[c])
  OBVIOUS
<1>4. decision = BookingAct(cmd[c], seen[c])
  BY <1>2, <1>3 DEF ActsAsDomain
<1>5. decision.events # <<>> \/ decision.err
  BY <1>2, <1>4, DecisionsWired DEF Rejected, Decides
<1>6. \/ decision.err /\ Return(c, Failure("rejected")) /\ Forget(c)
      \/ ~decision.err /\ fresh' = [fresh EXCEPT ![c] = decision.events]
         /\ Proceed(c, "append") /\ UNCHANGED <<seen, version>>
  BY <1>3, <1>5 DEF ServiceDecide, Decide
<1>7. CASE Return(c, Failure("rejected")) /\ Forget(c)
  <2>1. Failure("rejected").outcome \notin InternalErrors
    BY DEF Failure, InternalErrors
  <2>2. QED BY <1>1, <1>7, <2>1, BookingReturns
<1>8. CASE ~decision.err /\ fresh' = [fresh EXCEPT ![c] = decision.events]
           /\ Proceed(c, "append") /\ UNCHANGED <<seen, version>>
  <2>1. /\ pc'[c] = "append" /\ UNCHANGED <<cmd, result, seen, version>>
        /\ fresh'[c] = decision.events
        /\ \A d \in Callers \ {c} : Same(d)
    BY <1>1, <1>8 DEF Proceed, CallsTypeOK, ServiceTypeOK, AllCallers, Same, Stays
  <2>2. ReadBooking(c) /\ Faulted(c)
    BY DEF BInv
  <2>3. ReadBooking(c)'
    <3>1. /\ version[c] = Len(seen[c]) - 1
          /\ Len(seen[c]) <= Len(log[CallStream(c)])
          /\ seen[c] = Begun(CallStream(c), Len(seen[c]))
          /\ \A i \in 1..Len(seen[c]) : Known(log[CallStream(c)][i])
          /\ (cmd[c].type = "BookRoom") <=> (seen[c] = <<>>)
      BY <1>1, <2>2 DEF ReadBooking
    <3>2. CallStream(c)' = CallStream(c) /\ UNCHANGED <<log, fromName>>
      BY <1>1, <2>1 DEF CallStream, kurrentVars, typeMapVars
    <3>3. Begun(CallStream(c), Len(seen[c]))' = Begun(CallStream(c), Len(seen[c]))
      BY <2>1, <3>2 DEF Begun
    <3>4. QED BY <2>1, <3>1, <3>2, <3>3 DEF ReadBooking, Known, HasInstance
  <2>4. DecidedBooking(c)'
    BY <1>4, <1>8, <2>1 DEF DecidedBooking, BookingAct
  <2>5. Faulted(c)'
    BY <1>1, <2>1, <2>2 DEF Faulted, Known, HasInstance, CallStream, typeMapVars, kurrentVars
  <2>6. cmd'[c] = cmd[c] /\ pc[c] # "idle"
    BY <1>1, <2>1
  <2>7. QED BY <1>1, <2>1, <2>3, <2>4, <2>5, <2>6, LocalBooking
<1>9. QED BY <1>6, <1>7, <1>8

\* What a call that goes to the store has decided on.
LEMMA BookingDecided ==
    ASSUME KInv, BInv, NEW c \in Callers, pc[c] = "append"
    PROVE  \E e \in BookingEvents :
              /\ fresh[c] = <<e>> /\ e.booking = CallStream(c)
              /\ e.type = "RoomBooked" <=> seen[c] = <<>>
              /\ e.type = "PaymentRecorded" =>
                    ~Folded(seen[c]).paid /\ ~Folded(seen[c]).cancelled
              /\ e.type = "BookingCancelled" => ~Folded(seen[c]).cancelled
<1>1. cmd[c] \in Commands
  BY CallTyped
<1>2. ReadBooking(c) /\ DecidedBooking(c)
  BY DEF BInv
<1>3. ~BookingAct(cmd[c], seen[c]).err /\ fresh[c] = BookingAct(cmd[c], seen[c]).events
  BY <1>2 DEF DecidedBooking
<1>4. PICK e \in BookingEvents :
          /\ BookingAct(cmd[c], seen[c]) = Decides(e)
          /\ e.booking = cmd[c].booking
          /\ e.type = "RoomBooked" <=> cmd[c].type = "BookRoom"
          /\ e.type = "PaymentRecorded" =>
                ~Folded(seen[c]).paid /\ ~Folded(seen[c]).cancelled
          /\ e.type = "BookingCancelled" => ~Folded(seen[c]).cancelled
  BY <1>1, <1>3, DecisionsWired DEF Rejected
<1>5. fresh[c] = <<e>>
  BY <1>3, <1>4 DEF Decides
<1>6. (cmd[c].type = "BookRoom") <=> (seen[c] = <<>>)
  BY <1>2 DEF ReadBooking
<1>7. QED BY <1>1, <1>4, <1>5, <1>6, CallWired

\* The types of the program's own events have names.
LEMMA OwnEncodes ==
    ASSUME BInv, NEW e \in BookingEvents
    PROVE  /\ HasTypeName(TypeOf(e)) /\ toName[TypeOf(e)] = e.type /\ e.type \in Names
           /\ e.type \in DomainTypes /\ CanEncode(<<e>>)
           /\ Encoded(<<e>>) = <<[name |-> e.type, payload |-> e]>>
<1>1. TypeOf(e) = e.type /\ e.type \in DomainTypes
  BY EventsWired
<1>2. toName[e.type] = e.type /\ e.type \in GoTypes /\ e.type \in Names
  BY <1>1 DEF BInv, TypesWired
<1>3. e.type # Unmapped
  BY <1>2, TypeMapAssumption
<1>4. HasTypeName(TypeOf(e)) /\ toName[TypeOf(e)] = e.type
  BY <1>1, <1>2, <1>3 DEF HasTypeName
<1>5. Len(<<e>>) = 1 /\ <<e>>[1] = e /\ \A i \in 1..1 : i = 1
  OBVIOUS
<1>6. CanEncode(<<e>>)
  BY <1>4, <1>5 DEF CanEncode
<1>7. Encoded(<<e>>) = <<[name |-> e.type, payload |-> e]>>
  <2>1. Encoded(<<e>>) = [i \in 1..1 |-> [name |-> toName[TypeOf(<<e>>[i])], payload |-> <<e>>[i]]]
    BY <1>5 DEF Encoded
  <2>2. Encoded(<<e>>) = [i \in 1..1 |-> [name |-> e.type, payload |-> e]]
    BY <1>4, <1>5, <2>1
  <2>3. QED BY <2>2
<1>8. QED BY <1>1, <1>2, <1>4, <1>6, <1>7

LEMMA BookingEncodes ==
    ASSUME KInv, BInv, NEW c \in Callers, ServiceEncodeFails(c)
    PROVE  FALSE
<1>1. pc[c] = "append" /\ ~CanEncode(fresh[c])
  BY DEF ServiceEncodeFails
<1>2. QED BY <1>1, BookingDecided, OwnEncodes

LEMMA BookingConflicts ==
    ASSUME KInv, KInv', BInv, NEW c \in Callers, ServiceConflict(c)
    PROVE  BInv'
<1>1. /\ Return(c, Failure("conflict")) /\ Forget(c) /\ failures' >= failures
      /\ UNCHANGED <<typeMapVars, kurrentVars>>
  <2>1. failures \in Nat /\ failures' = failures
    BY CallerIs DEF ServiceConflict
  <2>2. QED BY <2>1 DEF ServiceConflict, Conflict, KurrentConflict
<1>2. Failure("conflict").outcome \notin InternalErrors
  BY DEF Failure, InternalErrors
<1>3. QED BY <1>1, <1>2, BookingReturns

LEMMA BookingLoadFails ==
    ASSUME KInv, KInv', BInv, NEW c \in Callers, ServiceLoadFails(c)
    PROVE  BInv'
<1>1. /\ Return(c, Failure("storeFailed")) /\ UNCHANGED serviceVars /\ failures' >= failures
      /\ UNCHANGED <<typeMapVars, kurrentVars>> /\ pc[c] = "load"
  <2>1. failures \in Nat /\ failures' = failures
    BY CallerIs DEF ServiceLoadFails
  <2>2. QED BY <2>1 DEF ServiceLoadFails
<1>2. cmd[c] \in Commands
  BY <1>1, CallTyped
<1>3. PICK b \in Streams : b = CallStream(c)
  BY <1>2, CallWired
<1>4. PICK i \in 1..Len(log[b]) : ~Known(log[b][i])
  <2>1. KurrentTypeOK /\ Everything \in Nat /\ 0 \in Nat /\ Begin(b, 0) = 0
    BY PartsOfKInv DEF Everything, BInv, Whole, Begin
  <2>2. \A i \in 1..Len(Forwards(b, 0, Everything)) :
           /\ Begin(b, 0) + i \in 1..Len(log[b])
           /\ Forwards(b, 0, Everything)[i] = log[b][Begin(b, 0) + i]
    BY <2>1, ForwardsShows
  <2>3. ~CanDecode(Forwards(b, 0, Everything))
    BY <1>3 DEF ServiceLoadFails, Readable
  <2>4. QED BY <2>1, <2>2, <2>3 DEF CanDecode, Known
<1>5. QED BY <1>1, <1>2, <1>3, <1>4, BookingReturns

-----------------------------------------------------------------------------
\* An append of one event.
LEMMA RecordOne ==
    ASSUME KurrentTypeOK, NEW b \in Streams, NEW n \in Names, NEW p \in Payloads,
           Record(b, <<[name |-> n, payload |-> p]>>)
    PROVE  /\ KurrentTypeOK' /\ Grows /\ commits' = commits + 1
           /\ Len(log'[b]) = Len(log[b]) + 1
           /\ \A i \in 1..Len(log[b]) : log'[b][i] = log[b][i]
           /\ log'[b][Len(log[b]) + 1] =
                 [name |-> n, payload |-> p, position |-> Len(log[b]), global |-> commits]
           /\ \A a \in Streams \ {b} : log'[a] = log[a]
<1>1. PICK old \in Seq(RecordedEvents), m \in Nat :
          old = log[b] /\ m = Len(old) /\ commits \in Nat
  BY DEF KurrentTypeOK
<1>2. PICK e : e = [name |-> n, payload |-> p, position |-> m, global |-> commits]
  OBVIOUS
<1>3. e \in RecordedEvents
  BY <1>1, <1>2 DEF RecordedEvents
<1>4. PICK sent : sent = <<[name |-> n, payload |-> p]>>
  OBVIOUS
<1>5. sent \in Seq(Sent) /\ Len(sent) = 1 /\ sent[1] = [name |-> n, payload |-> p]
  BY <1>4 DEF Sent
<1>6. Recorded(b, sent) = <<e>>
  <2>1. Recorded(b, sent) =
          [i \in 1..1 |-> [name |-> sent[i].name, payload |-> sent[i].payload,
                           position |-> m + i - 1, global |-> commits + i - 1]]
    BY <1>1, <1>5 DEF Recorded
  <2>2. \A i \in 1..1 : /\ sent[i].name = n /\ sent[i].payload = p
                        /\ m + i - 1 = m /\ commits + i - 1 = commits
    BY <1>1, <1>5
  <2>3. Recorded(b, sent) = [i \in 1..1 |-> e]
    BY <1>2, <2>1, <2>2
  <2>4. QED BY <2>3
<1>7. PICK joined : joined = old \o <<e>>
  OBVIOUS
<1>8. <<e>> \in Seq(RecordedEvents) /\ Len(<<e>>) = 1 /\ <<e>>[1] = e
  BY <1>3
<1>9. /\ Len(joined) = m + 1 /\ \A i \in 1..m : joined[i] = old[i]
      /\ joined[m + 1] = e
  <2>1. /\ Len(old \o <<e>>) = Len(old) + Len(<<e>>)
        /\ \A i \in 1..Len(old) : (old \o <<e>>)[i] = old[i]
        /\ \A i \in 1..Len(<<e>>) : (old \o <<e>>)[Len(old) + i] = <<e>>[i]
    BY ONLY old \in Seq(RecordedEvents), <1>8, Concatenation
  <2>2. QED BY <1>1, <1>7, <1>8, <2>1
<1>10. log' = [log EXCEPT ![b] = joined] /\ commits' = commits + 1
  BY <1>1, <1>4, <1>5, <1>6, <1>7 DEF Record, KurrentTypeOK
<1>11. KurrentTypeOK' /\ Grows
  BY <1>4, <1>5, RecordGrows
<1>12. log'[b] = joined /\ \A a \in Streams \ {b} : log'[a] = log[a]
  BY <1>10 DEF KurrentTypeOK
<1>13. QED BY <1>1, <1>2, <1>9, <1>10, <1>11, <1>12

\* An event appended to a booking keeps its rules, if it is one the rules allow or one
\* of a type the program does not know.
LEMMA BookingAppends ==
    ASSUME KurrentTypeOK, BInv, UNCHANGED typeMapVars,
           NEW b \in Streams, NEW n \in Names, NEW p \in Payloads,
           Record(b, <<[name |-> n, payload |-> p]>>),
           HasInstance(n) =>
              /\ n = p.type /\ \A i \in 1..Len(log[b]) : Known(log[b][i])
              /\ Allowed(b, Len(log[b]) + 1, p, Begun(b, Len(log[b])))
    PROVE  TypesWired' /\ Whole' /\ Committed' /\ \A a \in Streams : Ruled(a)'
<1>1. /\ KurrentTypeOK' /\ Grows /\ commits' = commits + 1
      /\ Len(log'[b]) = Len(log[b]) + 1
      /\ \A i \in 1..Len(log[b]) : log'[b][i] = log[b][i]
      /\ log'[b][Len(log[b]) + 1] =
            [name |-> n, payload |-> p, position |-> Len(log[b]), global |-> commits]
      /\ \A a \in Streams \ {b} : log'[a] = log[a]
  BY RecordOne
<1>2. PICK m \in Nat : m = Len(log[b])
  BY DEF KurrentTypeOK
<1> PICK x \in Nat : x = commits
  BY DEF KurrentTypeOK
<1>3. \A a \in Streams : Len(log[a]) \in Nat
  BY DEF KurrentTypeOK
<1>4. TypesWired'
  BY DEF BInv, TypesWired, typeMapVars
<1>5. Whole'
  BY DEF BInv, Whole, Record
<1>6. /\ Len(log'[b]) = m + 1 /\ log'[b][m + 1].global = x /\ commits' = x + 1
      /\ log'[b][m + 1].name = n /\ log'[b][m + 1].payload = p
      /\ \A i \in 1..m : log'[b][i] = log[b][i]
  BY <1>1, <1>2
<1>7. Committed /\ Ruled(b) /\ \A a \in Streams : Ruled(a)
  BY DEF BInv
<1>8. ASSUME NEW a \in Streams, NEW i \in 1..Len(log'[a])
      PROVE  (a = b /\ i = m + 1) \/ i \in 1..Len(log[a])
  <2>1. CASE a = b
    BY <1>2, <1>6, <2>1
  <2>2. CASE a # b
    BY <1>1, <2>2
  <2>3. QED BY <2>1, <2>2
<1>9. ASSUME NEW a \in Streams, NEW i \in 1..Len(log[a])
      PROVE  /\ log'[a][i] = log[a][i] /\ log[a][i].global \in Nat
             /\ log[a][i].global < x /\ ~(a = b /\ i = m + 1)
  <2>1. log[a][i] \in RecordedEvents
    BY DEF KurrentTypeOK
  <2>2. log'[a][i] = log[a][i]
    BY <1>1 DEF Grows
  <2>3. log[a][i].global < x
    BY <1>7 DEF Committed
  <2>4. ~(a = b /\ i = m + 1)
    BY <1>2
  <2>5. QED BY <2>1, <2>2, <2>3, <2>4 DEF RecordedEvents
<1>10. Committed'
  <2>1. ASSUME NEW a \in Streams, NEW i \in 1..Len(log'[a])
        PROVE  /\ log'[a][i].global < commits'
               /\ \A j \in 1..Len(log'[a]) : i < j => log'[a][i].global < log'[a][j].global
               /\ \A c \in Streams : \A j \in 1..Len(log'[c]) :
                     log'[a][i].global = log'[c][j].global => c = a /\ i = j
    <3>1. log'[a][i].global < commits'
      <4>1. CASE a = b /\ i = m + 1
        BY <1>6, <4>1
      <4>2. CASE i \in 1..Len(log[a])
        <5>1. log'[a][i] = log[a][i] /\ log[a][i].global \in Nat /\ log[a][i].global < x
          BY <1>9, <4>2
        <5>2. QED BY ONLY x \in Nat, <1>6, <5>1
      <4>3. QED BY <1>8, <4>1, <4>2
    <3>2. ASSUME NEW j \in 1..Len(log'[a]), i < j
          PROVE  log'[a][i].global < log'[a][j].global
      <4>1. CASE j \in 1..Len(log[a])
        <5>1. i \in 1..Len(log[a])
          BY <1>3, <3>2, <4>1
        <5>2. log'[a][i] = log[a][i] /\ log'[a][j] = log[a][j]
          BY <1>9, <4>1, <5>1
        <5>3. QED BY <1>7, <3>2, <4>1, <5>1, <5>2 DEF Committed
      <4>2. CASE a = b /\ j = m + 1
        <5>1. i \in 1..Len(log[a])
          BY <1>8, <3>2, <4>2
        <5>2. QED BY <1>6, <1>9, <4>2, <5>1
      <4>3. QED BY <1>8, <4>1, <4>2
    <3>3. ASSUME NEW c \in Streams, NEW j \in 1..Len(log'[c]),
                 log'[a][i].global = log'[c][j].global
          PROVE  c = a /\ i = j
      <4>1. CASE a = b /\ i = m + 1 /\ c = b /\ j = m + 1
        BY <4>1
      <4>2. CASE a = b /\ i = m + 1 /\ j \in 1..Len(log[c])
        <5>1. log'[c][j].global < x /\ log'[c][j].global \in Nat
          BY <1>9, <4>2
        <5>2. QED BY <1>6, <3>3, <4>2, <5>1
      <4>3. CASE i \in 1..Len(log[a]) /\ c = b /\ j = m + 1
        <5>1. log'[a][i].global < x /\ log'[a][i].global \in Nat
          BY <1>9, <4>3
        <5>2. QED BY <1>6, <3>3, <4>3, <5>1
      <4>4. CASE i \in 1..Len(log[a]) /\ j \in 1..Len(log[c])
        <5>1. log[a][i].global = log[c][j].global
          BY <1>9, <3>3, <4>4
        <5>2. QED BY <1>7, <4>4, <5>1 DEF Committed
      <4>5. QED BY <1>8, <4>1, <4>2, <4>3, <4>4
    <3>4. QED BY <3>1, <3>2, <3>3
  <2>2. ASSUME NEW q \in 0..(commits' - 1)
        PROVE  \E a \in Streams : \E i \in 1..Len(log'[a]) : log'[a][i].global = q
    <3>1. CASE q = x
      <4>1. m + 1 \in 1..Len(log'[b])
        BY <1>6
      <4>2. QED BY <1>6, <3>1, <4>1
    <3>2. CASE q # x
      <4>1. q \in 0..(x - 1)
        BY <1>6, <3>2
      <4>2. PICK a \in Streams : \E i \in 1..Len(log[a]) : log[a][i].global = q
        BY <1>7, <4>1 DEF Committed
      <4>3. PICK i \in 1..Len(log[a]) : log[a][i].global = q
        BY <4>2
      <4>4. i \in 1..Len(log'[a]) /\ log'[a][i] = log[a][i]
        <5>1. Len(log'[a]) >= Len(log[a]) /\ Len(log'[a]) \in Nat
          BY <1>1 DEF Grows, KurrentTypeOK
        <5>2. log'[a][i] = log[a][i]
          BY <1>1 DEF Grows
        <5>3. QED BY <1>3, <5>1, <5>2
      <4>5. QED BY <4>3, <4>4
    <3>3. QED BY <3>1, <3>2
  <2>3. QED BY <2>1, <2>2 DEF Committed
<1>11. ASSUME NEW a \in Streams PROVE Ruled(a)'
  <2>1. CASE a # b
    <3>1. log'[a] = log[a] /\ UNCHANGED fromName
      BY <1>1, <2>1 DEF typeMapVars
    <3>2. QED BY <1>7, <3>1 DEF Ruled, Known, HasInstance, Begun
  <2>2. CASE a = b
    <3>1. ASSUME NEW i \in 1..(m + 1), fromName'[log'[b][i].name] # Unmapped
          PROVE  /\ \A j \in 1..i : fromName'[log'[b][j].name] # Unmapped
                 /\ log'[b][i].name = log'[b][i].payload.type
                 /\ Allowed(b, i, log'[b][i].payload, [j \in 1..(i - 1) |-> log'[b][j].payload])
      <4>0. fromName' = fromName
        BY DEF typeMapVars
      <4>1. [j \in 1..(i - 1) |-> log'[b][j].payload] = Begun(b, i - 1)
        <5>1. \A j \in 1..(i - 1) : j \in 1..m
          OBVIOUS
        <5>2. QED BY <1>6, <5>1 DEF Begun
      <4>2. CASE i \in 1..m
        <5>1. \A j \in 1..i : j \in 1..m
          BY <4>2
        <5>2. i \in 1..m /\ log'[b][i] = log[b][i]
              /\ \A j \in 1..i : log'[b][j] = log[b][j]
          BY ONLY <1>6, <4>2, <5>1
        <5>3. fromName[log[b][i].name] # Unmapped
          BY <3>1, <4>0, <5>2
        <5>4. /\ \A j \in 1..i : fromName[log[b][j].name] # Unmapped
              /\ log[b][i].name = log[b][i].payload.type
              /\ Allowed(b, i, log[b][i].payload, Begun(b, i - 1))
          BY ONLY <1>2, <1>7, <4>2, <5>3 DEF Ruled, Known, HasInstance
        <5>5. QED BY ONLY <4>0, <4>1, <5>2, <5>4
      <4>3. CASE i = m + 1
        <5>1. HasInstance(n)
          BY <1>6, <3>1, <4>0, <4>3 DEF HasInstance
        <5>2. \A j \in 1..i : j = i \/ j \in 1..m
          BY <4>3
        <5>3. i - 1 = m /\ i = Len(log[b]) + 1
          BY <1>2, <4>3
        <5>4. QED BY <1>2, <1>6, <3>1, <4>0, <4>1, <4>3, <5>1, <5>2, <5>3
                  DEF Known, HasInstance
      <4>4. QED BY <4>2, <4>3
    <3>2. QED BY <1>6, <2>2, <3>1 DEF Ruled, Known, HasInstance, Begun
  <2>3. QED BY <2>1, <2>2
<1>12. QED BY <1>4, <1>5, <1>10, <1>11

\* What a call has read by the time the server accepts what it decided on is the whole of
\* its booking.
LEMMA BookingAccepts ==
    ASSUME KInv, KInv', BInv, UNCHANGED typeMapVars, failures' >= failures,
           NEW c \in Callers, pc[c] = "append", Accept(c), NEW r, Return(c, r), Forget(c),
           r.outcome \in InternalErrors => failures' > 0
    PROVE  BInv'
<1>1. /\ c \in AllCallers /\ CallsTypeOK /\ ServiceTypeOK /\ KurrentTypeOK
      /\ cmd[c] \in Commands
  BY CallerIs, CallTyped
<1>2. PICK b \in Streams : b = CallStream(c)
  BY <1>1, CallWired
<1>3. PICK e \in BookingEvents :
          /\ fresh[c] = <<e>> /\ e.booking = CallStream(c)
          /\ e.type = "RoomBooked" <=> seen[c] = <<>>
          /\ e.type = "PaymentRecorded" =>
                ~Folded(seen[c]).paid /\ ~Folded(seen[c]).cancelled
          /\ e.type = "BookingCancelled" => ~Folded(seen[c]).cancelled
  BY BookingDecided
<1>4. Matches(b, version[c]) /\ Record(b, <<[name |-> e.type, payload |-> e]>>)
  BY <1>2, <1>3, OwnEncodes DEF Accept, KurrentAppend
<1>5. ReadBooking(c)
  BY DEF BInv
<1>6. PICK m \in Nat : m = Len(log[b])
  BY <1>1 DEF KurrentTypeOK
<1>7. Len(seen[c]) = m
  <2>1. Read(b, seen[c], version[c])
    BY <1>2 DEF KInv, Knows
  <2>2. deleted = {}
    BY DEF BInv, Whole
  <2>3. seen[c] \in Seq(Payloads)
    BY CallTyped
  <2>4. Len(seen[c]) = Len(log[b])
    BY <1>1, <1>4, <2>1, <2>2, <2>3, MatchesWhole
  <2>5. QED BY <1>6, <2>4
<1>8. /\ seen[c] = Begun(b, m) /\ \A i \in 1..m : Known(log[b][i])
      /\ (cmd[c].type = "BookRoom") <=> (seen[c] = <<>>)
      /\ (seen[c] = <<>>) <=> m = 0
  <2>1. (seen[c] = <<>>) <=> Len(seen[c]) = 0
    BY CallTyped
  <2>2. QED BY <1>2, <1>5, <1>7, <2>1 DEF ReadBooking
<1>9. Allowed(b, m + 1, e, Begun(b, m))
  BY <1>2, <1>3, <1>6, <1>8 DEF Allowed
<1>10. e \in Payloads /\ e.type \in Names
  BY EventsWired, OwnEncodes
<1>11. TypesWired' /\ Whole' /\ Committed' /\ \A a \in Streams : Ruled(a)'
  <2>1. /\ e.type = e.type /\ \A i \in 1..Len(log[b]) : Known(log[b][i])
        /\ Allowed(b, Len(log[b]) + 1, e, Begun(b, Len(log[b])))
    BY <1>6, <1>8, <1>9
  <2>2. QED BY <1>1, <1>4, <1>10, <2>1, BookingAppends
<1>12. Grows /\ \A a \in Streams \ {b} : log'[a] = log[a]
  BY <1>1, <1>4, <1>10, RecordOne
<1>13. /\ pc'[c] = "idle" /\ result'[c] = r /\ UNCHANGED cmd
       /\ \A d \in AllCallers \ {c} : pc'[d] = pc[d] /\ result'[d] = result[d]
  BY <1>1 DEF Return, CallsTypeOK
<1>14. \A d \in Callers \ {c} : Same(d)
  BY <1>1, <1>13 DEF Forget, ServiceTypeOK, Same, Stays, AllCallers
<1>15. ReadBooking(c)' /\ DecidedBooking(c)' /\ Faulted(c)'
  BY <1>1, <1>13 DEF ReadBooking, DecidedBooking, Faulted
<1>16. ASSUME NEW d \in Callers PROVE ReadBooking(d)' /\ DecidedBooking(d)' /\ Faulted(d)'
  <2>1. CASE d = c
    BY <1>15, <2>1
  <2>2. CASE d # c
    BY <1>12, <1>14, <2>2, CallerStays
  <2>3. QED BY <2>1, <2>2
<1>17. \A d \in Callers : Books(d)' => d # c /\ Books(d) /\ CallStream(d)' = CallStream(d)
  BY <1>13, <1>14 DEF Books, Same, Stays, CallStream
<1>18. ASSUME NEW d \in Callers PROVE OwnId(d)'
  <2>1. SUFFICES ASSUME Books(d)' PROVE OwnId(d)'
    BY DEF OwnId
  <2>2. OwnId(d) /\ OwnId(c) /\ d # c /\ Books(d) /\ CallStream(d)' = CallStream(d)
    BY <1>17, <2>1 DEF BInv
  <2>3. CallStream(d) # b
    <3>1. SUFFICES ASSUME CallStream(d) = b PROVE FALSE
      OBVIOUS
    <3>2. cmd[c].type # "BookRoom"
      BY <1>2, <2>2, <3>1 DEF OwnId, Books
    <3>3. m # 0 /\ 1 \in 1..m /\ Known(log[b][1])
      BY <1>8, <3>2
    <3>4. QED BY <1>6, <2>2, <3>1, <3>3 DEF OwnId
  <2>4. CallStream(d) \in Streams
    BY <2>2, CallTyped DEF Books
  <2>5. \A i \in 1..Len(log'[CallStream(d)']) : ~Known(log[CallStream(d)][i])'
    BY <1>12, <2>2, <2>3, <2>4 DEF OwnId, Known, HasInstance, typeMapVars
  <2>6. \A x \in Callers : Books(x)' /\ CallStream(x)' = CallStream(d)' => x = d
    BY <1>17, <2>2 DEF OwnId
  <2>7. QED BY <2>5, <2>6 DEF OwnId
<1>19. QED BY <1>11, <1>16, <1>18 DEF BInv

LEMMA BookingSucceeds ==
    ASSUME KInv, KInv', BInv, NEW c \in Callers, ServiceAppend(c)
    PROVE  BInv'
<1>1. PICK r : r = AppendedResult(seen[c] \o fresh[c], fresh[c],
                       KurrentResult(CallStream(c), fresh[c]), KnownPayloads)
  OBVIOUS
<1>2. /\ pc[c] = "append" /\ Accept(c) /\ Return(c, r) /\ Forget(c)
      /\ UNCHANGED <<typeMapVars, failures>>
  BY <1>1 DEF ServiceAppend, Appended
<1>3. r.outcome = "ok"
  <2>1. PICK e \in BookingEvents : fresh[c] = <<e>>
    BY <1>2, BookingDecided
  <2>2. e \in KnownPayloads
    BY EventsWired, OwnEncodes DEF KnownPayloads
  <2>3. \A i \in 1..Len(fresh[c]) : fresh[c][i] \in KnownPayloads
    <3>1. Len(fresh[c]) = 1 /\ fresh[c][1] = e
      BY <2>1
    <3>2. QED BY <2>2, <3>1
  <2>4. QED BY <1>1, <2>3 DEF AppendedResult, Success
<1>4. r.outcome \notin InternalErrors
  BY <1>3 DEF InternalErrors
<1>5. failures' >= failures
  BY <1>2, CallerIs
<1>6. QED BY <1>2, <1>4, <1>5, BookingAccepts

LEMMA BookingFails ==
    ASSUME KInv, KInv', BInv, NEW c \in Callers, ServiceFails(c)
    PROVE  BInv'
<1>1. /\ pc[c] \in {"load", "append"} /\ Return(c, Failure("storeFailed")) /\ Forget(c)
      /\ UNCHANGED typeMapVars /\ failures' >= failures /\ failures' > 0
  <2>1. failures \in Nat /\ failures' = failures + 1
    BY CallerIs DEF ServiceFails
  <2>2. QED BY <2>1 DEF ServiceFails
<1>2. cmd[c] \in Commands
  BY <1>1, CallTyped
<1>3. CASE UNCHANGED <<kurrentVars, decisions>>
  BY <1>1, <1>2, <1>3, BookingReturns
<1>4. CASE pc[c] = "append" /\ Accept(c)
  BY <1>1, <1>4, BookingAccepts
<1>5. QED BY <1>3, <1>4 DEF ServiceFails

LEMMA BookingForeign ==
    ASSUME KInv, KInv', BInv, NEW b \in Streams, ForeignAppend(b)
    PROVE  BInv'
<1>1. KurrentTypeOK /\ UNCHANGED <<typeMapVars, callVars, serviceVars, failures>>
  BY PartsOfKInv DEF ForeignAppend
<1>2. PICK e \in Foreign : Record(b, <<e>>)
  BY DEF ForeignAppend
<1>3. PICK n \in Names, p \in Payloads :
          n = e.name /\ p = e.payload /\ e = [name |-> n, payload |-> p]
  <2>1. e \in [name : Names, payload : Payloads]
    BY KurrentAssumption
  <2>2. e.name \in Names /\ e.payload \in Payloads
        /\ e = [name |-> e.name, payload |-> e.payload]
    BY <2>1
  <2>3. QED BY <2>2
<1>4. ~HasInstance(n)
  <2>1. n \notin DomainTypes
    BY <1>2, <1>3, MainAssumption
  <2>2. TypesWired
    BY DEF BInv
  <2>3. QED BY <2>1, <2>2 DEF TypesWired, HasInstance
<1>5. Record(b, <<[name |-> n, payload |-> p]>>)
  BY <1>2, <1>3
<1>6. TypesWired' /\ Whole' /\ Committed' /\ \A a \in Streams : Ruled(a)'
  <2>1. n \in Names /\ p \in Payloads
    BY <1>3
  <2>2. QED BY <1>1, <1>4, <1>5, <2>1, BookingAppends
<1>7. PICK m \in Nat : m = Len(log[b])
  BY <1>1 DEF KurrentTypeOK
<1>8. /\ Grows /\ Len(log'[b]) = m + 1 /\ log'[b][m + 1].name = n
      /\ \A i \in 1..m : log'[b][i] = log[b][i]
      /\ \A a \in Streams \ {b} : log'[a] = log[a]
  <2>1. n \in Names /\ p \in Payloads
    BY <1>3
  <2>2. /\ Grows /\ Len(log'[b]) = Len(log[b]) + 1
        /\ \A i \in 1..Len(log[b]) : log'[b][i] = log[b][i]
        /\ log'[b][Len(log[b]) + 1] =
              [name |-> n, payload |-> p, position |-> Len(log[b]), global |-> commits]
        /\ \A a \in Streams \ {b} : log'[a] = log[a]
    BY ONLY b \in Streams, <1>1, <1>5, <2>1, RecordOne
  <2>3. log'[b][Len(log[b]) + 1].name = n
    BY <2>2
  <2>4. QED BY <1>7, <2>2, <2>3
<1>9. failures' >= failures
  <2>1. RestTypeOK
    BY PartsOfKInv
  <2>2. QED BY <1>1, <2>1, KurrentAssumption DEF RestTypeOK
<1>10. \A d \in Callers : Same(d)
  BY <1>1 DEF Same, Stays, callVars, serviceVars
<1>11. ASSUME NEW d \in Callers PROVE ReadBooking(d)' /\ DecidedBooking(d)' /\ Faulted(d)'
  BY <1>1, <1>8, <1>9, <1>10, CallerStays
<1>12. \A d \in Callers : (Books(d)' <=> Books(d)) /\ CallStream(d)' = CallStream(d)
  BY <1>1 DEF Books, CallStream, callVars
<1>13. ASSUME NEW d \in Callers PROVE OwnId(d)'
  <2>1. SUFFICES ASSUME Books(d)' PROVE OwnId(d)'
    BY DEF OwnId
  <2>2. OwnId(d) /\ Books(d)
    BY <1>12, <2>1 DEF BInv
  <2>3. PICK a \in Streams : a = CallStream(d)
    BY <2>2, CallTyped DEF Books
  <2>4. \A i \in 1..Len(log[a]) : ~Known(log[a][i])
    BY <2>2, <2>3 DEF OwnId
  <2>5. \A i \in 1..Len(log'[a]) : ~Known(log[a][i])'
    <3>1. CASE a = b
      <4>1. \A i \in 1..Len(log'[a]) : i \in 1..m \/ i = m + 1
        BY <1>8, <3>1
      <4>2. QED BY <1>1, <1>4, <1>7, <1>8, <2>4, <3>1, <4>1 DEF Known, HasInstance, typeMapVars
    <3>2. CASE a # b
      BY <1>1, <1>8, <2>4, <3>2 DEF Known, HasInstance, typeMapVars
    <3>3. QED BY <3>1, <3>2
  <2>6. \A x \in Callers : Books(x)' /\ CallStream(x)' = CallStream(d)' => x = d
    BY <1>12, <2>2 DEF OwnId
  <2>7. CallStream(d)' = a
    BY <1>12, <2>3
  <2>8. QED BY <2>5, <2>6, <2>7 DEF OwnId
<1>14. QED BY <1>6, <1>11, <1>13 DEF BInv

LEMMA BookingExits ==
    ASSUME KInv, BInv, Exit
    PROVE  KInv' /\ BInv'
<1>1. /\ CallsTypeOK /\ ServiceTypeOK /\ KurrentTypeOK /\ RestTypeOK /\ StoreInv
      /\ UNCHANGED <<typeMapVars, kurrentVars, upkeepVars, failures, decisions>>
  BY PartsOfKInv DEF Exit
<1>2. PICK sent \in SUBSET {c \in Callers : pc[c] = "append"} :
         LET Left(f, none) == [c \in DOMAIN f |-> IF c \in sent THEN f[c] ELSE none]
         IN  /\ pc' = Left(pc, "idle") /\ cmd' = Left(cmd, NoCommand)
             /\ result' = Left(result, Failure("none"))
             /\ seen' = Left(seen, <<>>) /\ version' = Left(version, VersionNoStream)
             /\ fresh' = Left(fresh, <<>>) /\ since' = Left(since, 0)
  BY DEF Exit
<1>3. /\ pc' = [c \in AllCallers |-> IF c \in sent THEN pc[c] ELSE "idle"]
      /\ cmd' = [c \in AllCallers |-> IF c \in sent THEN cmd[c] ELSE NoCommand]
      /\ result' = [c \in AllCallers |-> IF c \in sent THEN result[c] ELSE Failure("none")]
  BY <1>1, <1>2 DEF CallsTypeOK
<1>4. /\ seen' = [c \in Callers |-> IF c \in sent THEN seen[c] ELSE <<>>]
      /\ version' = [c \in Callers |-> IF c \in sent THEN version[c] ELSE VersionNoStream]
      /\ fresh' = [c \in Callers |-> IF c \in sent THEN fresh[c] ELSE <<>>]
  BY <1>1, <1>2 DEF ServiceTypeOK
<1>5. since' = [c \in Callers |-> IF c \in sent THEN since[c] ELSE 0]
  BY <1>1, <1>2 DEF RestTypeOK
<1>6. CallsTypeOK'
  <2>1. Failure("none") \in Results
    BY FailureTyped DEF Outcomes
  <2>2. pc' \in [AllCallers -> {"idle", "load", "decide", "append"}]
    BY <1>1, <1>3 DEF CallsTypeOK
  <2>3. cmd' \in [AllCallers -> Commands \union {NoCommand}]
    BY <1>1, <1>3 DEF CallsTypeOK
  <2>4. result' \in [AllCallers -> Results]
    BY <1>1, <1>3, <2>1 DEF CallsTypeOK
  <2>5. \A c \in AllCallers : pc'[c] # "idle" => cmd'[c] \in DOMAIN Handlers
    BY <1>1, <1>3 DEF CallsTypeOK
  <2>6. QED BY <2>2, <2>3, <2>4, <2>5 DEF CallsTypeOK
<1>7. ServiceTypeOK'
  <2>1. <<>> \in Seq(Payloads) /\ VersionNoStream \in Int
    BY DEF VersionNoStream
  <2>2. QED BY <1>1, <1>4, <2>1 DEF ServiceTypeOK
<1>8. since' \in [Callers -> Nat] /\ failures' \in 0..MaxFailures
  BY <1>1, <1>5 DEF RestTypeOK
<1>9. \A d \in Callers : \/ d \in sent /\ Same(d)
                         \/ pc'[d] = "idle" /\ result'[d].outcome = "none"
  BY <1>3, <1>4 DEF Same, Stays, Failure, AllCallers
<1>10. KInv'
  <2>1. \A d \in Callers : Stays(d) \/ Knows(d)'
    BY <1>9 DEF Same, Knows
  <2>2. QED BY <1>1, <1>6, <1>7, <1>8, <2>1, LocalStep
<1>11. TypesWired' /\ Whole' /\ Committed' /\ \A a \in Streams : Ruled(a)'
  BY <1>1, LogStays
<1>12. Grows /\ failures' >= failures
  BY <1>1, KurrentAssumption, StaysGrows DEF kurrentVars, RestTypeOK
<1>13. ASSUME NEW d \in Callers PROVE ReadBooking(d)' /\ DecidedBooking(d)' /\ Faulted(d)'
  <2>1. CASE Same(d)
    BY <1>1, <1>10, <1>12, <2>1, CallerStays
  <2>2. CASE pc'[d] = "idle" /\ result'[d].outcome = "none"
    BY <2>2 DEF ReadBooking, DecidedBooking, Faulted, InternalErrors
  <2>3. QED BY <1>9, <2>1, <2>2
<1>14. \A d \in Callers : Books(d)' => Books(d) /\ CallStream(d)' = CallStream(d)
  BY <1>9 DEF Books, Same, Stays, CallStream
<1>15. ASSUME NEW d \in Callers PROVE OwnId(d)'
  <2>1. OwnId(d) /\ UNCHANGED <<log, fromName>>
    BY <1>1 DEF BInv, kurrentVars, typeMapVars
  <2>2. QED BY <1>14, <2>1 DEF OwnId, Known, HasInstance
<1>16. QED BY <1>10, <1>11, <1>13, <1>15 DEF BInv

LEMMA BookingStutters ==
    ASSUME KInv, BInv, UNCHANGED vars
    PROVE  KInv' /\ BInv'
<1>1. KInv' /\ UNCHANGED <<typeMapVars, kurrentVars, callVars, serviceVars, failures>>
  BY StutterKeeps DEF vars
<1>2. TypesWired' /\ Whole' /\ Committed' /\ \A a \in Streams : Ruled(a)'
  BY <1>1, LogStays
<1>3. Grows /\ failures' >= failures
  <2>1. KurrentTypeOK /\ RestTypeOK
    BY PartsOfKInv
  <2>2. QED BY <1>1, <2>1, KurrentAssumption, StaysGrows DEF kurrentVars, RestTypeOK
<1>4. \A d \in Callers : Same(d)
  BY <1>1 DEF Same, Stays, callVars, serviceVars
<1>5. ASSUME NEW d \in Callers PROVE ReadBooking(d)' /\ DecidedBooking(d)' /\ Faulted(d)'
  BY <1>1, <1>3, <1>4, CallerStays
<1>6. ASSUME NEW d \in Callers PROVE OwnId(d)'
  <2>1. \A x \in Callers : (Books(x)' <=> Books(x)) /\ CallStream(x)' = CallStream(x)
    BY <1>1 DEF Books, CallStream, callVars
  <2>2. OwnId(d) /\ UNCHANGED <<log, fromName>>
    BY <1>1 DEF BInv, kurrentVars, typeMapVars
  <2>3. QED BY <2>1, <2>2 DEF OwnId, Known, HasInstance
<1>7. QED BY <1>1, <1>2, <1>5, <1>6 DEF BInv

LEMMA BookingPreserved ==
    ASSUME ActsAsDomain, KInv, BInv, [BookingNext]_bookingVars
    PROVE  KInv' /\ BInv'
<1>1. ASSUME NEW c \in Callers, Serve(c) PROVE KInv' /\ BInv'
  <2>1. KInv'
    BY <1>1, Preserved DEF Serve, Next
  <2>2. QED BY <1>1, <2>1, BookingLoads, BookingLoadFails, BookingDecides, BookingEncodes,
               BookingSucceeds, BookingConflicts, BookingFails
            DEF Serve, ServiceLocal, ServiceStore
<1>2. ASSUME NEW c \in Callers, NEW k \in Commands, Request(c, k) PROVE KInv' /\ BInv'
  <2>1. KInv'
    BY <1>2, Preserved DEF Request, Next
  <2>2. QED BY <1>2, <2>1, BookingCalls DEF Request
<1>3. ASSUME NEW b \in Streams, OtherProgram(b) PROVE KInv' /\ BInv'
  <2>1. KInv'
    BY <1>3, Preserved DEF OtherProgram, Next
  <2>2. QED BY <1>3, <2>1, BookingForeign DEF OtherProgram
<1>4. CASE Receive \/ SubscriptionEnds \/ Restart \/ UNCHANGED bookingVars
  BY <1>4, BookingStutters DEF Receive, SubscriptionEnds, Restart, bookingVars
<1>5. CASE Exit
  BY <1>5, BookingExits
<1>6. QED BY <1>1, <1>2, <1>3, <1>4, <1>5 DEF BookingNext

\* The invariant of the bookings is inductive: what the calls, the foreign programs and
\* the store leave of each stream is the history of one booking (domain/handlers.go).
THEOREM BookingInductive == ActsAsDomain => (BookingSpec => [](KInv /\ BInv))
<1> SUFFICES ASSUME ActsAsDomain PROVE BookingSpec => [](KInv /\ BInv)
  OBVIOUS
<1>1. BookingInit => KInv /\ BInv
  BY BookingStarts
<1>2. (KInv /\ BInv) /\ [BookingNext]_bookingVars => (KInv /\ BInv)'
  BY BookingPreserved
<1>3. QED BY <1>1, <1>2, PTL DEF BookingSpec

\* An internal error is the store's or another program's.
THEOREM InternalErrorsAreFaults ==
    ActsAsDomain => (BookingSpec => []ServerErrorsAreFaults)
<1> SUFFICES ASSUME ActsAsDomain PROVE BookingSpec => []ServerErrorsAreFaults
  OBVIOUS
<1>1. KInv /\ BInv => ServerErrorsAreFaults
  <2> SUFFICES ASSUME KInv, BInv, NEW c \in Callers,
                      result[c].outcome \notin {"none", "pending"},
                      StatusOf(cmd[c], result[c].outcome) = 500
               PROVE  \/ failures > 0
                      \/ \E i \in 1..Len(log[CallStream(c)]) :
                            ~HasInstance(log[CallStream(c)][i].name)
    BY DEF ServerErrorsAreFaults
  <2>1. result[c].outcome \in Outcomes
    BY CallerIs DEF CallsTypeOK, Results
  <2>2. result[c].outcome \in InternalErrors
    BY <2>1 DEF StatusOf, Outcomes, InternalErrors
  <2>3. Faulted(c)
    BY DEF BInv
  <2>4. QED BY <2>2, <2>3 DEF Faulted, Known
<1>2. BookingSpec => [](KInv /\ BInv)
  BY BookingInductive
<1>3. QED BY <1>1, <1>2, PTL

-----------------------------------------------------------------------------
\* A recursion over 0..n: steps that stay in D run from d0 to n, and two that agree at 0
\* and after each step agree.
LEMMA RunExists ==
    \A top \in Nat : \A S : \A first \in S : \A go \in [1..top -> [S -> S]] :
        \E run \in [0..top -> S] :
            run[0] = first /\ \A i \in 1..top : run[i] = go[i][run[i - 1]]
<1> SUFFICES ASSUME NEW n \in Nat, NEW D, NEW d0 \in D, NEW step \in [1..n -> [D -> D]]
             PROVE  \E h \in [0..n -> D] :
                       h[0] = d0 /\ \A i \in 1..n : h[i] = step[i][h[i - 1]]
  OBVIOUS
<1> DEFINE Is(k, h) == h[0] = d0 /\ \A i \in 1..k : h[i] = step[i][h[i - 1]]
           Runs(k) == \E h \in [0..k -> D] : Is(k, h)
           T == {k \in Nat : k <= n => Runs(k)}
<1>1. Runs(0)
  <2>1. [i \in 0..0 |-> d0] \in [0..0 -> D] /\ Is(0, [i \in 0..0 |-> d0])
    OBVIOUS
  <2>2. QED BY <2>1
<1>2. ASSUME NEW k \in Nat, k + 1 <= n, Runs(k) PROVE Runs(k + 1)
  <2>1. k \in 0..n /\ k + 1 \in 1..n
    BY <1>2
  <2>2. PICK f \in [0..k -> D] : Is(k, f)
    BY <1>2
  <2>3. PICK d \in D : d = step[k + 1][f[k]]
    BY <2>1, <2>2
  <2>4. PICK g : g = [i \in 0..(k + 1) |-> IF i = k + 1 THEN d ELSE f[i]]
    OBVIOUS
  <2>5. g \in [0..(k + 1) -> D] /\ g[0] = d0
    BY <2>1, <2>2, <2>4
  <2>6. ASSUME NEW i \in 1..(k + 1) PROVE g[i] = step[i][g[i - 1]]
    <3>1. CASE i = k + 1
      <4>1. g[i] = d /\ i - 1 = k /\ g[k] = f[k]
        BY <2>1, <2>4, <3>1
      <4>2. QED BY <2>3, <3>1, <4>1
    <3>2. CASE i # k + 1
      <4>1. i \in 1..k /\ g[i] = f[i] /\ g[i - 1] = f[i - 1]
        BY <2>1, <2>4, <3>2
      <4>2. QED BY <2>2, <4>1
    <3>3. QED BY <3>1, <3>2
  <2>7. QED BY <2>5, <2>6
<1>3. T = Nat
  <2>1. T \in SUBSET Nat /\ 0 \in T /\ \A k \in T : k + 1 \in T
    <3> HIDE DEF Runs
    <3>1. QED BY <1>1, <1>2
  <2> HIDE DEF T
  <2>2. QED BY <2>1, SetInduction
<1>4. Runs(n)
  <2> HIDE DEF Runs
  <2>1. n \in T
    <3> HIDE DEF T
    <3>1. QED BY <1>3
  <2>2. QED BY <2>1
<1>5. QED BY <1>4

LEMMA RunsAgree ==
    ASSUME NEW n \in Nat, NEW f, NEW h, f[0] = h[0],
           \A i \in 1..n : f[i - 1] = h[i - 1] => f[i] = h[i]
    PROVE  \A i \in 0..n : f[i] = h[i]
<1> DEFINE T == {i \in Nat : i <= n => f[i] = h[i]}
<1>1. ASSUME NEW i \in T, i + 1 <= n PROVE f[i + 1] = h[i + 1]
  <2>1. i + 1 \in 1..n /\ (i + 1) - 1 = i /\ f[i] = h[i]
    BY <1>1
  <2>2. QED BY <2>1
<1>2. T \in SUBSET Nat /\ 0 \in T /\ \A i \in T : i + 1 \in T
  BY <1>1
<1>3. T = Nat
  <2> HIDE DEF T
  <2>1. QED BY <1>2, SetInduction
<1>4. ASSUME NEW i \in 0..n PROVE f[i] = h[i]
  <2>1. i \in Nat
    OBVIOUS
  <2>2. i \in T
    <3> HIDE DEF T
    <3>1. QED BY <1>3, <2>1
  <2>3. QED BY <2>2
<1>5. QED BY <1>4

\* The recursion of KnownIn over the first n of these events.
KnownRun(f, n, events, types) ==
    /\ f \in [0..n -> Seq(Payloads)]
    /\ f[0] = <<>> /\ f[n] = KnownIn(events, types)
    /\ \A i \in 1..n : f[i] = IF types[events[i].name] # Unmapped
                             THEN Append(f[i - 1], events[i].payload) ELSE f[i - 1]

LEMMA KnownRuns ==
    ASSUME NEW n \in Nat, NEW types, NEW events, events \in Seq(RecordedEvents), n = Len(events)
    PROVE  \E f : KnownRun(f, n, events, types)
<1>0. PICK D : D = Seq(Payloads)
  OBVIOUS
<1>1. PICK d0 \in D : d0 = <<>>
  <2>1. <<>> \in Seq(Payloads)
    OBVIOUS
  <2>2. QED BY <1>0, <2>1
<1> DEFINE Step(i, q) == IF types[events[i].name] # Unmapped
                         THEN Append(q, events[i].payload) ELSE q
           Is(h) == h = [i \in 0..n |-> IF i = 0 THEN <<>> ELSE Step(i, h[i - 1])]
<1>3. ASSUME NEW i \in 1..n PROVE events[i].payload \in Payloads
  <2>1. events[i] \in RecordedEvents
    OBVIOUS
  <2>2. QED BY <2>1 DEF RecordedEvents
<1>4. \A i \in 1..n, q \in D : Step(i, q) \in D
  BY <1>0, <1>3
<1>5. PICK step : step = [i \in 1..n |-> [q \in D |-> Step(i, q)]]
  OBVIOUS
<1>6. step \in [1..n -> [D -> D]] /\ \A i \in 1..n, q \in D : step[i][q] = Step(i, q)
  <2> HIDE DEF Step
  <2>1. QED BY <1>4, <1>5
<1>7. PICK h \in [0..n -> D] : h[0] = <<>> /\ \A i \in 1..n : h[i] = step[i][h[i - 1]]
  <2>2. \E h \in [0..n -> D] : h[0] = d0 /\ \A i \in 1..n : h[i] = step[i][h[i - 1]]
    <3>1. PICK go \in [1..n -> [D -> D]] : go = step
      BY <1>6
    <3>2. \E run \in [0..n -> D] :
            run[0] = d0 /\ \A i \in 1..n : run[i] = go[i][run[i - 1]]
      BY ONLY n \in Nat, d0 \in D, go \in [1..n -> [D -> D]], RunExists
    <3>3. QED BY <3>1, <3>2
  <2>3. QED BY <1>1, <2>2
<1>8. \A i \in 1..n : h[i - 1] \in D /\ h[i] = Step(i, h[i - 1])
  <2> HIDE DEF Step
  <2>1. \A i \in 1..n : i - 1 \in 0..n
    OBVIOUS
  <2>2. QED BY <1>6, <1>7, <2>1
<1>9. Is(h)
  <2> HIDE DEF Step
  <2>1. \A i \in 0..n : i = 0 \/ i \in 1..n
    OBVIOUS
  <2>2. \A i \in 0..n : h[i] = IF i = 0 THEN <<>> ELSE Step(i, h[i - 1])
    BY <1>7, <1>8, <2>1
  <2>3. QED BY <1>7, <2>2
<1>10. PICK f : f = CHOOSE g : Is(g)
  OBVIOUS
<1>11. Is(f)
  <2> HIDE DEF Is
  <2>1. QED BY <1>9, <1>10
<1>12. f[0] = <<>> /\ \A i \in 1..n : f[i] = Step(i, f[i - 1])
  <2>1. f = [i \in 0..n |-> IF i = 0 THEN <<>> ELSE Step(i, f[i - 1])]
    BY <1>11
  <2> HIDE DEF Step
  <2>2. 0 \in 0..n /\ \A i \in 1..n : i \in 0..n /\ i # 0
    OBVIOUS
  <2>3. QED BY ONLY <2>1, <2>2
<1>13. \A i \in 1..n : f[i - 1] = h[i - 1] => f[i] = h[i]
  <2> HIDE DEF Step
  <2>1. QED BY <1>8, <1>12
<1>14. \A i \in 0..n : f[i] = h[i]
  <2>1. f[0] = h[0]
    BY <1>7, <1>12
  <2>2. QED BY ONLY n \in Nat, <1>13, <2>1, RunsAgree, ZenonT(100)
<1>15. KnownIn(events, types) = f[n]
  BY <1>10 DEF KnownIn
<1>16. f[n] = KnownIn(events, types) /\ h[n] = f[n]
  <2>1. n \in 0..n
    OBVIOUS
  <2>2. QED BY <1>14, <1>15, <2>1
<1>17. KnownRun(h, n, events, types)
  <2> HIDE DEF Is
  <2>1. h \in [0..n -> Seq(Payloads)]
    BY <1>0, <1>7
  <2>2. QED BY <1>1, <1>7, <1>8, <1>16, <2>1 DEF KnownRun
<1>18. QED BY <1>17

\* What is known of events that all are.
LEMMA KnownWhole ==
    ASSUME NEW events \in Seq(RecordedEvents), NEW types,
           \A i \in 1..Len(events) : types[events[i].name] # Unmapped
    PROVE  KnownIn(events, types) = [i \in 1..Len(events) |-> events[i].payload]
<1>1. PICK n \in Nat : n = Len(events)
  OBVIOUS
<1>2. PICK f : KnownRun(f, n, events, types)
  BY ONLY n \in Nat, events \in Seq(RecordedEvents), <1>1, KnownRuns
<1>3. PICK h : h = [i \in 0..n |-> [j \in 1..i |-> events[j].payload]]
  OBVIOUS
<1>4. f[0] = h[0]
  BY <1>2, <1>3 DEF KnownRun
<1>5. ASSUME NEW i \in 1..n, f[i - 1] = h[i - 1] PROVE f[i] = h[i]
  <2>1. f[i] = Append(f[i - 1], events[i].payload)
    BY <1>1, <1>2 DEF KnownRun
  <2>2. PICK k \in Nat : k = i - 1 /\ k \in 0..n /\ i = k + 1
    OBVIOUS
  <2>3. PICK q \in Seq(Payloads) : q = f[k]
    BY <1>2, <2>2 DEF KnownRun
  <2>4. q = [j \in 1..k |-> events[j].payload] /\ Len(q) = k
    BY <1>3, <1>5, <2>2, <2>3
  <2>5. PICK p : p = events[i].payload
    OBVIOUS
  <2>6. Append(q, p) = [j \in 1..(k + 1) |-> IF j <= k THEN q[j] ELSE p]
    BY <2>4
  <2>7. Append(q, p) = [j \in 1..(k + 1) |-> events[j].payload]
    <3>1. \A j \in 1..(k + 1) : j <= k \/ j = i
      BY <2>2
    <3>2. \A j \in 1..(k + 1) : (IF j <= k THEN q[j] ELSE p) = events[j].payload
      BY <2>2, <2>4, <2>5, <3>1
    <3>3. QED BY <2>6, <3>2
  <2>8. h[i] = [j \in 1..(k + 1) |-> events[j].payload]
    <3>1. h[i] = [j \in 1..i |-> events[j].payload]
      BY <1>3
    <3>2. QED BY <2>2, <3>1
  <2>9. QED BY <2>1, <2>2, <2>3, <2>5, <2>7, <2>8
<1>6. \A i \in 0..n : f[i] = h[i]
  BY ONLY n \in Nat, <1>4, <1>5, RunsAgree, ZenonT(100)
<1>7. h[n] = [j \in 1..n |-> events[j].payload]
  BY <1>3
<1>8. n \in 0..n
  OBVIOUS
<1>9. KnownIn(events, types) = [j \in 1..n |-> events[j].payload]
  BY <1>2, <1>6, <1>7, <1>8 DEF KnownRun
<1>10. QED BY ONLY <1>1, <1>9

\* What is known of the events before one that is.
LEMMA KnownBefore ==
    ASSUME NEW b \in Streams, log[b] \in Seq(RecordedEvents), NEW m \in Nat,
           m <= Len(log[b]), \A i \in 1..m : Known(log[b][i])
    PROVE  KnownOf(b, m) = Begun(b, m)
<1>1. PICK s : s = log[b]
  OBVIOUS
<1>2. PICK events : events = SubSeq(s, 1, m)
  OBVIOUS
<1>3. /\ events \in Seq(RecordedEvents) /\ Len(events) = m
      /\ \A i \in 1..m : events[i] = s[i]
  <2>1. s \in Seq(RecordedEvents) /\ m <= Len(s)
    BY <1>1
  <2>2. QED BY <1>2, <2>1
<1>4. PICK types : types = fromName
  OBVIOUS
<1>5. \A i \in 1..Len(events) : types[events[i].name] # Unmapped
  BY <1>1, <1>3, <1>4 DEF Known, HasInstance
<1>6. KnownIn(events, types) = [i \in 1..Len(events) |-> events[i].payload]
  BY ONLY <1>3, <1>5, KnownWhole
<1>7. KnownIn(events, types) = [i \in 1..m |-> s[i].payload]
  BY <1>3, <1>6
<1>8. QED BY <1>1, <1>2, <1>4, <1>7 DEF KnownOf, Begun

\* The rules of a booking follow from what is decided on them.
LEMMA RulesHold ==
    ASSUME KInv, BInv PROVE BookingRules
<1> SUFFICES ASSUME NEW b \in Streams, NEW n \in 1..Len(log[b]), Known(log[b][n])
             PROVE  LET e == log[b][n].payload
                        state == Folded(KnownOf(b, n - 1))
                    IN  /\ e.booking = b
                        /\ (e.type = "RoomBooked") <=> (n = 1)
                        /\ e.type = "PaymentRecorded" => ~state.paid /\ ~state.cancelled
                        /\ e.type = "BookingCancelled" => ~state.cancelled
  BY DEF BookingRules, Known
<1>1. log[b] \in Seq(RecordedEvents)
  BY DEF KInv, TypeOK, KurrentTypeOK
<1>2. /\ \A i \in 1..n : Known(log[b][i])
      /\ Allowed(b, n, log[b][n].payload, Begun(b, n - 1))
  BY DEF BInv, Ruled
<1>3. PICK m \in Nat : m = n - 1 /\ m <= Len(log[b]) /\ \A i \in 1..m : i \in 1..n
  BY <1>1
<1>4. KnownOf(b, n - 1) = Begun(b, n - 1)
  <2>1. \A i \in 1..m : Known(log[b][i])
    BY <1>2, <1>3
  <2>2. KnownOf(b, m) = Begun(b, m)
    BY ONLY b \in Streams, m \in Nat, <1>1, <1>3, <2>1, KnownBefore
  <2>3. QED BY <1>3, <2>2
<1>5. QED BY <1>2, <1>4 DEF Allowed

\* The rules of the domain hold of every booking (domain/handlers.go:21-77).
THEOREM BookingsFollowTheRules == ActsAsDomain => (BookingSpec => []BookingRules)
<1>1. KInv /\ BInv => BookingRules
  BY RulesHold
<1>2. QED BY <1>1, BookingInductive, PTL

-----------------------------------------------------------------------------
\* What a fold of the domain's events may be.
States ==
    [booking : Streams \union {NoBooking}, guest : Guests \union {NoBooking}, price : Int,
     outstanding : Int, paid : BOOLEAN, cancelled : BOOLEAN]

LEMMA ZeroIsState == ZeroState \in States
BY DEF ZeroState, States

LEMMA NewIsBooking ==
    ASSUME NEW e \in BookingEvents, e.type = "RoomBooked"
    PROVE  NewBooking(e) \in BookingStates /\ e.guest \in Guests /\ e.price \in Prices
<1>1. /\ e.booking \in Streams /\ e.guest \in Guests /\ e.price \in Prices
  BY DEF BookingEvents
<1>2. e.price \in Int
  BY <1>1, BookingAssumption
<1>3. QED BY <1>1, <1>2 DEF NewBooking, BookingStates

LEMMA PaidIsInt ==
    ASSUME NEW e \in BookingEvents, e.type = "PaymentRecorded" PROVE e.amount \in Int
BY BookingAssumption DEF BookingEvents

\* A payment takes the amount off what is due.
PaidOff(d, e) ==
    [d EXCEPT !.outstanding = d.outstanding - e.amount,
              !.paid = d.paid \/ d.outstanding - e.amount <= 0]

LEMMA FoldCases ==
    ASSUME NEW d, NEW e
    PROVE  /\ e.type = "RoomBooked" => BookingFold(d, e) = NewBooking(e)
           /\ e.type = "PaymentRecorded" => BookingFold(d, e) = PaidOff(d, e)
           /\ e.type = "BookingCancelled" => BookingFold(d, e) = [d EXCEPT !.cancelled = TRUE]
BY DEF BookingFold, PaidOff

LEMMA FoldTyped ==
    ASSUME NEW d \in States, NEW e \in BookingEvents
    PROVE  BookingFold(d, e) \in States
<1>1. CASE e.type = "RoomBooked"
  <2>1. NewBooking(e) \in States
    BY <1>1, NewIsBooking DEF BookingStates, States
  <2>2. QED BY <1>1, <2>1, FoldCases
<1>2. CASE e.type = "PaymentRecorded"
  <2>1. e.amount \in Int /\ d.outstanding \in Int /\ d.paid \in BOOLEAN
    BY <1>2, PaidIsInt DEF States
  <2>2. PICK due \in Int : due = d.outstanding - e.amount
    BY <2>1
  <2>3. PICK paid \in BOOLEAN : paid = (d.paid \/ due <= 0)
    OBVIOUS
  <2>4. PaidOff(d, e) = [d EXCEPT !.outstanding = due, !.paid = paid]
    BY <2>2, <2>3 DEF PaidOff
  <2>5. PaidOff(d, e) \in States
    BY <2>4 DEF States
  <2>6. QED BY <1>2, <2>5, FoldCases
<1>3. CASE e.type = "BookingCancelled"
  <2>1. [d EXCEPT !.cancelled = TRUE] \in States
    BY DEF States
  <2>2. QED BY <1>3, <2>1, FoldCases
<1>4. QED BY <1>1, <1>2, <1>3 DEF BookingEvents

\* The recursion of Folded.
FoldedRun(f, n, payloads) ==
    /\ f \in [0..n -> States]
    /\ f[0] = ZeroState /\ f[n] = Folded(payloads)
    /\ \A i \in 1..n : f[i] = BookingFold(f[i - 1], payloads[i])

LEMMA FoldedRuns ==
    ASSUME NEW n \in Nat, NEW payloads, payloads \in Seq(BookingEvents), n = Len(payloads)
    PROVE  \E f : FoldedRun(f, n, payloads)
<1>0. PICK D : D = States
  OBVIOUS
<1>1. PICK d0 \in D : d0 = ZeroState
  BY <1>0, ZeroIsState
<1> DEFINE Is(h) == h = [i \in 0..n |-> IF i = 0 THEN ZeroState
                                        ELSE BookingFold(h[i - 1], payloads[i])]
<1>4. \A i \in 1..n, d \in D : BookingFold(d, payloads[i]) \in D
  BY <1>0, FoldTyped
<1>5. PICK step : step = [i \in 1..n |-> [d \in D |-> BookingFold(d, payloads[i])]]
  OBVIOUS
<1>6. /\ step \in [1..n -> [D -> D]]
      /\ \A i \in 1..n, d \in D : step[i][d] = BookingFold(d, payloads[i])
  BY <1>4, <1>5
<1>7. PICK h \in [0..n -> D] : h[0] = d0 /\ \A i \in 1..n : h[i] = step[i][h[i - 1]]
  <2>1. PICK go \in [1..n -> [D -> D]] : go = step
    BY <1>6
  <2>2. \E run \in [0..n -> D] :
           run[0] = d0 /\ \A i \in 1..n : run[i] = go[i][run[i - 1]]
    BY ONLY n \in Nat, d0 \in D, go \in [1..n -> [D -> D]], RunExists
  <2>3. QED BY <2>1, <2>2
<1>8. \A i \in 1..n : h[i - 1] \in D /\ h[i] = BookingFold(h[i - 1], payloads[i])
  <2>1. \A i \in 1..n : i - 1 \in 0..n
    OBVIOUS
  <2>2. QED BY <1>6, <1>7, <2>1
<1>9. Is(h)
  <2>1. \A i \in 0..n : i = 0 \/ i \in 1..n
    OBVIOUS
  <2>2. \A i \in 0..n : h[i] = IF i = 0 THEN ZeroState
                                ELSE BookingFold(h[i - 1], payloads[i])
    BY <1>1, <1>7, <1>8, <2>1
  <2>3. QED BY <1>7, <2>2
<1>10. PICK f : f = CHOOSE g : Is(g)
  OBVIOUS
<1>11. Is(f)
  <2> HIDE DEF Is
  <2>1. QED BY <1>9, <1>10
<1>12. f[0] = ZeroState /\ \A i \in 1..n : f[i] = BookingFold(f[i - 1], payloads[i])
  <2>1. f = [i \in 0..n |-> IF i = 0 THEN ZeroState ELSE BookingFold(f[i - 1], payloads[i])]
    BY <1>11
  <2>2. 0 \in 0..n /\ \A i \in 1..n : i \in 0..n /\ i # 0
    OBVIOUS
  <2>3. QED BY ONLY <2>1, <2>2
<1>13. \A i \in 1..n : f[i - 1] = h[i - 1] => f[i] = h[i]
  BY <1>8, <1>12
<1>14. \A i \in 0..n : f[i] = h[i]
  <2>1. f[0] = h[0]
    BY <1>1, <1>7, <1>12
  <2>2. QED BY ONLY n \in Nat, <1>13, <2>1, RunsAgree, ZenonT(100)
<1>15. Folded(payloads) = f[n]
  BY <1>10 DEF Folded
<1>16. f[n] = Folded(payloads) /\ h[n] = f[n]
  <2>1. n \in 0..n
    OBVIOUS
  <2>2. QED BY <1>14, <1>15, <2>1
<1>17. FoldedRun(h, n, payloads)
  <2>1. h \in [0..n -> States]
    BY <1>0, <1>7
  <2>2. QED BY <1>1, <1>7, <1>8, <1>16, <2>1 DEF FoldedRun
<1>18. QED BY <1>17

\* One more event is folded into what the others have been.
LEMMA FoldedStep ==
    ASSUME NEW p \in Seq(BookingEvents), NEW e \in BookingEvents
    PROVE  Folded(Append(p, e)) = BookingFold(Folded(p), e)
<1>1. PICK n \in Nat : n = Len(p)
  OBVIOUS
<1>2. PICK q : q = Append(p, e)
  OBVIOUS
<1>3. PICK m \in Nat : m = n + 1
  OBVIOUS
<1>4. /\ q \in Seq(BookingEvents) /\ m = Len(q) /\ q[m] = e
      /\ \A i \in 1..n : q[i] = p[i]
  BY <1>1, <1>2, <1>3
<1>5. PICK f : FoldedRun(f, n, p)
  BY ONLY n \in Nat, p \in Seq(BookingEvents), <1>1, FoldedRuns
<1>6. PICK g : FoldedRun(g, m, q)
  BY ONLY m \in Nat, <1>4, FoldedRuns
<1>7. f[0] = g[0]
  BY <1>5, <1>6 DEF FoldedRun
<1>8. \A i \in 1..n : f[i - 1] = g[i - 1] => f[i] = g[i]
  <2>1. \A i \in 1..n : f[i] = BookingFold(f[i - 1], p[i])
    BY <1>5 DEF FoldedRun
  <2>2. \A i \in 1..n : g[i] = BookingFold(g[i - 1], q[i])
    <3>1. \A i \in 1..n : i \in 1..m
      BY <1>3
    <3>2. QED BY <1>6, <3>1 DEF FoldedRun
  <2>3. QED BY <1>4, <2>1, <2>2
<1>9. \A i \in 0..n : f[i] = g[i]
  BY ONLY n \in Nat, <1>7, <1>8, RunsAgree, ZenonT(100)
<1>10. g[n] = Folded(p)
  <2>1. n \in 0..n
    OBVIOUS
  <2>2. QED BY <1>5, <1>9, <2>1 DEF FoldedRun
<1>11. g[m] = BookingFold(g[n], e)
  <2>1. m \in 1..m /\ m - 1 = n
    BY <1>3
  <2>2. g[m] = BookingFold(g[m - 1], q[m])
    BY <1>6, <2>1 DEF FoldedRun
  <2>3. QED BY <1>4, <2>1, <2>2
<1>12. g[m] = Folded(q)
  BY <1>6 DEF FoldedRun
<1>13. QED BY <1>2, <1>10, <1>11, <1>12

\* What is known of one more event.
LEMMA KnownStep ==
    ASSUME NEW p \in Seq(RecordedEvents), NEW e \in RecordedEvents, NEW types
    PROVE  KnownIn(Append(p, e), types) =
              IF types[e.name] # Unmapped THEN Append(KnownIn(p, types), e.payload)
              ELSE KnownIn(p, types)
<1>1. PICK n \in Nat : n = Len(p)
  OBVIOUS
<1>2. PICK q : q = Append(p, e)
  OBVIOUS
<1>3. PICK m \in Nat : m = n + 1
  OBVIOUS
<1>4. /\ q \in Seq(RecordedEvents) /\ m = Len(q) /\ q[m] = e
      /\ \A i \in 1..n : q[i] = p[i]
  BY <1>1, <1>2, <1>3
<1>5. PICK f : KnownRun(f, n, p, types)
  BY ONLY n \in Nat, p \in Seq(RecordedEvents), <1>1, KnownRuns
<1>6. PICK g : KnownRun(g, m, q, types)
  BY ONLY m \in Nat, <1>4, KnownRuns
<1>7. f[0] = g[0]
  BY <1>5, <1>6 DEF KnownRun
<1>8. \A i \in 1..n : f[i - 1] = g[i - 1] => f[i] = g[i]
  <2>1. \A i \in 1..n : f[i] = IF types[p[i].name] # Unmapped
                                THEN Append(f[i - 1], p[i].payload) ELSE f[i - 1]
    BY <1>5 DEF KnownRun
  <2>2. \A i \in 1..n : g[i] = IF types[q[i].name] # Unmapped
                                THEN Append(g[i - 1], q[i].payload) ELSE g[i - 1]
    <3>1. \A i \in 1..n : i \in 1..m
      BY <1>3
    <3>2. QED BY <1>6, <3>1 DEF KnownRun
  <2>3. QED BY <1>4, <2>1, <2>2
<1>9. \A i \in 0..n : f[i] = g[i]
  BY ONLY n \in Nat, <1>7, <1>8, RunsAgree, ZenonT(100)
<1>10. g[n] = KnownIn(p, types)
  <2>1. n \in 0..n
    OBVIOUS
  <2>2. QED BY <1>5, <1>9, <2>1 DEF KnownRun
<1>11. g[m] = IF types[e.name] # Unmapped THEN Append(g[n], e.payload) ELSE g[n]
  <2>1. m \in 1..m /\ m - 1 = n
    BY <1>3
  <2>2. g[m] = IF types[q[m].name] # Unmapped
               THEN Append(g[m - 1], q[m].payload) ELSE g[m - 1]
    BY <1>6, <2>1 DEF KnownRun
  <2>3. QED BY <1>4, <2>1, <2>2
<1>12. g[m] = KnownIn(q, types)
  BY <1>6 DEF KnownRun
<1>13. QED BY <1>2, <1>10, <1>11, <1>12

\* What is known of no events is nothing.
LEMMA KnownNone == ASSUME NEW types PROVE KnownIn(<<>>, types) = <<>>
<1>1. PICK p \in Seq(RecordedEvents) : p = <<>>
  <2>1. <<>> \in Seq(RecordedEvents)
    OBVIOUS
  <2>2. QED BY <2>1
<1>2. Len(p) = 0 /\ \A i \in 1..Len(p) : types[p[i].name] # Unmapped
  BY <1>1
<1>3. KnownIn(p, types) = [i \in 1..Len(p) |-> p[i].payload]
  BY ONLY p \in Seq(RecordedEvents), <1>2, KnownWhole
<1>4. QED BY <1>1, <1>2, <1>3

-----------------------------------------------------------------------------
LEMMA LogTyped ==
    ASSUME KInv, NEW b \in Streams
    PROVE  /\ log[b] \in Seq(RecordedEvents) /\ Len(log[b]) \in Nat /\ commits \in Nat
           /\ \A i \in 1..Len(log[b]) :
                 log[b][i] \in RecordedEvents /\ log[b][i].global \in Nat
<1>1. log[b] \in Seq(RecordedEvents) /\ commits \in Nat
  BY DEF KInv, TypeOK, KurrentTypeOK
<1>2. ASSUME NEW i \in 1..Len(log[b])
      PROVE  log[b][i] \in RecordedEvents /\ log[b][i].global \in Nat
  <2>1. log[b][i] \in RecordedEvents
    BY <1>1
  <2>2. QED BY <2>1 DEF RecordedEvents
<1>3. QED BY <1>1, <1>2

\* The events a step appends come after all that have been received.
LEMMA NewComeLater ==
    ASSUME KInv, KInv', BInv, BInv', Grows, NEW b \in Streams,
           NEW i \in Nat, i > Len(log[b]), i <= Len(log'[b])
    PROVE  log'[b][i].global >= commits
<1>1. PICK p \in Nat : p = log'[b][i].global /\ Len(log[b]) \in Nat
                       /\ Len(log'[b]) \in Nat /\ commits \in Nat
  <2>1. log'[b] \in Seq(RecordedEvents) /\ log[b] \in Seq(RecordedEvents) /\ commits \in Nat
    BY DEF KInv, TypeOK, KurrentTypeOK
  <2>2. i \in 1..Len(log'[b])
    BY <2>1
  <2>3. log'[b][i] \in RecordedEvents
    BY <2>1, <2>2
  <2>4. log'[b][i].global \in Nat
    BY <2>3 DEF RecordedEvents
  <2>5. QED BY <2>1, <2>4
<1>2. SUFFICES ASSUME p < commits PROVE FALSE
  BY <1>1
<1>3. PICK a \in Streams : \E j \in 1..Len(log[a]) : log[a][j].global = p
  <2>1. p \in 0..(commits - 1)
    BY <1>1, <1>2
  <2>2. QED BY <2>1 DEF BInv, Committed
<1>4. PICK j \in 1..Len(log[a]) : log[a][j].global = p
  BY <1>3
<1>5. Len(log[a]) \in Nat /\ Len(log'[a]) \in Nat /\ Len(log'[a]) >= Len(log[a])
      /\ log'[a][j] = log[a][j]
  <2>1. log'[a] \in Seq(RecordedEvents) /\ log[a] \in Seq(RecordedEvents)
    BY DEF KInv, TypeOK, KurrentTypeOK
  <2>2. QED BY <1>4, <2>1 DEF Grows
<1>6. j \in 1..Len(log'[a]) /\ i \in 1..Len(log'[b])
  BY <1>1, <1>5
<1>7. \A x \in Streams : \A k \in 1..Len(log'[x]) :
         \A y \in Streams : \A l \in 1..Len(log'[y]) :
            log'[x][k].global = log'[y][l].global => x = y /\ k = l
  BY DEF BInv, Committed
<1>8. a = b /\ j = i
  BY <1>1, <1>4, <1>5, <1>6, <1>7
<1>9. QED BY <1>1, <1>5, <1>8

LEMMA KnownOfStays ==
    ASSUME KInv, KInv', Grows, UNCHANGED typeMapVars, NEW b \in Streams,
           NEW m \in Nat, m <= Len(log[b])
    PROVE  KnownOf(b, m)' = KnownOf(b, m)
<1>1. PICK s : s = log[b]
  OBVIOUS
<1>2. PICK t : t = log'[b]
  OBVIOUS
<1>3. /\ s \in Seq(RecordedEvents) /\ t \in Seq(RecordedEvents)
      /\ m <= Len(s) /\ Len(t) >= Len(s)
      /\ \A i \in 1..m : t[i] = s[i]
  <2>1. log'[b] \in Seq(RecordedEvents) /\ log[b] \in Seq(RecordedEvents)
    BY DEF KInv, TypeOK, KurrentTypeOK
  <2>2. Len(log'[b]) >= Len(log[b]) /\ \A i \in 1..m : log'[b][i] = log[b][i]
    BY <2>1 DEF Grows
  <2>3. QED BY <1>1, <1>2, <2>1, <2>2
<1>4. SubSeq(t, 1, m) = SubSeq(s, 1, m)
  BY <1>3
<1>5. KnownOf(b, m)' = KnownIn(SubSeq(t, 1, m), fromName')
  BY <1>2 DEF KnownOf
<1>6. KnownOf(b, m) = KnownIn(SubSeq(s, 1, m), fromName)
  BY <1>1 DEF KnownOf
<1>7. QED BY <1>4, <1>5, <1>6 DEF typeMapVars

\* What is known of a booking with its next event.
LEMMA KnownOfNext ==
    ASSUME KInv, NEW b \in Streams, NEW m \in Nat, m + 1 <= Len(log[b])
    PROVE  KnownOf(b, m + 1) = IF Known(log[b][m + 1])
                               THEN Append(KnownOf(b, m), log[b][m + 1].payload)
                               ELSE KnownOf(b, m)
<1>1. PICK s : s = log[b]
  OBVIOUS
<1>2. PICK types : types = fromName
  OBVIOUS
<1>3. s \in Seq(RecordedEvents) /\ m + 1 <= Len(s)
  BY <1>1, LogTyped
<1>4. PICK p : p = SubSeq(s, 1, m)
  OBVIOUS
<1>5. PICK e : e = s[m + 1]
  OBVIOUS
<1>6. p \in Seq(RecordedEvents) /\ e \in RecordedEvents
  BY <1>3, <1>4, <1>5
<1>7. SubSeq(s, 1, m + 1) = Append(p, e)
  BY <1>3, <1>4, <1>5
<1>8. KnownIn(Append(p, e), types) =
         IF types[e.name] # Unmapped THEN Append(KnownIn(p, types), e.payload)
         ELSE KnownIn(p, types)
  BY ONLY <1>6, KnownStep
<1>9. KnownOf(b, m + 1) = KnownIn(Append(p, e), types) /\ KnownOf(b, m) = KnownIn(p, types)
  BY <1>1, <1>2, <1>4, <1>7 DEF KnownOf
<1>10. Known(log[b][m + 1]) <=> types[e.name] # Unmapped
  BY <1>1, <1>2, <1>5 DEF Known, HasInstance
<1>11. QED BY <1>1, <1>5, <1>8, <1>9, <1>10

\* Appends leave the read model as it is: what they add has not been received.
LEMMA AppendsUnseen ==
    ASSUME KInv, KInv', BInv, BInv', RInv, Grows, UNCHANGED <<typeMapVars, sampleVars>>,
           NEW b \in Streams, NEW m \in 0..Len(log[b]), Documented(b, m)
    PROVE  m \in 0..Len(log'[b]) /\ Documented(b, m)'
<1>1. /\ Len(log[b]) \in Nat /\ Len(log'[b]) \in Nat /\ Len(log'[b]) >= Len(log[b])
      /\ \A i \in 1..Len(log[b]) : log'[b][i] = log[b][i]
      /\ commits \in Nat
  BY DEF Grows, KInv, TypeOK, KurrentTypeOK
<1>2. m \in Nat /\ m <= Len(log[b]) /\ m \in 0..Len(log'[b])
  BY <1>1
<1>3. received \in Nat /\ received <= commits /\ received' = received
  BY <1>1 DEF RInv, SampleTypeOK, sampleVars
<1>4. Sees(b, m)'
  <2>1. ASSUME NEW i \in 1..Len(log'[b])
        PROVE  i <= m <=> log'[b][i].global < received
    <3>1. CASE i <= Len(log[b])
      <4>1. i \in 1..Len(log[b])
        BY <1>1, <3>1
      <4>2. QED BY <1>1, <4>1 DEF Documented, Sees
    <3>2. CASE i > Len(log[b])
      <4>1. log'[b][i].global >= commits /\ log'[b][i].global \in Nat
        <5>1. i \in Nat
          BY <1>1
        <5>2. log'[b][i].global >= commits
          BY <1>1, <3>2, <5>1, NewComeLater
        <5>3. log'[b] \in Seq(RecordedEvents)
          BY DEF KInv, TypeOK, KurrentTypeOK
        <5>4. log'[b][i] \in RecordedEvents
          BY <5>3
        <5>5. QED BY <5>2, <5>4 DEF RecordedEvents
      <4>2. QED BY <1>1, <1>2, <1>3, <3>2, <4>1
    <3>3. QED BY <1>1, <3>1, <3>2
  <2>2. QED BY <1>2, <1>3, <2>1 DEF Sees
<1>5. KnownOf(b, m)' = KnownOf(b, m)
  BY <1>2, KnownOfStays
<1>6. m > 0 => (Known(log[b][1])' <=> Known(log[b][1]))
  <2>1. m > 0 => 1 \in 1..Len(log[b])
    BY <1>1, <1>2
  <2>2. QED BY <1>1, <2>1 DEF Known, HasInstance, typeMapVars
<1>7. bookings' = bookings
  BY DEF sampleVars
<1>8. QED BY <1>2, <1>4, <1>5, <1>6, <1>7 DEF Documented, DocumentOf

\* The bookings that are listed have a first event.
LEMMA ListedBegan ==
    ASSUME KInv, RInv, NEW g \in Guests, NEW i \in 1..Len(guests[g])
    PROVE  /\ guests[g][i].booking \in Streams
           /\ bookings[guests[g][i].booking] # NoBooking
           /\ bookings[guests[g][i].booking].guest = g
           /\ 1 \in 1..Len(log[guests[g][i].booking])
           /\ log[guests[g][i].booking][1].global < received
<1>1. PICK b : b = guests[g][i].booking
  OBVIOUS
<1>2. b \in Listed(g)
  BY <1>1 DEF Listed
<1>3. b \in Streams /\ bookings[b] # NoBooking /\ bookings[b].guest = g
  BY <1>2 DEF RInv, Summarised
<1>4. PICK m \in 0..Len(log[b]) : Documented(b, m)
  BY <1>3 DEF RInv
<1>5. m > 0 /\ Len(log[b]) \in Nat
  BY <1>3, <1>4, LogTyped DEF Documented
<1>6. 1 \in 1..Len(log[b]) /\ 1 <= m
  BY <1>5
<1>7. log[b][1].global < received
  BY <1>4, <1>6 DEF Documented, Sees
<1>8. QED BY <1>1, <1>3, <1>6, <1>7

LEMMA AppendsKeep ==
    ASSUME KInv, KInv', BInv, BInv', RInv, Grows, commits' >= commits,
           UNCHANGED <<typeMapVars, sampleVars>>
    PROVE  RInv'
<1>1. SampleTypeOK'
  <2>1. commits \in Nat /\ commits' \in Nat
    BY DEF KInv, TypeOK, KurrentTypeOK
  <2>2. received \in 0..commits => received \in 0..commits'
    BY <2>1
  <2>3. QED BY <2>2 DEF RInv, SampleTypeOK, sampleVars
<1>2. ASSUME NEW b \in Streams PROVE \E m \in 0..Len(log'[b]) : Documented(b, m)'
  <2>1. PICK m \in 0..Len(log[b]) : Documented(b, m)
    BY DEF RInv
  <2>2. QED BY <2>1, AppendsUnseen
<1>3. ASSUME NEW g \in Guests PROVE Summarised(g)'
  <2>1. UNCHANGED <<guests, bookings>>
    BY DEF sampleVars
  <2>2. Listed(g)' = Listed(g)
    BY <2>1 DEF Listed
  <2>3. \A i \in 1..Len(guests[g]) :
           log'[guests[g][i].booking][1] = log[guests[g][i].booking][1]
    BY ListedBegan DEF Grows
  <2>4. QED BY <2>1, <2>2, <2>3 DEF RInv, Summarised
<1>4. QED BY <1>1, <1>2, <1>3 DEF RInv

-----------------------------------------------------------------------------
\* The event at the commit position the subscription has come to.
LEMMA ReceivedIs ==
    ASSUME KInv, BInv, received \in Nat, received < commits
    PROVE  \E b \in Streams : \E i \in 1..Len(log[b]) :
              Received = log[b][i] /\ log[b][i].global = received
<1> DEFINE All == UNION {{log[b][i] : i \in 1..Len(log[b])} : b \in Streams}
<1>1. \E e \in All : e.global = received
  <2>1. received \in 0..(commits - 1)
    BY LogTyped DEF KInv, TypeOK, KurrentTypeOK
  <2>2. PICK b \in Streams : \E i \in 1..Len(log[b]) : log[b][i].global = received
    BY <2>1 DEF BInv, Committed
  <2>3. PICK i \in 1..Len(log[b]) : log[b][i].global = received
    BY <2>2
  <2>4. log[b][i] \in All
    OBVIOUS
  <2>5. QED BY <2>3, <2>4
<1>2. Received \in All /\ Received.global = received
  <2> HIDE DEF All
  <2>1. Received = CHOOSE e \in All : e.global = received
    BY DEF Received, All
  <2>2. QED BY <1>1, <2>1
<1>3. PICK b \in Streams : \E i \in 1..Len(log[b]) : Received = log[b][i]
  BY <1>2
<1>4. QED BY <1>2, <1>3

\* It is the next of its booking's.
LEMMA NextReceived ==
    ASSUME KInv, BInv, RInv, NEW b \in Streams, NEW m \in Nat, m + 1 <= Len(log[b]),
           log[b][m + 1].global = received
    PROVE  Documented(b, m)
<1>1. PICK l \in Nat : l = Len(log[b])
  BY LogTyped
<1>2. PICK n \in 0..Len(log[b]) : Documented(b, n)
  BY DEF RInv
<1>3. received \in Nat /\ \A i \in 1..l : log[b][i].global \in Nat
  BY <1>1, LogTyped DEF RInv, SampleTypeOK
<1>4. n \in 0..l /\ \A i \in 1..l : i <= n <=> log[b][i].global < received
  BY <1>1, <1>2 DEF Documented, Sees
<1>5. \A i \in 1..l : i < m + 1 => log[b][i].global < received
  <2>1. m + 1 \in 1..l
    BY <1>1
  <2>2. \A i, j \in 1..Len(log[b]) : i < j => log[b][i].global < log[b][j].global
    BY DEF BInv, Committed
  <2>3. QED BY <1>1, <2>1, <2>2
<1>6. ~(m + 1 <= n)
  <2>1. m + 1 \in 1..l
    BY <1>1
  <2>2. QED BY <1>3, <1>4, <2>1
<1>7. n >= m
  <2>1. CASE m = 0
    BY <1>4, <2>1
  <2>2. CASE m # 0
    <3>1. m \in 1..l /\ m < m + 1
      BY <1>1, <2>2
    <3>2. QED BY <1>4, <1>5, <3>1
  <2>3. QED BY <2>1, <2>2
<1>8. n = m
  BY <1>4, <1>6, <1>7
<1>9. QED BY <1>2, <1>8

\* A subscription that has received it has received the first events of its booking up
\* to it, and of the other bookings what it had.
LEMMA SeesOn ==
    ASSUME KInv, BInv, RInv, NEW b \in Streams, NEW m \in Nat, m + 1 <= Len(log[b]),
           log[b][m + 1].global = received,
           UNCHANGED log, received' = received + 1
    PROVE  /\ Sees(b, m + 1)'
           /\ \A a \in Streams \ {b} : \A n : Sees(a, n) => Sees(a, n)'
<1>1. received \in Nat /\ m + 1 \in 1..Len(log[b]) /\ Len(log[b]) \in Nat
  BY LogTyped DEF RInv, SampleTypeOK
<1>2. \A a \in Streams : \A i \in 1..Len(log[a]) : log[a][i].global \in Nat
  BY LogTyped
<1>3. Sees(b, m)
  BY NextReceived DEF Documented
<1>4. \A i, j \in 1..Len(log[b]) : i < j => log[b][i].global < log[b][j].global
  BY DEF BInv, Committed
<1>5. ASSUME NEW i \in 1..Len(log[b]) PROVE i <= m + 1 <=> log[b][i].global < received + 1
  <2>1. log[b][i].global \in Nat
    BY <1>2
  <2>2. CASE i <= m
    BY <1>1, <1>3, <2>1, <2>2 DEF Sees
  <2>3. CASE i = m + 1
    BY <1>1, <2>3
  <2>4. CASE i > m + 1
    BY <1>1, <1>4, <2>1, <2>4
  <2>5. QED BY <2>2, <2>3, <2>4
<1>6. Sees(b, m + 1)'
  BY <1>1, <1>5 DEF Sees
<1>7. ASSUME NEW a \in Streams \ {b}, NEW n, Sees(a, n) PROVE Sees(a, n)'
  <2>1. ASSUME NEW i \in 1..Len(log[a]) PROVE i <= n <=> log[a][i].global < received + 1
    <3>1. log[a][i].global # received
      BY <1>1 DEF BInv, Committed
    <3>2. i <= n <=> log[a][i].global < received
      BY <1>7 DEF Sees
    <3>3. log[a][i].global \in Nat
      BY <1>2
    <3>4. QED BY <1>1, <3>1, <3>2, <3>3
  <2>2. QED BY <1>7, <2>1 DEF Sees
<1>8. QED BY <1>6, <1>7

\* The bookings it does not concern are documented as they were.
LEMMA OthersDocumented ==
    ASSUME KInv, BInv, RInv, NEW b \in Streams, NEW m \in Nat, m + 1 <= Len(log[b]),
           log[b][m + 1].global = received,
           UNCHANGED <<log, fromName>>, received' = received + 1,
           NEW a \in Streams, a # b, bookings'[a] = bookings[a]
    PROVE  \E n \in 0..Len(log'[a]) : Documented(a, n)'
<1>1. PICK n \in 0..Len(log[a]) : Documented(a, n)
  BY DEF RInv
<1>2. Sees(a, n)'
  BY <1>1, SeesOn DEF Documented
<1>3. KnownOf(a, n)' = KnownOf(a, n)
  BY DEF KnownOf
<1>4. Documented(a, n)'
  BY <1>1, <1>2, <1>3 DEF Documented, DocumentOf, Known, HasInstance
<1>5. QED BY <1>1, <1>4

\* The summaries stay if the documents do, but for what is due and paid.
LEMMA SummariesStay ==
    ASSUME KInv, RInv, UNCHANGED <<log, guests>>,
           \A a \in Streams :
              /\ bookings'[a] # NoBooking <=> bookings[a] # NoBooking
              /\ bookings[a] # NoBooking =>
                    /\ bookings'[a].guest = bookings[a].guest
                    /\ bookings'[a].cancelled = bookings[a].cancelled
                    /\ bookings'[a].price = bookings[a].price
    PROVE  \A g \in Guests : Summarised(g)'
<1> SUFFICES ASSUME NEW g \in Guests PROVE Summarised(g)'
  OBVIOUS
<1>1. Summarised(g) /\ Listed(g)' = Listed(g)
  BY DEF RInv, Listed
<1>2. {b \in Streams : bookings'[b] # NoBooking /\ bookings'[b].guest = g}
         = {b \in Streams : bookings[b] # NoBooking /\ bookings[b].guest = g}
  OBVIOUS
<1>3. \A i \in 1..Len(guests[g]) :
         /\ guests[g][i].booking \in Streams
         /\ bookings[guests[g][i].booking] # NoBooking
  BY ListedBegan
<1>4. \A i \in 1..Len(guests[g]) :
         /\ guests[g][i].cancelled = bookings'[guests[g][i].booking].cancelled
         /\ guests[g][i].price = bookings'[guests[g][i].booking].price
  BY <1>1, <1>3 DEF Summarised
<1>5. QED BY <1>1, <1>2, <1>4 DEF Summarised

\* What is known of the events up to one that is.
LEMMA NextIsRuled ==
    ASSUME KInv, BInv, RInv, NEW b \in Streams, NEW m \in Nat, m + 1 <= Len(log[b]),
           log[b][m + 1].global = received, Known(log[b][m + 1])
    PROVE  LET e == log[b][m + 1].payload
           IN  /\ Decoded(log[b][m + 1]) = e
               /\ e \in BookingEvents /\ e.booking = b
               /\ (e.type = "RoomBooked") <=> (m = 0)
               /\ Known(log[b][1])
               /\ KnownOf(b, m + 1) # <<>>
               /\ Folded(KnownOf(b, m + 1)) = BookingFold(Folded(KnownOf(b, m)), e)
               /\ (bookings[b] = NoBooking) <=> (m = 0)
               /\ m > 0 => bookings[b] = Folded(KnownOf(b, m))
<1>1. PICK l \in Nat : l = Len(log[b])
  BY LogTyped
<1>2. m + 1 \in 1..l /\ m <= l
  BY <1>1
<1>3. PICK e : e = log[b][m + 1].payload
  OBVIOUS
<1>4. /\ \A i \in 1..(m + 1) : Known(log[b][i])
      /\ Allowed(b, m + 1, e, Begun(b, (m + 1) - 1))
  BY <1>1, <1>2, <1>3 DEF BInv, Ruled
<1>5. e \in BookingEvents /\ e.booking = b /\ ((e.type = "RoomBooked") <=> (m + 1 = 1))
  BY <1>4 DEF Allowed
<1>6. 1 \in 1..(m + 1) /\ Known(log[b][1])
  BY <1>4
<1>7. \A i \in 1..m : Known(log[b][i]) /\ log[b][i].payload \in BookingEvents
  <2>1. ASSUME NEW i \in 1..m PROVE Known(log[b][i]) /\ log[b][i].payload \in BookingEvents
    <3>1. Known(log[b][i]) /\ i \in 1..l
      BY <1>2, <1>4
    <3>2. Allowed(b, i, log[b][i].payload, Begun(b, i - 1))
      BY <1>1, <3>1 DEF BInv, Ruled
    <3>3. QED BY <3>1, <3>2 DEF Allowed
  <2>2. QED BY <2>1
<1>8. KnownOf(b, m) = Begun(b, m)
  <2>1. log[b] \in Seq(RecordedEvents) /\ m <= Len(log[b]) /\ \A i \in 1..m : Known(log[b][i])
    BY <1>1, <1>2, <1>7, LogTyped
  <2>2. QED BY ONLY b \in Streams, m \in Nat, <2>1, KnownBefore
<1>9. PICK p : p = KnownOf(b, m)
  OBVIOUS
<1>10. p \in Seq(BookingEvents) /\ Len(p) = m
  <2>1. p = [i \in 1..m |-> log[b][i].payload]
    BY <1>8, <1>9 DEF Begun
  <2>2. QED BY <1>7, <2>1
<1>11. KnownOf(b, m + 1) = Append(p, e)
  BY <1>3, <1>9, KnownOfNext
<1>12. Folded(Append(p, e)) = BookingFold(Folded(p), e)
  BY ONLY <1>5, <1>10, FoldedStep
<1>13. Append(p, e) # <<>> /\ (p = <<>> <=> m = 0)
  BY <1>5, <1>10
<1>14. Documented(b, m)
  BY NextReceived
<1>15. (bookings[b] = NoBooking) <=> (m = 0)
  BY <1>6, <1>14 DEF Documented
<1>16. m > 0 => bookings[b] = Folded(p)
  BY <1>9, <1>13, <1>14 DEF Documented, DocumentOf
<1>17. Decoded(log[b][m + 1]) = e
  <2>1. LegibleEvent(log[b][m + 1])
    BY <1>1, <1>2 DEF KInv, Legible
  <2>2. fromName[log[b][m + 1].name] # Unmapped
    BY DEF Known, HasInstance
  <2>3. QED BY <1>3, <2>1, <2>2 DEF LegibleEvent, Decoded
<1>18. (e.type = "RoomBooked") <=> (m = 0)
  BY <1>5
<1>19. QED BY <1>3, <1>5, <1>6, <1>9, <1>11, <1>12, <1>13, <1>15, <1>16, <1>17, <1>18

-----------------------------------------------------------------------------
\* The read model has the booking with its next event.
LEMMA NextDocumented ==
    ASSUME KInv, BInv, RInv, NEW b \in Streams, NEW m \in Nat, m + 1 <= Len(log[b]),
           log[b][m + 1].global = received, Known(log[b][m + 1]),
           UNCHANGED <<log, fromName>>, received' = received + 1,
           bookings'[b] = BookingFold(Folded(KnownOf(b, m)), log[b][m + 1].payload),
           bookings'[b] \in BookingStates, bookings'[b].booking = b
    PROVE  \E n \in 0..Len(log'[b]) : Documented(b, n)'
<1>1. Sees(b, m + 1)'
  BY SeesOn
<1>2. /\ KnownOf(b, m + 1) # <<>> /\ Known(log[b][1])
      /\ Folded(KnownOf(b, m + 1)) = bookings'[b]
  BY NextIsRuled
<1>3. PICK n \in Nat : n = m + 1 /\ n > 0
  OBVIOUS
<1>4. KnownOf(b, n)' = KnownOf(b, n)
  BY DEF KnownOf
<1>5. bookings'[b] # NoBooking
  BY MainAssumption
<1>6. Known(log[b][1])'
  BY <1>2 DEF Known, HasInstance
<1>7. Documented(b, n)'
  BY <1>1, <1>2, <1>3, <1>4, <1>5, <1>6 DEF Documented, DocumentOf
<1>8. n \in 0..Len(log'[b])
  BY <1>3, LogTyped
<1>9. QED BY <1>7, <1>8

\* An event of another program changes nothing but how much has been received.
LEMMA PassesOver ==
    ASSUME KInv, BInv, RInv, NEW b \in Streams, NEW m \in Nat, m + 1 <= Len(log[b]),
           log[b][m + 1].global = received, ~Known(log[b][m + 1]),
           UNCHANGED <<log, fromName, bookings, guests>>, received' = received + 1
    PROVE  /\ \A a \in Streams : \E n \in 0..Len(log'[a]) : Documented(a, n)'
           /\ \A g \in Guests : Summarised(g)'
<1>1. Sees(b, m + 1)' /\ Documented(b, m)
  BY SeesOn, NextReceived
<1>2. KnownOf(b, m + 1) = KnownOf(b, m)
  BY KnownOfNext
<1>3. PICK n \in Nat : n = m + 1 /\ n > 0
  OBVIOUS
<1>4. KnownOf(b, n)' = KnownOf(b, n)
  BY DEF KnownOf
<1>5. m > 0 /\ Known(log[b][1]) <=> n > 0 /\ Known(log[b][1])
  BY <1>3
<1>6. Documented(b, n)'
  BY <1>1, <1>2, <1>3, <1>4, <1>5 DEF Documented, DocumentOf, Known, HasInstance
<1>7. n \in 0..Len(log'[b])
  BY <1>3, LogTyped
<1>8. \A a \in Streams : \E k \in 0..Len(log'[a]) : Documented(a, k)'
  BY <1>6, <1>7, OthersDocumented
<1>9. \A g \in Guests : Summarised(g)'
  BY SummariesStay
<1>10. QED BY <1>8, <1>9

\* What the projection of a booking's first event writes.
BookBoth(e) ==
    /\ bookings' = [bookings EXCEPT ![e.booking] = NewBooking(e)]
    /\ guests' = [guests EXCEPT ![e.guest] = Append(@,
          [booking |-> e.booking, price |-> e.price, cancelled |-> FALSE])]

\* The first event of a booking: its document is new, and the last of its guest's.
LEMMA BookedProjects ==
    ASSUME KInv, BInv, RInv, NEW b \in Streams, NEW m \in Nat, m + 1 <= Len(log[b]),
           log[b][m + 1].global = received, Known(log[b][m + 1]),
           UNCHANGED <<log, fromName>>, received' = received + 1,
           NEW e, e = log[b][m + 1].payload, e.type = "RoomBooked",
           BookBoth(e)
    PROVE  /\ bookings' \in [Streams -> BookingStates \union {NoBooking}]
           /\ guests' \in [Guests -> Seq(Summaries)]
           /\ \A a \in Streams : \E n \in 0..Len(log'[a]) : Documented(a, n)'
           /\ \A g \in Guests : Summarised(g)'
<1>1. /\ e \in BookingEvents /\ e.booking = b /\ m = 0
      /\ bookings[b] = NoBooking
  BY NextIsRuled
<1>2. NewBooking(e) \in BookingStates /\ e.guest \in Guests /\ e.price \in Prices
  BY <1>1, NewIsBooking
<1>3. /\ bookings \in [Streams -> BookingStates \union {NoBooking}]
      /\ guests \in [Guests -> Seq(Summaries)] /\ received \in Nat
  BY LogTyped DEF RInv, SampleTypeOK
<1>4. /\ bookings'[b] = NewBooking(e)
      /\ \A a \in Streams \ {b} : bookings'[a] = bookings[a]
      /\ bookings' \in [Streams -> BookingStates \union {NoBooking}]
  BY <1>1, <1>2, <1>3 DEF BookBoth
<1>5. PICK s \in Summaries : s = [booking |-> b, price |-> e.price, cancelled |-> FALSE]
  BY <1>2 DEF Summaries
<1>6. PICK h \in Guests : h = e.guest
  BY <1>2
<1>7. /\ guests'[h] = Append(guests[h], s)
      /\ \A g \in Guests \ {h} : guests'[g] = guests[g]
      /\ guests' \in [Guests -> Seq(Summaries)]
  <2>1. guests' = [guests EXCEPT ![h] = Append(guests[h], s)]
    BY <1>1, <1>5, <1>6 DEF BookBoth
  <2>2. guests[h] \in Seq(Summaries) /\ Append(guests[h], s) \in Seq(Summaries)
    BY <1>3, <1>5, <1>6
  <2>3. QED BY ONLY <1>3, <1>6, <2>1, <2>2
<1>8. \E n \in 0..Len(log'[b]) : Documented(b, n)'
  <2>1. bookings'[b] = BookingFold(Folded(KnownOf(b, m)), e)
    BY <1>4, FoldCases
  <2>2. bookings'[b] \in BookingStates /\ bookings'[b].booking = b
    BY <1>1, <1>2, <1>4 DEF NewBooking
  <2>3. QED BY <2>1, <2>2, NextDocumented
<1>9. \A a \in Streams : \E n \in 0..Len(log'[a]) : Documented(a, n)'
  BY <1>4, <1>8, OthersDocumented
<1>10. /\ bookings'[b] # NoBooking /\ bookings'[b].guest = h
       /\ bookings'[b].price = s.price /\ bookings'[b].cancelled = s.cancelled
       /\ s.booking = b
  <2>1. /\ NewBooking(e).guest = e.guest /\ NewBooking(e).price = e.price
        /\ NewBooking(e).cancelled = FALSE
    BY DEF NewBooking
  <2>2. s.price = e.price /\ s.cancelled = FALSE /\ s.booking = b
    BY <1>5
  <2>3. NewBooking(e) # NoBooking
    BY <1>2, MainAssumption
  <2>4. QED BY <1>4, <1>6, <2>1, <2>2, <2>3
<1>11. log[b][1].global = received
  BY <1>1
<1>12. ASSUME NEW g \in Guests PROVE Summarised(g)'
  <2>1. PICK q \in Seq(Summaries) : q = guests[g]
    BY <1>3
  <2>2. PICK k \in Nat : k = Len(q)
    BY <2>1
  <2>3. Summarised(g)
    BY DEF RInv
  <2>4. \A i \in 1..k : /\ q[i].booking \in Streams /\ q[i].booking # b
                        /\ bookings[q[i].booking] # NoBooking
                        /\ log[q[i].booking][1].global < received
    BY <1>1, <2>1, <2>2, ListedBegan
  <2>5. /\ {q[i].booking : i \in 1..k} =
               {a \in Streams : bookings[a] # NoBooking /\ bookings[a].guest = g}
        /\ \A i, j \in 1..k : i < j =>
              log[q[i].booking][1].global < log[q[j].booking][1].global
        /\ \A i \in 1..k : /\ q[i].cancelled = bookings[q[i].booking].cancelled
                           /\ q[i].price = bookings[q[i].booking].price
    BY <2>1, <2>2, <2>3 DEF Summarised, Listed
  <2>6. \A i \in 1..k : bookings'[q[i].booking] = bookings[q[i].booking]
    BY <1>4, <2>4
  <2>7. CASE g # h
    <3>1. guests'[g] = q
      BY <1>7, <2>1, <2>7
    <3>2. {a \in Streams : bookings'[a] # NoBooking /\ bookings'[a].guest = g}
             = {a \in Streams : bookings[a] # NoBooking /\ bookings[a].guest = g}
      BY <1>1, <1>4, <1>10, <2>7
    <3>3. Listed(g)' = {q[i].booking : i \in 1..k}
      BY <2>2, <3>1 DEF Listed
    <3>4. \A i \in 1..k : /\ q[i].cancelled = bookings'[q[i].booking].cancelled
                          /\ q[i].price = bookings'[q[i].booking].price
      BY <2>5, <2>6
    <3>5. Listed(g)' = {a \in Streams : bookings'[a] # NoBooking /\ bookings'[a].guest = g}
      BY <2>5, <3>2, <3>3
    <3>6. QED BY ONLY k \in Nat, <2>2, <2>5, <3>1, <3>4, <3>5, UNCHANGED log
              DEF Summarised
  <2>8. CASE g = h
    <3>1. PICK t : t = guests'[g]
      OBVIOUS
    <3>2. /\ t = Append(q, s) /\ Len(t) = k + 1 /\ t[k + 1] = s
          /\ \A i \in 1..k : t[i] = q[i]
      <4>1. t = Append(q, s)
        BY <1>7, <2>1, <2>8, <3>1
      <4>2. QED BY ONLY s \in Summaries, q \in Seq(Summaries), <2>2, <4>1
    <3>3. \A i \in 1..(k + 1) : i \in 1..k \/ i = k + 1
      BY <2>2
    <3>4. {t[i].booking : i \in 1..(k + 1)} = {q[i].booking : i \in 1..k} \union {b}
      <4>1. ASSUME NEW x \in {t[i].booking : i \in 1..(k + 1)}
            PROVE  x \in {q[i].booking : i \in 1..k} \union {b}
        BY <1>10, <3>2, <3>3
      <4>2. ASSUME NEW i \in 1..k PROVE q[i].booking \in {t[j].booking : j \in 1..(k + 1)}
        <5>1. i \in 1..(k + 1) /\ t[i] = q[i]
          BY <2>2, <3>2
        <5>2. QED BY <5>1
      <4>3. b \in {t[j].booking : j \in 1..(k + 1)}
        <5>1. k + 1 \in 1..(k + 1)
          BY <2>2
        <5>2. QED BY <1>10, <3>2, <5>1
      <4>4. QED BY <4>1, <4>2, <4>3
    <3>5. {a \in Streams : bookings'[a] # NoBooking /\ bookings'[a].guest = g}
             = {a \in Streams : bookings[a] # NoBooking /\ bookings[a].guest = g} \union {b}
      BY <1>1, <1>4, <1>10, <2>8
    <3>6. Listed(g)' = {a \in Streams : bookings'[a] # NoBooking /\ bookings'[a].guest = g}
      <4>1. Listed(g)' = {t[i].booking : i \in 1..(k + 1)}
        BY <3>1, <3>2 DEF Listed
      <4>2. QED BY <2>5, <3>4, <3>5, <4>1
    <3>7. ASSUME NEW i \in 1..(k + 1), NEW j \in 1..(k + 1), i < j
          PROVE  log[t[i].booking][1].global < log[t[j].booking][1].global
      <4>1. i \in 1..k
        BY <2>2, <3>7
      <4>2. CASE j = k + 1
        BY <1>10, <1>11, <2>4, <3>2, <4>1, <4>2
      <4>3. CASE j # k + 1
        <5>1. j \in 1..k
          BY <3>3, <4>3
        <5>2. QED BY <2>5, <3>2, <3>7, <4>1, <5>1
      <4>4. QED BY <4>2, <4>3
    <3>8. ASSUME NEW i \in 1..(k + 1)
          PROVE  /\ t[i].cancelled = bookings'[t[i].booking].cancelled
                 /\ t[i].price = bookings'[t[i].booking].price
      <4>1. CASE i = k + 1
        BY <1>10, <3>2, <4>1
      <4>2. CASE i \in 1..k
        <5>1. t[i] = q[i] /\ bookings'[q[i].booking] = bookings[q[i].booking]
          BY <2>6, <3>2, <4>2
        <5>2. QED BY <2>5, <4>2, <5>1
      <4>3. QED BY <3>3, <4>1, <4>2
    <3>9. QED BY <3>1, <3>2, <3>6, <3>7, <3>8 DEF Summarised
  <2>9. QED BY <2>7, <2>8
<1>13. QED BY <1>4, <1>7, <1>9, <1>12

LEMMA PaidProjects ==
    ASSUME KInv, BInv, RInv, NEW b \in Streams, NEW m \in Nat, m + 1 <= Len(log[b]),
           log[b][m + 1].global = received, Known(log[b][m + 1]),
           UNCHANGED <<log, fromName>>, received' = received + 1,
           NEW e, e = log[b][m + 1].payload, e.type = "PaymentRecorded", Project(e)
    PROVE  /\ bookings' \in [Streams -> BookingStates \union {NoBooking}]
           /\ UNCHANGED guests
           /\ \A a \in Streams : \E n \in 0..Len(log'[a]) : Documented(a, n)'
           /\ \A g \in Guests : Summarised(g)'
<1>1. /\ e \in BookingEvents /\ e.booking = b /\ m > 0
      /\ bookings[b] # NoBooking /\ bookings[b] = Folded(KnownOf(b, m))
  <2>1. /\ e \in BookingEvents /\ e.booking = b
        /\ (e.type = "RoomBooked") <=> (m = 0)
        /\ (bookings[b] = NoBooking) <=> (m = 0)
        /\ m > 0 => bookings[b] = Folded(KnownOf(b, m))
    BY NextIsRuled
  <2>2. m > 0
    BY <2>1
  <2>3. QED BY <2>1, <2>2
<1>2. bookings \in [Streams -> BookingStates \union {NoBooking}]
  BY DEF RInv, SampleTypeOK
<1>3. PICK d \in BookingStates : d = bookings[b]
  BY <1>1, <1>2
<1>4. PICK x \in Int : x = e.amount
  BY <1>1, PaidIsInt
<1>5. PICK o \in Int : o = d.outstanding
  BY <1>3 DEF BookingStates
<1>6. PICK due \in Int : due = o - x
  BY ONLY x \in Int, o \in Int
<1>7. PICK paid \in BOOLEAN : paid = (d.paid \/ due <= 0)
  OBVIOUS
<1>8. PICK n : n = [d EXCEPT !.outstanding = due, !.paid = paid]
  OBVIOUS
<1>9. /\ n \in BookingStates /\ n.guest = d.guest /\ n.cancelled = d.cancelled
      /\ n.price = d.price /\ n.booking = d.booking
  BY <1>3, <1>8 DEF BookingStates
<1>10. BookingFold(d, e) = n
  <2>1. BookingFold(d, e) = PaidOff(d, e)
    BY FoldCases
  <2>2. QED BY <1>4, <1>5, <1>6, <1>7, <1>8, <2>1 DEF PaidOff
<1>11. (d.paid \/ bookings[b].outstanding <= e.amount) = paid
  <2>1. (bookings[b].outstanding <= e.amount) <=> (due <= 0)
    BY ONLY x \in Int, o \in Int, due \in Int, <1>3, <1>4, <1>5, <1>6
  <2>2. QED BY <1>7, <2>1
<1>12. bookings' = [bookings EXCEPT ![b] = n] /\ UNCHANGED guests
  <2>1. /\ bookings' = [bookings EXCEPT
               ![b].outstanding = @ - e.amount,
               ![b].paid = @ \/ bookings[b].outstanding <= e.amount]
        /\ UNCHANGED guests
    BY <1>1 DEF Project
  <2>2. bookings' = [bookings EXCEPT ![b] =
                       [d EXCEPT !.outstanding = due,
                                 !.paid = d.paid \/ bookings[b].outstanding <= e.amount]]
    BY <1>2, <1>3, <1>4, <1>5, <1>6, <2>1 DEF BookingStates
  <2>3. QED BY <1>8, <1>11, <2>1, <2>2
<1>13. /\ bookings'[b] = n /\ \A a \in Streams \ {b} : bookings'[a] = bookings[a]
       /\ bookings' \in [Streams -> BookingStates \union {NoBooking}]
  BY ONLY b \in Streams, <1>2, <1>9, <1>12
<1>14. \E k \in 0..Len(log'[b]) : Documented(b, k)'
  <2>1. bookings'[b] = BookingFold(Folded(KnownOf(b, m)), e)
    BY <1>1, <1>3, <1>10, <1>13
  <2>2. d.booking = b
    BY <1>1, <1>3, NextReceived DEF Documented
  <2>3. bookings'[b] \in BookingStates /\ bookings'[b].booking = b
    BY <1>9, <1>13, <2>2
  <2>4. QED BY <2>1, <2>3, NextDocumented
<1>15. \A a \in Streams : \E k \in 0..Len(log'[a]) : Documented(a, k)'
  <2>1. ASSUME NEW a \in Streams, a # b PROVE bookings'[a] = bookings[a]
    BY <1>13, <2>1
  <2>2. ASSUME NEW a \in Streams, a # b PROVE \E k \in 0..Len(log'[a]) : Documented(a, k)'
    <3>1. bookings'[a] = bookings[a]
      BY <2>1, <2>2
    <3>2. QED BY <2>2, <3>1, OthersDocumented
  <2>3. QED BY <1>14, <2>2
<1>16. \A g \in Guests : Summarised(g)'
  <2>1. n # NoBooking
    BY <1>9, MainAssumption
  <2>2. \A a \in Streams :
           /\ bookings'[a] # NoBooking <=> bookings[a] # NoBooking
           /\ bookings[a] # NoBooking =>
                 /\ bookings'[a].guest = bookings[a].guest
                 /\ bookings'[a].cancelled = bookings[a].cancelled
                 /\ bookings'[a].price = bookings[a].price
    BY <1>1, <1>3, <1>9, <1>13, <2>1
  <2>3. QED BY <1>12, <2>2, SummariesStay
<1>17. QED BY <1>12, <1>13, <1>15, <1>16

\* Each booking is listed once.
LEMMA ListedOnce ==
    ASSUME KInv, RInv, NEW g \in Guests, NEW i \in 1..Len(guests[g]),
           NEW j \in 1..Len(guests[g]), guests[g][i].booking = guests[g][j].booking
    PROVE  i = j
<1>1. PICK a \in Streams : a = guests[g][i].booking
  BY ListedBegan
<1>2. log[a][1].global \in Nat
  <2>1. 1 \in 1..Len(log[a])
    BY <1>1, ListedBegan
  <2>2. QED BY <2>1, LogTyped
<1>3. \A x, y \in 1..Len(guests[g]) : x < y =>
         log[guests[g][x].booking][1].global < log[guests[g][y].booking][1].global
  BY DEF RInv, Summarised
<1>4. ~(i < j) /\ ~(j < i)
  BY <1>1, <1>2, <1>3
<1>5. Len(guests[g]) \in Nat
  BY DEF RInv, SampleTypeOK
<1>6. QED BY <1>4, <1>5

\* A cancellation marks the document, and the summary that is its.
LEMMA CancelledProjects ==
    ASSUME KInv, BInv, RInv, NEW b \in Streams, NEW m \in Nat, m + 1 <= Len(log[b]),
           log[b][m + 1].global = received, Known(log[b][m + 1]),
           UNCHANGED <<log, fromName>>, received' = received + 1,
           NEW e, e = log[b][m + 1].payload, e.type = "BookingCancelled", CancelBoth(e)
    PROVE  /\ bookings' \in [Streams -> BookingStates \union {NoBooking}]
           /\ guests' \in [Guests -> Seq(Summaries)]
           /\ \A a \in Streams : \E n \in 0..Len(log'[a]) : Documented(a, n)'
           /\ \A g \in Guests : Summarised(g)'
<1>1. /\ e \in BookingEvents /\ e.booking = b /\ m > 0
      /\ bookings[b] # NoBooking /\ bookings[b] = Folded(KnownOf(b, m))
  <2>1. /\ e \in BookingEvents /\ e.booking = b
        /\ (e.type = "RoomBooked") <=> (m = 0)
        /\ (bookings[b] = NoBooking) <=> (m = 0)
        /\ m > 0 => bookings[b] = Folded(KnownOf(b, m))
    BY NextIsRuled
  <2>2. m > 0
    BY <2>1
  <2>3. QED BY <2>1, <2>2
<1>2. /\ bookings \in [Streams -> BookingStates \union {NoBooking}]
      /\ guests \in [Guests -> Seq(Summaries)]
  BY DEF RInv, SampleTypeOK
<1>3. PICK d \in BookingStates : d = bookings[b]
  BY <1>1, <1>2
<1>4. PICK h \in Guests : h = d.guest
  BY <1>3 DEF BookingStates
<1>5. PICK n \in BookingStates : n = [d EXCEPT !.cancelled = TRUE]
  BY <1>3 DEF BookingStates
<1>6. /\ n.guest = h /\ n.cancelled = TRUE /\ n.price = d.price /\ n.booking = d.booking
      /\ n # NoBooking
  BY <1>3, <1>4, <1>5, MainAssumption DEF BookingStates
<1>7. PICK q \in Seq(Summaries) : q = guests[h]
  BY <1>2
<1>8. PICK k \in Nat : k = Len(q)
  BY <1>7
<1>9. PICK t : t = [i \in 1..k |->
                      IF q[i].booking = b /\ \A j \in 1..(i - 1) : q[j].booking # b
                      THEN [q[i] EXCEPT !.cancelled = TRUE] ELSE q[i]]
  OBVIOUS
<1>10. bookings' = [bookings EXCEPT ![b] = n] /\ guests' = [guests EXCEPT ![h] = t]
  BY <1>1, <1>3, <1>4, <1>5, <1>7, <1>8, <1>9 DEF CancelBoth
<1>11. \A i \in 1..k : q[i] \in Summaries /\ q[i].booking \in Streams
                       /\ bookings[q[i].booking] # NoBooking
  <2>1. \A i \in 1..k : q[i] \in Summaries
    BY ONLY q \in Seq(Summaries), <1>8
  <2>2. \A i \in 1..Len(guests[h]) : /\ guests[h][i].booking \in Streams
                                     /\ bookings[guests[h][i].booking] # NoBooking
    BY ListedBegan
  <2>3. QED BY <1>7, <1>8, <2>1, <2>2
<1>12. \A i \in 1..k : /\ t[i] \in Summaries
                       /\ t[i].booking = q[i].booking /\ t[i].price = q[i].price
                       /\ q[i].booking # b => t[i].cancelled = q[i].cancelled
                       /\ q[i].booking = b => t[i].cancelled = TRUE
  <2> SUFFICES ASSUME NEW i \in 1..k
               PROVE  /\ t[i] \in Summaries
                      /\ t[i].booking = q[i].booking /\ t[i].price = q[i].price
                      /\ q[i].booking # b => t[i].cancelled = q[i].cancelled
                      /\ q[i].booking = b => t[i].cancelled = TRUE
    OBVIOUS
  <2>1. PICK s \in Summaries : s = q[i]
    BY <1>11
  <2>2. CASE s.booking = b
    <3>1. \A j \in 1..(i - 1) : q[j].booking # b
      <4>1. ASSUME NEW j \in 1..(i - 1), q[j].booking = b PROVE FALSE
        <5>1. j \in 1..k /\ j # i
          BY <1>8
        <5>2. i = j
          BY <1>7, <1>8, <2>1, <2>2, <4>1, <5>1, ListedOnce
        <5>3. QED BY <5>1, <5>2
      <4>2. QED BY <4>1
    <3>2. t[i] = [s EXCEPT !.cancelled = TRUE]
      BY <1>9, <2>1, <2>2, <3>1
    <3>3. QED BY <2>1, <2>2, <3>2 DEF Summaries
  <2>3. CASE s.booking # b
    <3>1. t[i] = s
      BY <1>9, <2>1, <2>3
    <3>2. QED BY <2>1, <2>3, <3>1
  <2>4. QED BY <2>2, <2>3
<1>13. t \in Seq(Summaries) /\ Len(t) = k
  <2>1. t \in [1..k -> Summaries]
    <3>1. \A i \in 1..k : t[i] \in Summaries
      BY <1>12
    <3>2. QED BY ONLY <1>9, <3>1
  <2>2. QED BY ONLY k \in Nat, <2>1
<1>14. /\ bookings'[b] = n /\ \A a \in Streams \ {b} : bookings'[a] = bookings[a]
       /\ bookings' \in [Streams -> BookingStates \union {NoBooking}]
  BY ONLY b \in Streams, n \in BookingStates, <1>2, <1>10
<1>15. /\ guests'[h] = t /\ \A g \in Guests \ {h} : guests'[g] = guests[g]
       /\ guests' \in [Guests -> Seq(Summaries)]
  BY ONLY h \in Guests, <1>2, <1>10, <1>13
<1>16. \E l \in 0..Len(log'[b]) : Documented(b, l)'
  <2>1. BookingFold(d, e) = n
    BY <1>5, FoldCases
  <2>2. bookings'[b] = BookingFold(Folded(KnownOf(b, m)), e)
    BY <1>1, <1>3, <1>14, <2>1
  <2>3. d.booking = b
    BY <1>1, <1>3, NextReceived DEF Documented
  <2>4. bookings'[b] \in BookingStates /\ bookings'[b].booking = b
    BY <1>5, <1>6, <1>14, <2>3
  <2>5. QED BY <2>2, <2>4, NextDocumented
<1>17. \A a \in Streams : \E l \in 0..Len(log'[a]) : Documented(a, l)'
  <2>1. ASSUME NEW a \in Streams, a # b PROVE \E l \in 0..Len(log'[a]) : Documented(a, l)'
    <3>1. bookings'[a] = bookings[a]
      BY <1>14, <2>1
    <3>2. QED BY <2>1, <3>1, OthersDocumented
  <2>2. QED BY <1>16, <2>1
<1>18. ASSUME NEW g \in Guests PROVE Summarised(g)'
  <2>1. {a \in Streams : bookings'[a] # NoBooking /\ bookings'[a].guest = g}
           = {a \in Streams : bookings[a] # NoBooking /\ bookings[a].guest = g}
    BY <1>1, <1>3, <1>4, <1>6, <1>14
  <2>2. Summarised(g)
    BY DEF RInv
  <2>3. CASE g # h
    <3>1. guests'[g] = guests[g]
      BY <1>15, <2>3
    <3>2. \A i \in 1..Len(guests[g]) :
             bookings'[guests[g][i].booking] = bookings[guests[g][i].booking]
      <4>1. ASSUME NEW i \in 1..Len(guests[g])
            PROVE  bookings'[guests[g][i].booking] = bookings[guests[g][i].booking]
        <5>1. guests[g][i].booking \in Streams /\ bookings[guests[g][i].booking].guest = g
          BY ListedBegan
        <5>2. QED BY <1>3, <1>4, <1>14, <2>3, <5>1
      <4>2. QED BY <4>1
    <3>3. Listed(g)' = Listed(g)
      BY <3>1 DEF Listed
    <3>4. \A i \in 1..Len(guests[g]) :
             /\ guests[g][i].cancelled = bookings'[guests[g][i].booking].cancelled
             /\ guests[g][i].price = bookings'[guests[g][i].booking].price
      BY <2>2, <3>2 DEF Summarised
    <3>5. QED BY ONLY <2>1, <2>2, <3>1, <3>3, <3>4, UNCHANGED log DEF Summarised
  <2>4. CASE g = h
    <3>1. /\ {q[i].booking : i \in 1..k} =
                 {a \in Streams : bookings[a] # NoBooking /\ bookings[a].guest = g}
          /\ \A i, j \in 1..k : i < j =>
                log[q[i].booking][1].global < log[q[j].booking][1].global
          /\ \A i \in 1..k : /\ q[i].cancelled = bookings[q[i].booking].cancelled
                             /\ q[i].price = bookings[q[i].booking].price
      BY <1>7, <1>8, <2>2, <2>4 DEF Summarised, Listed
    <3>2. Listed(g)' = {a \in Streams : bookings'[a] # NoBooking /\ bookings'[a].guest = g}
      <4>1. Listed(g)' = {t[i].booking : i \in 1..k}
        BY <1>13, <1>15, <2>4 DEF Listed
      <4>2. {t[i].booking : i \in 1..k} = {q[i].booking : i \in 1..k}
        BY <1>12
      <4>3. QED BY <2>1, <3>1, <4>1, <4>2
    <3>3. \A i, j \in 1..k : i < j =>
             log[t[i].booking][1].global < log[t[j].booking][1].global
      BY <1>12, <3>1
    <3>4. ASSUME NEW i \in 1..k
          PROVE  /\ t[i].cancelled = bookings'[t[i].booking].cancelled
                 /\ t[i].price = bookings'[t[i].booking].price
      <4>1. CASE q[i].booking = b
        BY <1>3, <1>6, <1>12, <1>14, <3>1, <4>1
      <4>2. CASE q[i].booking # b
        <5>1. bookings'[q[i].booking] = bookings[q[i].booking]
          BY <1>11, <1>14, <4>2
        <5>2. QED BY <1>12, <3>1, <4>2, <5>1
      <4>3. QED BY <4>1, <4>2
    <3>5. guests'[g] = t /\ Len(t) = k
      BY <1>13, <1>15, <2>4
    <3>6. QED BY ONLY <3>2, <3>3, <3>4, <3>5, UNCHANGED log DEF Summarised
  <2>5. QED BY <2>3, <2>4
<1>19. QED BY <1>14, <1>15, <1>17, <1>18

-----------------------------------------------------------------------------
LEMMA ReceiveKeeps ==
    ASSUME KInv, BInv, RInv, Receive PROVE RInv'
<1>1. /\ received \in Nat /\ received < commits /\ received' = received + 1
      /\ commits \in Nat /\ UNCHANGED <<log, fromName, commits, serving, subscribed, restarts>>
  <2>1. commits \in Nat
    BY DEF KInv, TypeOK, KurrentTypeOK
  <2>2. received \in Nat
    BY <2>1 DEF RInv, SampleTypeOK
  <2>3. QED BY <2>1, <2>2 DEF Receive, vars, kurrentVars, typeMapVars
<1>2. PICK b \in Streams : \E i \in 1..Len(log[b]) :
         Received = log[b][i] /\ log[b][i].global = received
  BY <1>1, ReceivedIs
<1>3. PICK i \in 1..Len(log[b]) : Received = log[b][i] /\ log[b][i].global = received
  BY <1>2
<1>4. PICK m \in Nat : m + 1 = i /\ m + 1 <= Len(log[b])
  <2>1. Len(log[b]) \in Nat
    BY <1>2, LogTyped
  <2>2. i - 1 \in Nat /\ (i - 1) + 1 = i /\ i <= Len(log[b])
    BY <1>3, <2>1
  <2>3. QED BY <2>2
<1>5. Received = log[b][m + 1] /\ log[b][m + 1].global = received
  BY <1>3, <1>4
<1>6. /\ \A a \in Streams : \E n \in 0..Len(log'[a]) : Documented(a, n)'
      /\ \A g \in Guests : Summarised(g)'
      /\ bookings' \in [Streams -> BookingStates \union {NoBooking}]
      /\ guests' \in [Guests -> Seq(Summaries)]
  <2>1. CASE ~HasInstance(Received.name)
    <3>1. UNCHANGED <<bookings, guests>> /\ ~Known(log[b][m + 1])
      BY <1>5, <2>1 DEF Receive, Known
    <3>2. QED BY <1>1, <1>2, <1>4, <1>5, <3>1, PassesOver DEF RInv, SampleTypeOK
  <2>2. CASE HasInstance(Received.name)
    <3>1. Known(log[b][m + 1])
      BY <1>5, <2>2 DEF Known
    <3>2. PICK e : e = log[b][m + 1].payload
      OBVIOUS
    <3>3. /\ Decoded(log[b][m + 1]) = e /\ e.booking = b
          /\ (e.type = "RoomBooked") <=> (m = 0)
          /\ (bookings[b] = NoBooking) <=> (m = 0)
      BY <1>2, <1>4, <1>5, <3>1, <3>2, NextIsRuled
    <3>4. Project(e)
      BY <1>5, <2>2, <3>3 DEF Receive
    <3>5. /\ bookings \in [Streams -> BookingStates \union {NoBooking}]
          /\ guests \in [Guests -> Seq(Summaries)]
      BY DEF RInv, SampleTypeOK
    <3>6. CASE e.type = "RoomBooked" /\ BookBoth(e)
      BY <1>1, <1>2, <1>4, <1>5, <3>1, <3>2, <3>6, BookedProjects
    <3>7. CASE e.type = "PaymentRecorded"
      BY <1>1, <1>2, <1>4, <1>5, <3>1, <3>2, <3>4, <3>5, <3>7, PaidProjects
    <3>8. CASE e.type = "BookingCancelled" /\ CancelBoth(e)
      BY <1>1, <1>2, <1>4, <1>5, <3>1, <3>2, <3>8, CancelledProjects
    <3>9. ~(e.type # "RoomBooked" /\ bookings[e.booking] = NoBooking)
      BY <3>3
    <3>10. QED BY <3>4, <3>6, <3>7, <3>8, <3>9 DEF Project, BookBoth
  <2>3. QED BY <2>1, <2>2
<1>7. received' \in 0..commits'
  BY <1>1
<1>8. SampleTypeOK'
  BY <1>1, <1>6, <1>7 DEF RInv, SampleTypeOK
<1>9. QED BY <1>6, <1>8 DEF RInv

\* An empty read model is that of a subscription that has received nothing.
LEMMA EmptyDocumented ==
    ASSUME KInv, received = 0, bookings = [b \in Streams |-> NoBooking],
           guests = [g \in Guests |-> <<>>]
    PROVE  /\ \A b \in Streams : \E m \in 0..Len(log[b]) : Documented(b, m)
           /\ \A g \in Guests : Summarised(g)
           /\ received \in 0..commits
           /\ bookings \in [Streams -> BookingStates \union {NoBooking}]
           /\ guests \in [Guests -> Seq(Summaries)]
<1>1. ASSUME NEW b \in Streams PROVE \E m \in 0..Len(log[b]) : Documented(b, m)
  <2>1. PICK m \in Nat : m = 0
    OBVIOUS
  <2>2. m \in 0..Len(log[b])
    BY <2>1, LogTyped
  <2>3. Sees(b, m)
    <3>1. \A i \in 1..Len(log[b]) : log[b][i].global \in Nat
      BY LogTyped
    <3>2. QED BY <2>1, <2>2, <3>1 DEF Sees
  <2>4. KnownOf(b, m) = <<>>
    <3>1. PICK s \in Seq(RecordedEvents) : s = log[b]
      BY LogTyped
    <3>2. SubSeq(s, 1, m) = <<>>
      BY <2>1
    <3>3. QED BY <3>1, <3>2, KnownNone DEF KnownOf
  <2>5. QED BY <2>1, <2>2, <2>3, <2>4 DEF Documented, DocumentOf
<1>2. ASSUME NEW g \in Guests PROVE Summarised(g)
  <2>1. guests[g] = <<>> /\ Len(guests[g]) = 0
    OBVIOUS
  <2>2. Listed(g) = {}
    BY <2>1 DEF Listed
  <2>3. QED BY <2>1, <2>2 DEF Summarised
<1>3. received \in 0..commits
  BY DEF KInv, TypeOK, KurrentTypeOK
<1>4. guests \in [Guests -> Seq(Summaries)]
  <2>1. <<>> \in Seq(Summaries)
    OBVIOUS
  <2>2. QED BY <2>1
<1>5. QED BY <1>1, <1>2, <1>3, <1>4

LEMMA ReadModelStarts == BookingInit => RInv
<1> SUFFICES ASSUME BookingInit PROVE RInv
  OBVIOUS
<1>1. KInv
  BY BookingStarts
<1>2. /\ received = 0 /\ bookings = [b \in Streams |-> NoBooking]
      /\ guests = [g \in Guests |-> <<>>]
      /\ serving = TRUE /\ subscribed = TRUE /\ restarts = 0
  BY DEF BookingInit
<1>3. /\ \A b \in Streams : \E m \in 0..Len(log[b]) : Documented(b, m)
      /\ \A g \in Guests : Summarised(g)
      /\ received \in 0..commits
      /\ bookings \in [Streams -> BookingStates \union {NoBooking}]
      /\ guests \in [Guests -> Seq(Summaries)]
  BY <1>1, <1>2, EmptyDocumented
<1>4. SampleTypeOK
  BY <1>2, <1>3, BookingAssumption DEF SampleTypeOK
<1>5. QED BY <1>3, <1>4 DEF RInv

EmptyModel ==
    /\ received = 0 /\ bookings = [b \in Streams |-> NoBooking]
    /\ guests = [g \in Guests |-> <<>>]

LEMMA EmptyKeeps ==
    KInv /\ EmptyModel =>
        /\ \A b \in Streams : \E m \in 0..Len(log[b]) : Documented(b, m)
        /\ \A g \in Guests : Summarised(g)
        /\ received \in 0..commits
        /\ bookings \in [Streams -> BookingStates \union {NoBooking}]
        /\ guests \in [Guests -> Seq(Summaries)]
BY EmptyDocumented DEF EmptyModel

LEMMA EmptyKeepsThen ==
    (KInv /\ EmptyModel =>
        /\ \A b \in Streams : \E m \in 0..Len(log[b]) : Documented(b, m)
        /\ \A g \in Guests : Summarised(g)
        /\ received \in 0..commits
        /\ bookings \in [Streams -> BookingStates \union {NoBooking}]
        /\ guests \in [Guests -> Seq(Summaries)])'
BY EmptyKeeps, PTL

\* A step of the store's only ever extends the streams.
LEMMA StepGrows ==
    ASSUME KInv, [Next]_vars PROVE Grows /\ commits' >= commits
<1>1. KurrentTypeOK /\ commits \in Nat
  BY DEF KInv, TypeOK, KurrentTypeOK
<1>2. ASSUME UNCHANGED <<log, commits>> PROVE Grows /\ commits' >= commits
  BY <1>1, <1>2, StaysGrows
<1>3. ASSUME NEW s \in Streams, NEW sent \in Seq(Sent), Record(s, sent)
      PROVE  Grows /\ commits' >= commits
  <2>1. commits' = commits + Len(sent) /\ Len(sent) \in Nat
    BY <1>3 DEF Record
  <2>2. QED BY <1>1, <1>3, <2>1, RecordGrows
<1>4. CASE UNCHANGED <<kurrentVars, upkeepVars>>
  BY <1>2, <1>4 DEF kurrentVars
<1>5. ASSUME NEW s \in Streams, NEW expected \in Expectable, Delete(s, expected)
      PROVE  Grows /\ commits' >= commits
  BY <1>2, <1>5 DEF Delete, DeleteStream
<1>6. ASSUME NEW m \in Maintainers, NEW s \in Streams, NEW position \in Positions,
             NEW expected \in Expectable, CheckVersion(m, s, position, expected)
      PROVE  Grows /\ commits' >= commits
  BY <1>2, <1>6 DEF CheckVersion, kurrentVars
<1>7. ASSUME NEW m \in Maintainers, WriteMetadata(m) PROVE Grows /\ commits' >= commits
  BY <1>2, <1>7 DEF WriteMetadata, SetTruncateBefore
<1>8. QED BY <1>3, <1>4, <1>5, <1>6, <1>7, StepShapes

LEMMA ViewStays ==
    ASSUME RInv, SampleTypeOK', UNCHANGED <<log, fromName, received, bookings, guests>>
    PROVE  RInv'
<1>1. ASSUME NEW b \in Streams PROVE \E m \in 0..Len(log'[b]) : Documented(b, m)'
  <2>1. PICK m \in 0..Len(log[b]) : Documented(b, m)
    BY DEF RInv
  <2>2. Documented(b, m)'
    BY <2>1 DEF Documented, DocumentOf, Sees, KnownOf, Known, HasInstance
  <2>3. QED BY <2>1, <2>2
<1>2. ASSUME NEW g \in Guests PROVE Summarised(g)'
  BY DEF RInv, Summarised, Listed
<1>3. QED BY <1>1, <1>2 DEF RInv

LEMMA ReadModelKeeps ==
    ASSUME KInv, KInv', BInv, BInv', RInv, [BookingNext]_bookingVars
    PROVE  RInv'
<1>1. ASSUME [Next]_vars, UNCHANGED <<typeMapVars, sampleVars>> PROVE RInv'
  BY <1>1, StepGrows, AppendsKeep
<1>2. ASSUME NEW c \in Callers, Serve(c) PROVE RInv'
  <2>1. Next /\ UNCHANGED sampleVars
    BY <1>2 DEF Serve, Next
  <2>2. UNCHANGED typeMapVars
    BY <1>2 DEF Serve, ServiceLocal, ServiceStore, ServiceLoad, ServiceLoadFails,
       ServiceDecide, ServiceEncodeFails, ServiceAppend, ServiceConflict, ServiceFails
  <2>3. QED BY <1>1, <2>1, <2>2
<1>3. ASSUME NEW c \in Callers, NEW k \in Commands, Request(c, k) PROVE RInv'
  <2>1. Next /\ UNCHANGED sampleVars
    BY <1>3 DEF Request, Next
  <2>2. UNCHANGED typeMapVars
    BY <1>3 DEF Request, ServiceCall
  <2>3. QED BY <1>1, <2>1, <2>2
<1>4. ASSUME NEW b \in Streams, OtherProgram(b) PROVE RInv'
  <2>1. Next /\ UNCHANGED sampleVars
    BY <1>4 DEF OtherProgram, Next
  <2>2. UNCHANGED typeMapVars
    BY <1>4 DEF OtherProgram, ForeignAppend
  <2>3. QED BY <1>1, <2>1, <2>2
<1>5. CASE Receive
  BY <1>5, ReceiveKeeps
<1>6. CASE SubscriptionEnds
  <2>1. UNCHANGED <<log, fromName, commits, serving, received, bookings, guests, restarts>>
        /\ subscribed' = FALSE
    BY <1>6 DEF SubscriptionEnds, vars, kurrentVars, typeMapVars
  <2>2. SampleTypeOK'
    BY <2>1 DEF RInv, SampleTypeOK
  <2>3. QED BY <2>1, <2>2, ViewStays
<1>7. CASE Exit
  <2>1. UNCHANGED <<log, fromName, commits, received, bookings, guests, restarts>>
        /\ serving' = FALSE /\ subscribed' = FALSE
    BY <1>7 DEF Exit, kurrentVars, typeMapVars
  <2>2. SampleTypeOK'
    BY <2>1 DEF RInv, SampleTypeOK
  <2>3. QED BY <2>1, <2>2, ViewStays
<1>8. CASE Restart
  <2>1. EmptyModel' /\ serving' = TRUE /\ subscribed' = TRUE
        /\ restarts < MaxRestarts /\ restarts' = restarts + 1
    BY <1>8 DEF Restart, EmptyModel
  <2>2. restarts' \in 0..MaxRestarts
    BY <2>1, BookingAssumption DEF RInv, SampleTypeOK
  <2>3. /\ \A b \in Streams : \E m \in 0..Len(log'[b]) : Documented(b, m)'
        /\ \A g \in Guests : Summarised(g)'
        /\ received' \in 0..commits'
        /\ bookings' \in [Streams -> BookingStates \union {NoBooking}]
        /\ guests' \in [Guests -> Seq(Summaries)]
    BY <2>1, EmptyKeepsThen
  <2>4. SampleTypeOK'
    BY <2>1, <2>2, <2>3 DEF SampleTypeOK
  <2>5. QED BY <2>3, <2>4 DEF RInv
<1>9. CASE UNCHANGED bookingVars
  <2>1. UNCHANGED <<log, fromName, commits, sampleVars>>
    BY <1>9 DEF bookingVars, vars, kurrentVars, typeMapVars
  <2>2. SampleTypeOK'
    BY <2>1 DEF RInv, SampleTypeOK, sampleVars
  <2>3. QED BY <2>1, <2>2, ViewStays DEF sampleVars
<1>10. QED BY <1>2, <1>3, <1>4, <1>5, <1>6, <1>7, <1>8, <1>9 DEF BookingNext

\* What the read model has follows from the events received, as the sample's invariant.
THEOREM ReadModelInductive == ActsAsDomain => (BookingSpec => [](KInv /\ BInv /\ RInv))
<1> SUFFICES ASSUME ActsAsDomain PROVE BookingSpec => [](KInv /\ BInv /\ RInv)
  OBVIOUS
<1>1. BookingInit => RInv
  BY ReadModelStarts
<1>2. KInv /\ KInv' /\ BInv /\ BInv' /\ RInv /\ [BookingNext]_bookingVars => RInv'
  BY ReadModelKeeps
<1>3. BookingSpec => [](KInv /\ BInv)
  BY BookingInductive
<1>4. QED BY <1>1, <1>2, <1>3, PTL DEF BookingSpec

\* The sample's variables stay in their sets: the read model never has a document or a
\* summary of another shape (samples/booking/readmodel/bookings.go).
THEOREM BookingTypeCorrect == ActsAsDomain => (BookingSpec => []BookingTypeOK)
<1>1. KInv /\ BInv /\ RInv => BookingTypeOK
  BY DEF KInv, RInv, SampleTypeOK, BookingTypeOK
<1>2. QED BY <1>1, ReadModelInductive, PTL

LEMMA ReceivedOfSeen ==
    ASSUME KInv, NEW b \in Streams, NEW m, Sees(b, m) PROVE ReceivedOf(b) = m
<1>1. PICK s : s = log[b]
  OBVIOUS
<1>2. PICK r : r = received
  OBVIOUS
<1>3. PICK n \in Nat : n = Len(s)
  BY <1>1, LogTyped
<1>4. m \in 0..n /\ \A i \in 1..n : i <= m <=> s[i].global < r
  BY <1>1, <1>2, <1>3 DEF Sees
<1>5. Cardinality({i \in 1..n : s[i].global < r}) = m
  <2>1. {i \in 1..n : s[i].global < r} = 1..m
    BY ONLY n \in Nat, <1>4
  <2>2. PICK k \in Nat : k = m
    BY <1>4
  <2>3. Cardinality(1..k) = IF 1 > k THEN 0 ELSE k - 1 + 1
    BY FS_Interval
  <2>4. Cardinality(1..k) = k
    BY ONLY k \in Nat, <2>3
  <2>5. QED BY ONLY <2>1, <2>2, <2>4
<1>6. QED BY <1>1, <1>2, <1>3, <1>5 DEF ReceivedOf

\* The read model folds as the commands do (samples/booking/readmodel/bookings.go).
THEOREM ReadModelFoldsAlike == ActsAsDomain => (BookingSpec => []ReadModelAgrees)
<1>1. KInv /\ RInv => ReadModelAgrees
  <2> SUFFICES ASSUME KInv, RInv PROVE ReadModelAgrees
    OBVIOUS
  <2>1. ASSUME NEW b \in Streams
        PROVE  LET known == KnownOf(b, ReceivedOf(b))
               IN  bookings[b] = IF known = <<>> THEN NoBooking ELSE Folded(known)
    <3>1. PICK m \in 0..Len(log[b]) : Documented(b, m)
      BY DEF RInv
    <3>2. ReceivedOf(b) = m
      BY <3>1, ReceivedOfSeen DEF Documented
    <3>3. QED BY <3>1, <3>2 DEF Documented, DocumentOf
  <2>2. ASSUME NEW g \in Guests
        PROVE  LET ids == [i \in 1..Len(guests[g]) |-> guests[g][i].booking]
               IN  /\ {ids[i] : i \in 1..Len(ids)} =
                         {b \in Streams : bookings[b] # NoBooking /\ bookings[b].guest = g}
                   /\ \A i, j \in 1..Len(ids) :
                         i < j => log[ids[i]][1].global < log[ids[j]][1].global
                   /\ \A i \in 1..Len(ids) :
                         /\ guests[g][i].cancelled = bookings[ids[i]].cancelled
                         /\ guests[g][i].price = bookings[ids[i]].price
    <3>1. PICK n \in Nat : n = Len(guests[g])
      BY DEF RInv, SampleTypeOK
    <3>2. PICK ids : ids = [i \in 1..n |-> guests[g][i].booking]
      OBVIOUS
    <3>3. Len(ids) = n /\ \A i \in 1..n : ids[i] = guests[g][i].booking
      BY <3>2
    <3>4. Summarised(g)
      BY DEF RInv
    <3>5. {ids[i] : i \in 1..n} =
             {b \in Streams : bookings[b] # NoBooking /\ bookings[b].guest = g}
      BY <3>1, <3>3, <3>4 DEF Summarised, Listed
    <3>6. \A i, j \in 1..n : i < j => log[ids[i]][1].global < log[ids[j]][1].global
      BY <3>1, <3>3, <3>4 DEF Summarised
    <3>7. \A i \in 1..n : /\ guests[g][i].cancelled = bookings[ids[i]].cancelled
                          /\ guests[g][i].price = bookings[ids[i]].price
      BY <3>1, <3>3, <3>4 DEF Summarised
    <3>8. [i \in 1..Len(guests[g]) |-> guests[g][i].booking] = ids
      BY <3>1, <3>2
    <3>9. QED BY ONLY <3>3, <3>5, <3>6, <3>7, <3>8
  <2>3. QED BY <2>1, <2>2 DEF ReadModelAgrees
<1>2. QED BY <1>1, ReadModelInductive, PTL

=============================================================================

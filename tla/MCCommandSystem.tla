-------------------------- MODULE MCCommandSystem --------------------------
(***************************************************************************)
(* A small instance of CommandSystem: bookings in the manner of            *)
(* samples/booking, two functional callers and one aggregate caller.       *)
(***************************************************************************)
EXTENDS CommandSystem

Has(events, p) == \E i \in 1..Len(events) : events[i] = p

MCHandlers ==
    [k \in {"book", "bookPaid", "pay", "cancel", "note"} |->
        [stream   |-> IF k = "note" THEN "s2" ELSE "s1",
         expected |-> CASE k \in {"book", "bookPaid"} -> "IsNew"
                        [] k \in {"pay", "cancel"}            -> "IsExisting"
                        [] k = "note"                         -> "IsAny"]]

Decision(err, new) == [err |-> err, events |-> new]

\* A payment is rejected once paid or cancelled, a second cancellation is a
\* no-op, a booking may be paid at once (two events), and a note is an event
\* of a type nobody registered.
MCAct(k, events) ==
    CASE k = "book"     -> Decision(FALSE, <<"booked">>)
      [] k = "bookPaid" -> Decision(FALSE, <<"booked", "paid">>)
      [] k = "pay"      -> IF Has(events, "paid") \/ Has(events, "cancelled")
                           THEN Decision(TRUE, <<>>)
                           ELSE Decision(FALSE, <<"paid">>)
      [] k = "cancel"   -> Decision(FALSE, IF Has(events, "cancelled")
                                           THEN <<>> ELSE <<"cancelled">>)
      [] k = "note"     -> Decision(FALSE, <<"note">>)

MCBatches == {<<"booked">>, <<"booked", "paid">>, <<"paid">>, <<"cancelled">>, <<"note">>}
=============================================================================

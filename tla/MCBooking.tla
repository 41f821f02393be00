----------------------------- MODULE MCBooking -----------------------------
(***************************************************************************)
(* A small instance of the booking sample.                                 *)
(***************************************************************************)
EXTENDS Booking

MCBatches == {<<e>> : e \in BookingEvents}
MCPayloads == BookingEvents \union {GuestMoved}
MCForeign == {[name |-> "GuestMoved", payload |-> GuestMoved]}
=============================================================================

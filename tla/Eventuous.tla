------------------------------ MODULE Eventuous ------------------------------
(***************************************************************************)
(* The vocabulary shared by the event stores and the command services:     *)
(* expected versions and states (core/eventuous.go), the events a store    *)
(* hands out (core/store/types.go) and LoadState (core/store/state.go).    *)
(*                                                                         *)
(* The fold of the code is a deterministic function of the list of         *)
(* payloads it is applied to, so that list stands for the folded state:    *)
(* two lists that are equal fold to the same state, whatever the fold.     *)
(***************************************************************************)
EXTENDS Integers, Sequences

CONSTANTS Streams,   \* stream names
          Payloads   \* event payloads

VersionNoStream == -1
VersionAny == -2

ExpectedStates == {"IsNew", "IsExisting", "IsAny"}

\* An event as a store returns it: its payload, its Position in the stream and
\* its GlobalPosition.
StreamEvents ==
    [payload : Payloads, position : Nat, global : Nat]

PayloadsOf(events) == [i \in 1..Len(events) |-> events[i].payload]

\* A faulty LoadState that returns the number of events as their version.
LoadStateCounting(found, raw, expected) ==
    LET Fails(e) == [err |-> e, payloads |-> <<>>, version |-> VersionNoStream]
    IN  CASE ~found /\ expected = "IsExisting" -> Fails("streamNotFound")
          [] ~found /\ expected # "IsExisting" -> Fails("none")
          [] found /\ expected = "IsNew"       -> Fails("streamExists")
          [] found /\ expected # "IsNew" ->
               [err |-> "none", payloads |-> PayloadsOf(raw), version |-> Len(raw)]

\* LoadState, given what ReadEvents(stream, 0, MaxInt32) answered: whether the
\* stream was found, and its events.  The version it returns is the number of
\* events read less one, which is VersionNoStream when there are none.
LoadState(found, raw, expected) ==
    LET Fails(e) == [err |-> e, payloads |-> <<>>, version |-> VersionNoStream]
    IN  CASE ~found /\ expected = "IsExisting" -> Fails("streamNotFound")
          [] ~found /\ expected # "IsExisting" -> Fails("none")
          [] found /\ expected = "IsNew"       -> Fails("streamExists")
          [] found /\ expected # "IsNew" ->
               [err |-> "none", payloads |-> PayloadsOf(raw), version |-> Len(raw) - 1]
=============================================================================

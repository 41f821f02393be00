----------------------------- MODULE Aggregate -----------------------------
(***************************************************************************)
(* The aggregate of core/aggregate/aggregate.go: the folded state, the     *)
(* pending changes already folded into it, and the version it was loaded   *)
(* at.  The state is the list of payloads it is folded from.               *)
(***************************************************************************)
EXTENDS Eventuous

NewAggregate == [state |-> <<>>, changes |-> <<>>, originalVersion |-> -1]

CurrentAggregateVersion(agg) == agg.originalVersion + Len(agg.changes)

\* Apply, once for each of the events, in order.
ApplyAll(agg, events) ==
    [agg EXCEPT !.changes = @ \o events, !.state = @ \o events]

\* Load folds onto the state the aggregate has and drops its changes.
LoadEvents(agg, version, events) ==
    [state |-> agg.state \o events, changes |-> <<>>, originalVersion |-> version]

\* Kept for further commands: no changes, and the version they brought it to.
ClearChanges(agg) ==
    [agg EXCEPT !.changes = <<>>, !.originalVersion = CurrentAggregateVersion(agg)]

\* A faulty test that takes the version 0 of one event for that of a new stream.
IsNewAtVersionZero(agg) == agg.originalVersion <= 0

IsNewAggregate(agg) == agg.originalVersion < 0

\* LoadAggregate (core/store/aggregate.go), given what ReadEvents answered.  It
\* asks LoadState for "IsAny", which turns a missing stream into no events.
LoadAggregate(found, raw) ==
    LET loaded == LoadState(found, raw, "IsAny")
    IN  IF loaded.payloads = <<>>
        THEN NewAggregate
        ELSE LoadEvents(NewAggregate, loaded.version, loaded.payloads)

\* The version StoreAggregate expects the stream to be at.
ExpectedByAggregate(agg) ==
    IF agg.originalVersion = -1 THEN VersionNoStream ELSE agg.originalVersion
=============================================================================

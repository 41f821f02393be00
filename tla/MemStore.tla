------------------------------ MODULE MemStore ------------------------------
(***************************************************************************)
(* The in-memory EventStore, core/test/memstore/memstore.go.  Each method  *)
(* holds the store's mutex from its first line to its return, so each is   *)
(* one atomic step.  A stream absent from the map and a stream mapped to   *)
(* an empty slice behave alike in every method: both are <<>> here.        *)
(***************************************************************************)
EXTENDS Eventuous

VARIABLES streams,         \* the events of each stream
          globalPosition   \* the GlobalPosition the next event receives

storeVars == <<streams, globalPosition>>

StoreInit ==
    /\ streams = [s \in Streams |-> <<>>]
    /\ globalPosition = 0

StoreTypeOK ==
    /\ streams \in [Streams -> Seq(StreamEvents)]
    /\ globalPosition \in Nat

StreamFound(s) == Len(streams[s]) > 0

StreamExists(s) == StreamFound(s)

\* ReadEvents and ReadEventsBackwards of a stream that is found: at most count
\* events from the index start on, or down from it and from the end at most.
ReadEvents(s, start, count) ==
    SubSeq(streams[s], start + 1,
           IF start + count < Len(streams[s]) THEN start + count ELSE Len(streams[s]))

ReadEventsBackwards(s, start, count) ==
    LET from == IF start >= Len(streams[s]) THEN Len(streams[s]) ELSE start + 1
    IN  [i \in 1..(IF count < from THEN count ELSE from) |-> streams[s][from + 1 - i]]

CurrentVersion(s) == Len(streams[s]) - 1

\* A faulty version check that does not look at the stream for VersionNoStream.
VersionMatchesAnyNew(s, expected) ==
    expected \in {VersionAny, VersionNoStream, CurrentVersion(s)}

\* The version check AppendEvents makes under its lock.  VersionNoStream
\* requires an empty stream, whose current version is that very number.
VersionMatches(s, expected) ==
    expected = VersionAny \/ expected = CurrentVersion(s)

\* The events as they are stored: positions continue from the length of the
\* stream, global positions from the store's counter.
Stamped(s, new) ==
    [i \in 1..Len(new) |->
        [payload  |-> new[i],
         position |-> Len(streams[s]) + i - 1,
         global   |-> globalPosition + i - 1]]

\* A faulty AppendEvents that counts appends and not events.
AppendEventsCountingOnce(s, expected, new) ==
    /\ VersionMatches(s, expected)
    /\ streams' = [streams EXCEPT ![s] = @ \o Stamped(s, new)]
    /\ globalPosition' = globalPosition + 1

AppendEvents(s, expected, new) ==
    /\ VersionMatches(s, expected)
    /\ streams' = [streams EXCEPT ![s] = @ \o Stamped(s, new)]
    /\ globalPosition' = globalPosition + Len(new)

\* A faulty AppendResult with the GlobalPosition of the next event to come.
AppendResultNextGlobal(s, new) ==
    [version |-> Len(streams[s]) + Len(new) - 1, global |-> globalPosition + Len(new)]

\* The AppendResult of appending to s: the version and the GlobalPosition of
\* the last of its events.
AppendResult(s, new) ==
    LET events == streams[s] \o Stamped(s, new)
    IN  [version |-> Len(events) - 1,
         global  |-> IF events = <<>> THEN 0 ELSE events[Len(events)].global]

\* A method that checks the version returns ErrOptimisticConcurrency and changes
\* nothing.
AppendConflict(s, expected) ==
    /\ ~VersionMatches(s, expected)
    /\ UNCHANGED storeVars

\* A faulty filter that drops the event at the position too.
KeptAfter(events, position) ==
    LET kept[i \in 0..Len(events)] ==
            IF i = 0 THEN <<>>
            ELSE IF events[i].position > position
                 THEN Append(kept[i - 1], events[i]) ELSE kept[i - 1]
    IN  kept[Len(events)]

\* What TruncateStream keeps of the events, one after the other.
Kept(events, position) ==
    LET kept[i \in 0..Len(events)] ==
            IF i = 0 THEN <<>>
            ELSE IF events[i].position >= position
                 THEN Append(kept[i - 1], events[i]) ELSE kept[i - 1]
    IN  kept[Len(events)]

\* DeleteStream and TruncateStream check the version as AppendEvents does.  What is
\* kept of a truncated stream keeps its positions; later events are given
\* theirs from its new length on.
DeleteStream(s, expected) ==
    /\ VersionMatches(s, expected)
    /\ streams' = [streams EXCEPT ![s] = <<>>]
    /\ UNCHANGED globalPosition

TruncateStream(s, position, expected) ==
    /\ VersionMatches(s, expected)
    /\ streams' = [streams EXCEPT ![s] = Kept(@, position)]
    /\ UNCHANGED globalPosition
=============================================================================

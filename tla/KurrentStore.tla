---------------------------- MODULE KurrentStore ----------------------------
(***************************************************************************)
(* The EventStore over KurrentDB, kurrentdb/store.go.  The server keeps    *)
(* every event of a stream under its revision; a truncation or a deletion  *)
(* hides the events before a revision, and revisions are never used again. *)
(* An event is stored under the name the codec's TypeMap has for its type, *)
(* and read as a value of the type it then has for the name.               *)
(***************************************************************************)
EXTENDS Eventuous, TypeMap

CONSTANTS TypeOf(_),   \* the Go type of a payload
          Misread      \* a payload decoded as a value of another type

VARIABLES log,       \* the events each stream ever had, at revision + 1
          before,    \* the revision before which the events of a stream are hidden
          deleted,   \* the streams that are soft-deleted
          commits    \* the commit position the next event receives

kurrentVars == <<log, before, deleted, commits>>

RecordedEvents ==
    [name : Names, payload : Payloads, position : Nat, global : Nat]

KurrentInit ==
    /\ log = [s \in Streams |-> <<>>]
    /\ before = [s \in Streams |-> 0]
    /\ deleted = {}
    /\ commits = 0

KurrentTypeOK ==
    /\ log \in [Streams -> Seq(RecordedEvents)]
    /\ before \in [Streams -> Nat]
    /\ deleted \subseteq Streams
    /\ commits \in Nat

Revision(s) == Len(log[s]) - 1

\* What a read is shown: the events from a revision on, or up to one.
VisibleFrom(s, start) ==
    SubSeq(log[s], (IF start < before[s] THEN before[s] ELSE start) + 1, Len(log[s]))

VisibleUpTo(s, start) ==
    SubSeq(log[s], before[s] + 1, IF start < Len(log[s]) THEN start + 1 ELSE Len(log[s]))

Visible(s) == VisibleFrom(s, 0)

\* The server knows the stream: otherwise a read is answered with
\* ErrStreamNotFound.  A stream may be found and have no visible event.
KurrentFound(s) == log[s] # <<>> /\ s \notin deleted

\* JSONCodec: Encode needs the name of the type, Decode a type for the name.
CanEncode(payloads) == \A i \in 1..Len(payloads) : HasTypeName(TypeOf(payloads[i]))

CanDecode(events) == \A i \in 1..Len(events) : HasInstance(events[i].name)

Decoded(event) ==
    IF fromName[event.name] = TypeOf(event.payload) THEN event.payload ELSE Misread

AsRead(events) ==
    [i \in 1..Len(events) |->
        [payload |-> Decoded(events[i]), position |-> events[i].position,
         global |-> events[i].global]]

FirstOf(events, count) ==
    SubSeq(events, 1, IF count < Len(events) THEN count ELSE Len(events))

Backwards(events) == [i \in 1..Len(events) |-> events[Len(events) + 1 - i]]

\* What readStream receives; one event it cannot decode fails the whole read.
Forwards(s, start, count) == FirstOf(VisibleFrom(s, start), count)

ReadEvents(s, start, count) == AsRead(Forwards(s, start, count))

\* From the revision start, or from the end, which the code is told with the
\* greatest uint64.
ReadEventsBackwards(s, start, count) ==
    AsRead(FirstOf(Backwards(VisibleUpTo(s, start)), count))

StreamExists(s) == KurrentFound(s) /\ Visible(s) # <<>>

\* A faulty variant that counts revisions from 1.
MapExpectedVersionFromOne(v) ==
    CASE v = VersionNoStream -> [kind |-> "NoStream", revision |-> 0]
      [] v = VersionAny      -> [kind |-> "Any", revision |-> 0]
      [] v >= 0              -> [kind |-> "Revision", revision |-> v + 1]

\* mapExpectedVersion: the kind of stream state, and its revision.
MapExpectedVersion(v) ==
    CASE v = VersionNoStream -> [kind |-> "NoStream", revision |-> 0]
      [] v = VersionAny      -> [kind |-> "Any", revision |-> 0]
      [] v >= 0              -> [kind |-> "Revision", revision |-> v]

\* The server's check of a stream state: a deleted stream may be begun anew.
StateMatches(s, state) ==
    CASE state.kind = "NoStream" -> log[s] = <<>> \/ s \in deleted
      [] state.kind = "Any"      -> TRUE
      [] state.kind = "Revision" -> state.revision = Revision(s)

Matches(s, expected) == StateMatches(s, MapExpectedVersion(expected))

\* What is sent to the server: each payload under the name of its type.
Encoded(new) ==
    [i \in 1..Len(new) |-> [name |-> toName[TypeOf(new[i])], payload |-> new[i]]]

\* The server stamps the events it is sent and adds them to the stream.
Recorded(s, sent) ==
    [i \in 1..Len(sent) |->
        [name |-> sent[i].name, payload |-> sent[i].payload,
         position |-> Len(log[s]) + i - 1, global |-> commits + i - 1]]

Record(s, sent) ==
    /\ log' = [log EXCEPT ![s] = @ \o Recorded(s, sent)]
    /\ commits' = commits + Len(sent)
    /\ before' = IF s \in deleted THEN [before EXCEPT ![s] = Len(log[s])] ELSE before
    /\ deleted' = deleted \ {s}

\* A faulty append that sends events it has no name for.
KurrentAppendUnnamed(s, expected, new) ==
    /\ Matches(s, expected)
    /\ Record(s, Encoded(new))

\* AppendEvents encodes all of its events before it calls the server.
KurrentAppend(s, expected, new) ==
    /\ CanEncode(new)
    /\ Matches(s, expected)
    /\ Record(s, Encoded(new))

\* The AppendResult: revision and commit position of the last event.
KurrentResult(s, new) ==
    [version |-> Revision(s) + Len(new), global |-> commits + Len(new) - 1]

KurrentConflict(s, expected, new) ==
    CanEncode(new) /\ ~Matches(s, expected) /\ UNCHANGED kurrentVars

\* DeleteStream of a stream that is there; a version that does not match
\* changes nothing.
DeleteStream(s, expected) ==
    /\ KurrentFound(s) /\ Matches(s, expected)
    /\ deleted' = deleted \union {s}
    /\ UNCHANGED <<log, before, commits>>

\* TruncateStream checks the expected version against the last event it reads:
\* whatever is expected of a stream whose events are all hidden, and no stream
\* of one that is not found, is let through.
TruncateAllowed(s, expected) ==
    \/ expected = VersionAny
    \/ ~KurrentFound(s) /\ expected = VersionNoStream
    \/ KurrentFound(s) /\ (Visible(s) = <<>> \/ expected = Revision(s))

\* So is anything if Recv fails in another way than by not finding the stream.
TruncateUnchecked(s, expected) == expected # VersionAny /\ KurrentFound(s)

\* Then it writes the metadata of the stream, expecting nothing.  That replaces
\* what was there, the mark of a deletion too.
SetTruncateBefore(s, position) ==
    /\ before' = [before EXCEPT ![s] = position]
    /\ deleted' = deleted \ {s}
    /\ UNCHANGED <<log, commits>>
=============================================================================

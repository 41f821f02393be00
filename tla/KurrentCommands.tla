-------------------------- MODULE KurrentCommands --------------------------
(***************************************************************************)
(* The functional command service over the KurrentDB store: calls of       *)
(* Handle interleave with each other, with calls of the store that fail,   *)
(* with the deletion and the two steps of the truncation of streams, with  *)
(* other programs that append, and with types registered late.             *)
(***************************************************************************)
EXTENDS KurrentStore, CommandService, Aggregate

CONSTANTS Initially,      \* the types registered before the first call -> their names
          Foreign,        \* what other programs append: [name, payload]
          Maintainers,    \* goroutines that call TruncateStream
          Positions,      \* the positions streams are truncated at
          MaxEvents,      \* no new call once the store has this many events
          MaxMaintained,  \* how often a stream may be deleted or truncated
          MaxFailures     \* how many calls of the store may fail

ASSUME KurrentAssumption ==
    /\ Positions \subseteq Nat /\ MaxEvents \in Nat /\ MaxMaintained \in Nat
    /\ MaxFailures \in Nat
    /\ \A p \in Payloads : TypeOf(p) # Unmapped
    /\ DOMAIN Initially \subseteq GoTypes
    /\ \A t, u \in DOMAIN Initially :
          Initially[t] \in Names /\ (Initially[t] = Initially[u] => t = u)
    /\ Foreign \subseteq [name : Names, payload : Payloads]

\* Programs agree on names: no type but its own can be registered for the name of
\* an event another program writes.
ASSUME ForeignAssumption ==
    \A e \in Foreign :
        \/ TypeOf(e.payload) \in DOMAIN Initially /\ Initially[TypeOf(e.payload)] = e.name
        \/ \A t \in GoTypes \ {TypeOf(e.payload)} :
              t \in DOMAIN Initially /\ Initially[t] # e.name

VARIABLES truncating,  \* what a maintainer is about to write
          touched,     \* how often each stream was deleted or truncated
          failures,    \* how many calls of the store have failed
          since,       \* history: the length of its stream when a caller called
          decisions    \* history: what every accepted append was decided on

upkeepVars == <<truncating, touched>>
historyVars == <<since, decisions>>
vars == <<typeMapVars, kurrentVars, callVars, serviceVars, upkeepVars, failures,
          historyVars>>

NoTruncation == [at |-> "none"]
Truncations == [at : {"write"}, stream : Streams, position : Positions]

Decisions ==
    [stream : Streams, seen : Seq(Payloads), new : Seq(Payloads), at : Nat,
     anew : BOOLEAN]

TypeMapInit ==
    /\ toName = [t \in GoTypes |->
                    IF t \in DOMAIN Initially THEN Initially[t] ELSE Unmapped]
    /\ fromName = [n \in Names |->
                      IF \E t \in DOMAIN Initially : Initially[t] = n
                      THEN CHOOSE t \in DOMAIN Initially : Initially[t] = n
                      ELSE Unmapped]

Init ==
    /\ TypeMapInit /\ KurrentInit /\ CallsInit /\ ServiceInit
    /\ truncating = [m \in Maintainers |-> NoTruncation]
    /\ touched = [s \in Streams |-> 0] /\ failures = 0
    /\ since = [c \in Callers |-> 0]
    /\ decisions = {}

TypeOK ==
    /\ TypeMapTypeOK /\ KurrentTypeOK /\ CallsTypeOK /\ ServiceTypeOK
    /\ truncating \in [Maintainers -> Truncations \union {NoTruncation}]
    /\ touched \in [Streams -> Nat] /\ failures \in 0..MaxFailures
    /\ since \in [Callers -> Nat]
    /\ decisions \subseteq Decisions

CallStream(c) == StreamOf(cmd[c])

\* math.MaxInt32, the count LoadState asks for.
Everything == 2147483647

\* ReadEvents finds the stream and can decode all it reads.
Readable(s) == CanDecode(Forwards(s, 0, Everything))

ServiceCall(c, k) ==
    /\ commits < MaxEvents
    /\ Handle(c, k)
    /\ since' = IF k \in DOMAIN Handlers
                THEN [since EXCEPT ![c] = Len(log[StreamOf(k)])] ELSE since
    /\ UNCHANGED <<typeMapVars, kurrentVars, upkeepVars, failures, decisions>>

ServiceLoad(c) ==
    /\ pc[c] = "load"
    /\ LET s == CallStream(c)
       IN  /\ KurrentFound(s) => Readable(s)
           /\ Load(c, KurrentFound(s), ReadEvents(s, 0, Everything))
    /\ UNCHANGED <<typeMapVars, kurrentVars, upkeepVars, failures, historyVars>>

\* One event of an unknown type fails the read, and every command on its stream.
ServiceLoadFails(c) ==
    /\ pc[c] = "load"
    /\ KurrentFound(CallStream(c)) /\ ~Readable(CallStream(c))
    /\ Return(c, Failure("storeFailed")) /\ UNCHANGED serviceVars
    /\ UNCHANGED <<typeMapVars, kurrentVars, upkeepVars, failures, historyVars>>

ServiceDecide(c) ==
    /\ Decide(c)
    /\ UNCHANGED <<typeMapVars, kurrentVars, upkeepVars, failures, historyVars>>

\* The server appends what caller c decided on.
Accept(c) ==
    /\ KurrentAppend(CallStream(c), version[c], fresh[c])
    /\ decisions' = decisions \union
         {[stream |-> CallStream(c), seen |-> seen[c], new |-> fresh[c],
           at |-> Len(log[CallStream(c)]), anew |-> CallStream(c) \in deleted]}

\* The service looks its type names up in the TypeMap of the store's codec.
KnownPayloads == {p \in Payloads : HasTypeName(TypeOf(p))}

ServiceAppend(c) ==
    /\ Appended(c, KurrentResult(CallStream(c), fresh[c]), KnownPayloads)
    /\ Accept(c)
    /\ UNCHANGED <<typeMapVars, upkeepVars, failures, since>>

ServiceConflict(c) ==
    /\ Conflict(c)
    /\ KurrentConflict(CallStream(c), version[c], fresh[c])
    /\ UNCHANGED <<typeMapVars, upkeepVars, failures, historyVars>>

\* An event cannot be encoded, and nothing is appended.
ServiceEncodeFails(c) ==
    /\ pc[c] = "append" /\ ~CanEncode(fresh[c])
    /\ Return(c, Failure("typeUnknown")) /\ Forget(c)
    /\ UNCHANGED <<typeMapVars, kurrentVars, upkeepVars, failures, historyVars>>

\* A read or an append returns an error of another kind, and Handle returns it;
\* the append may have been carried out.
ServiceFails(c) ==
    /\ pc[c] \in {"load", "append"}
    /\ failures < MaxFailures /\ failures' = failures + 1
    /\ Return(c, Failure("storeFailed")) /\ Forget(c)
    /\ \/ UNCHANGED <<kurrentVars, decisions>>
       \/ pc[c] = "append" /\ Accept(c)
    /\ UNCHANGED <<typeMapVars, upkeepVars, since>>

Maintain(s) ==
    /\ touched[s] < MaxMaintained
    /\ touched' = [touched EXCEPT ![s] = @ + 1]

Expectable == {VersionAny, VersionNoStream} \union 0..MaxEvents

Delete(s, expected) ==
    /\ DeleteStream(s, expected)
    /\ Maintain(s)
    /\ UNCHANGED <<typeMapVars, callVars, serviceVars, truncating, failures, historyVars>>

\* The version check of TruncateStream, whose refusal changes nothing.
CheckVersion(m, s, position, expected) ==
    /\ truncating[m] = NoTruncation
    /\ \/ TruncateAllowed(s, expected) /\ UNCHANGED failures
       \/ /\ TruncateUnchecked(s, expected)
          /\ failures < MaxFailures /\ failures' = failures + 1
    /\ truncating' = [truncating EXCEPT ![m] =
                        [at |-> "write", stream |-> s, position |-> position]]
    /\ Maintain(s)
    /\ UNCHANGED <<typeMapVars, kurrentVars, callVars, serviceVars, historyVars>>

WriteMetadata(m) ==
    /\ truncating[m] # NoTruncation
    /\ SetTruncateBefore(truncating[m].stream, truncating[m].position)
    /\ truncating' = [truncating EXCEPT ![m] = NoTruncation]
    /\ UNCHANGED <<typeMapVars, callVars, serviceVars, touched, failures, historyVars>>

\* Another program appends to the stream, under a name of its own TypeMap.
ForeignAppend(s) ==
    /\ commits < MaxEvents
    /\ \E e \in Foreign : Record(s, <<e>>)
    /\ UNCHANGED <<typeMapVars, callVars, serviceVars, upkeepVars, failures, historyVars>>

RegisterType(t, n) ==
    /\ Register(t, n)
    /\ UNCHANGED <<kurrentVars, callVars, serviceVars, upkeepVars, failures, historyVars>>

\* The steps of Handle that leave the store as it is, and those that ask it to append.
ServiceLocal(c) ==
    ServiceLoad(c) \/ ServiceLoadFails(c) \/ ServiceDecide(c) \/ ServiceEncodeFails(c)

ServiceStore(c) == ServiceAppend(c) \/ ServiceConflict(c) \/ ServiceFails(c)

Next ==
    \/ \E c \in Callers :
          (\E k \in Commands : ServiceCall(c, k)) \/ ServiceLocal(c) \/ ServiceStore(c)
    \/ \E s \in Streams, expected \in Expectable :
          \/ Delete(s, expected)
          \/ \E m \in Maintainers, position \in Positions :
                CheckVersion(m, s, position, expected)
    \/ \E m \in Maintainers : WriteMetadata(m)
    \/ \E s \in Streams : ForeignAppend(s)
    \/ \E t \in GoTypes, n \in Names : RegisterType(t, n)

Spec == Init /\ [][Next]_vars

-----------------------------------------------------------------------------
\* Every accepted decision was made on all the events its stream ever had when it
\* was appended, or on none for a stream that had been deleted: nothing that a
\* truncation hides makes an old version match again, and what was read is what
\* was written, whoever wrote it and whatever is registered meanwhile.
DecidedOnWholeStream ==
    \A d \in decisions :
        \/ d.seen = PayloadsOf(SubSeq(log[d.stream], 1, d.at))
        \/ d.anew /\ d.seen = <<>>

\* A call that gets ErrOptimisticConcurrency had its stream extended since it
\* began, unless the stream was deleted or truncated.
NoSpuriousConflict ==
    \A c \in Callers : result[c].outcome = "conflict" =>
        touched[CallStream(c)] > 0 \/ Len(log[CallStream(c)]) > since[c]

\* aggregate.go:70-71, "version is the stream position of the last event in events":
\* what LoadAggregate passes to Load is the position of the last event it has read.
LoadedAtLastEvent ==
    \A s \in Streams : StreamExists(s) /\ Readable(s) =>
        LET read == ReadEvents(s, 0, Everything)
        IN  LoadAggregate(TRUE, read).originalVersion = read[Len(read)].position
=============================================================================

--------------------------- MODULE CommandSystem ---------------------------
(***************************************************************************)
(* Both command services over one in-memory store: concurrent callers whose*)
(* calls interleave between their read of a stream and their append to it. *)
(***************************************************************************)
EXTENDS MemStore, CommandService, AggregateService

CONSTANTS Registered,  \* the payloads whose Go type the TypeMap knows
          MaxEvents    \* no new call once the store holds this many events

ASSUME MaxEventsAssumption == MaxEvents \in Nat

VARIABLES since,      \* history: the length of its stream when a caller called
          decisions   \* history: what every accepted append was decided on

systemVars == <<storeVars, callVars, serviceVars, agg, since, decisions>>

Decisions ==
    [stream : Streams, cmd : Commands, seen : Seq(Payloads), new : Seq(Payloads),
     at : Nat]

Init ==
    /\ StoreInit /\ CallsInit /\ ServiceInit /\ AggregateInit
    /\ since = [c \in AllCallers |-> 0]
    /\ decisions = {}

TypeOK ==
    /\ StoreTypeOK /\ CallsTypeOK /\ ServiceTypeOK /\ AggregateTypeOK
    /\ since \in [AllCallers -> Nat]
    /\ decisions \subseteq Decisions

CallStream(c) == StreamOf(cmd[c])

Called(c, k) ==
    /\ globalPosition < MaxEvents
    /\ since' = IF k \in DOMAIN Handlers
                THEN [since EXCEPT ![c] = Len(streams[StreamOf(k)])] ELSE since
    /\ UNCHANGED <<storeVars, decisions>>

Local == UNCHANGED <<storeVars, decisions, since>>

\* The events "new", decided on the events "base", are being appended.
Decided(c, base, new) ==
    /\ decisions' = decisions \union
         {[stream |-> CallStream(c), cmd |-> cmd[c], seen |-> base, new |-> new,
           at |-> Len(streams[CallStream(c)])]}
    /\ UNCHANGED since

ServiceCall(c) == \E k \in Commands : Handle(c, k) /\ Called(c, k) /\ UNCHANGED agg

ServiceLoad(c) ==
    /\ Load(c, StreamFound(CallStream(c)), streams[CallStream(c)])
    /\ Local /\ UNCHANGED agg

ServiceDecide(c) == Decide(c) /\ Local /\ UNCHANGED agg

ServiceAppend(c) ==
    /\ Appended(c, AppendResult(CallStream(c), fresh[c]), Registered)
    /\ AppendEvents(CallStream(c), version[c], fresh[c])
    /\ Decided(c, seen[c], fresh[c])
    /\ UNCHANGED agg

ServiceConflict(c) ==
    /\ Conflict(c)
    /\ AppendConflict(CallStream(c), version[c])
    /\ UNCHANGED <<agg, since, decisions>>

AggregateCall(c) ==
    \E k \in Commands : AggHandle(c, k) /\ Called(c, k) /\ UNCHANGED serviceVars

AggregateLoad(c) ==
    /\ AggLoad(c, StreamFound(CallStream(c)), streams[CallStream(c)])
    /\ Local /\ UNCHANGED serviceVars

AggregateRefuse(c) == AggRefuse(c) /\ Local /\ UNCHANGED serviceVars

AggregateAct(c) == AggAct(c) /\ Local /\ UNCHANGED serviceVars

\* What the aggregate had been loaded with, before its own changes.
Loaded(a) == SubSeq(a.state, 1, Len(a.state) - Len(a.changes))

AggregateStore(c) ==
    /\ AggStored(c, AppendResult(CallStream(c), agg[c].changes), Registered)
    /\ AppendEvents(CallStream(c), ExpectedByAggregate(agg[c]), agg[c].changes)
    /\ Decided(c, Loaded(agg[c]), agg[c].changes)
    /\ UNCHANGED serviceVars

AggregateConflict(c) ==
    /\ AggConflict(c)
    /\ AppendConflict(CallStream(c), ExpectedByAggregate(agg[c]))
    /\ UNCHANGED <<serviceVars, since, decisions>>

ServiceStep(c) ==
    ServiceLoad(c) \/ ServiceDecide(c) \/ ServiceAppend(c) \/ ServiceConflict(c)

AggregateStep(c) ==
    \/ AggregateLoad(c) \/ AggregateRefuse(c) \/ AggregateAct(c)
    \/ AggregateStore(c) \/ AggregateConflict(c)

Next ==
    \/ \E c \in Callers : ServiceCall(c) \/ ServiceStep(c)
    \/ \E c \in AggCallers : AggregateCall(c) \/ AggregateStep(c)

Spec == Init /\ [][Next]_systemVars

\* A goroutine that is inside Handle keeps running; nobody has to call Handle.
FairSpec ==
    /\ Spec
    /\ \A c \in Callers : WF_systemVars(ServiceStep(c))
    /\ \A c \in AggCallers : WF_systemVars(AggregateStep(c))

-----------------------------------------------------------------------------
\* Stream s holds these payloads right after its first n events.
Holds(s, n, payloads) ==
    /\ n + Len(payloads) <= Len(streams[s])
    /\ \A i \in 1..Len(payloads) : streams[s][n + i].payload = payloads[i]

\* Optimistic concurrency of both services (service.go:105, store/aggregate.go:72):
\* whatever two callers read before either appended, the events a handler decided
\* on are exactly the events that precede its own in the stream.
NoLostUpdate ==
    \A d \in decisions :
        /\ d.at = Len(d.seen)
        /\ Holds(d.stream, 0, d.seen)
        /\ Holds(d.stream, d.at, d.new)

\* The Result of a call (service.go:122, aggservice.go:134) describes the stream
\* right after its own events, and stays true of that prefix whatever others
\* append: its state, its StreamVersion, and the GlobalPosition of its last event.
AnswersAreCurrent ==
    \A c \in AllCallers : result[c].outcome \in {"ok", "noop"} =>
        LET r == result[c]
            n == Len(r.state)
        IN  /\ Holds(CallStream(c), 0, r.state)
            /\ r.version = n - 1
            /\ r.outcome = "ok" => r.global = streams[CallStream(c)][n].global

\* Global positions (memstore.go:73) number the events of all streams without
\* gaps or repetitions, and follow the order of each stream.
GlobalOrder ==
    /\ \A g \in 0..(globalPosition - 1) :
          \E s \in Streams : \E i \in 1..Len(streams[s]) : streams[s][i].global = g
    /\ \A s, t \in Streams : \A i \in 1..Len(streams[s]), j \in 1..Len(streams[t]) :
          /\ streams[s][i].global < globalPosition
          /\ s = t /\ i < j => streams[s][i].global < streams[t][j].global
          /\ s # t => streams[s][i].global # streams[t][j].global

\* ErrOptimisticConcurrency is never spurious: a call that gets it had its
\* stream extended by another call since it began.
NoSpuriousConflict ==
    \A c \in AllCallers : result[c].outcome = "conflict" =>
        Len(streams[CallStream(c)]) > since[c]

\* Every call that has been made returns.
CallsReturn == \A c \in AllCallers : pc[c] # "idle" ~> pc[c] = "idle"

\* What the callers see of the system: the payloads of each stream, the command
\* each is waiting for and where its stream ended when it called, and the answers.
logSeen == [s \in Streams |-> PayloadsOf(streams[s])]
waitingFor == [c \in AllCallers |-> IF pc[c] = "idle" THEN NoCommand ELSE cmd[c]]
waitingSince == [c \in AllCallers |-> IF pc[c] = "idle" THEN 0 ELSE since[c]]
answered ==
    [c \in AllCallers |->
        [outcome |-> result[c].outcome, state |-> result[c].state,
         version |-> result[c].version]]

Atomic == INSTANCE AtomicCommands WITH
    log <- logSeen, calling <- waitingFor, since <- waitingSince, answer <- answered

\* Load, decide and append in separate steps behave, to the callers of both
\* services, as commands that take effect at one instant between call and return.
CommandsAreAtomic == Atomic!AtomicSpec
=============================================================================

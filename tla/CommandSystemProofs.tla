------------------------ MODULE CommandSystemProofs ------------------------
(***************************************************************************)
(* Proofs about CommandSystem, for any callers, commands, handlers and     *)
(* streams.                                                                *)
(***************************************************************************)
EXTENDS CommandSystem, TLAPS

\* A call that has read its stream knows a prefix of it, with the version that
\* belongs to that prefix and no older than the call.
Knows(s, payloads, v, from) ==
    /\ Holds(s, 0, payloads)
    /\ v = Len(payloads) - 1
    /\ from <= Len(payloads)

Waits(c) ==
    pc[c] # "idle" => since[c] <= Len(streams[CallStream(c)])

ServiceKnows(c) ==
    pc[c] \in {"decide", "append"} =>
        Knows(CallStream(c), seen[c], version[c], since[c])

AggregateKnows(c) ==
    /\ pc[c] = "decide" =>
         /\ agg[c].changes = <<>>
         /\ Knows(CallStream(c), agg[c].state, agg[c].originalVersion, since[c])
    /\ pc[c] = "append" =>
         /\ Len(agg[c].changes) <= Len(agg[c].state)
         /\ Knows(CallStream(c), Loaded(agg[c]), agg[c].originalVersion, since[c])

NotSpurious(c) ==
    result[c].outcome = "conflict" =>
        cmd[c] \in DOMAIN Handlers /\ Len(streams[CallStream(c)]) > since[c]

IInv ==
    /\ TypeOK /\ NoLostUpdate
    /\ \A c \in AllCallers : Waits(c) /\ NotSpurious(c)
    /\ \A c \in Callers : ServiceKnows(c)
    /\ \A c \in AggCallers : AggregateKnows(c)

-----------------------------------------------------------------------------
\* Sequences, and the steps of Handle whatever the store.

LEMMA Concatenation ==
    ASSUME NEW S, NEW a \in Seq(S), NEW b \in Seq(S), NEW c, c = a \o b
    PROVE  /\ c \in Seq(S)
           /\ Len(c) = Len(a) + Len(b)
           /\ \A i \in 1..Len(a) : c[i] = a[i]
           /\ \A i \in 1..Len(b) : c[Len(a) + i] = b[i]
<1>1. a \o b \in Seq(S)
  BY SMTT(60)
<1>2. Len(a \o b) = Len(a) + Len(b)
  BY SMTT(60)
<1>3. ASSUME NEW i \in 1..Len(a) PROVE (a \o b)[i] = a[i]
  BY <1>3, SMTT(60)
<1>4. ASSUME NEW i \in 1..Len(b) PROVE (a \o b)[Len(a) + i] = b[i]
  <2>1. Len(a) \in Nat /\ Len(b) \in Nat
    OBVIOUS
  <2>2. Len(a) + i \in 1..Len(a) + Len(b) /\ ~(Len(a) + i <= Len(a))
    BY <1>4, <2>1
  <2>3. QED BY <1>4, <2>1, <2>2, SMTT(60)
<1>5. QED BY <1>1, <1>2, <1>3, <1>4

LEMMA PrefixProperties ==
    ASSUME NEW S, NEW q \in Seq(S), NEW n \in 0..Len(q)
    PROVE  /\ SubSeq(q, 1, n) \in Seq(S)
           /\ Len(SubSeq(q, 1, n)) = n
           /\ \A i \in 1..n : SubSeq(q, 1, n)[i] = q[i]
OBVIOUS

LEMMA LoadStateAnswers ==
    ASSUME NEW found \in BOOLEAN, NEW raw, found => raw \in Seq(StreamEvents),
           NEW expected \in ExpectedStates
    PROVE  LET r == LoadState(found, raw, expected)
           IN  /\ r.err \in {"none", "streamNotFound", "streamExists"}
               /\ r.payloads \in Seq(Payloads)
               /\ r.version \in Int
               /\ r.version = Len(r.payloads) - 1
               /\ ~found => r.payloads = <<>>
               /\ found /\ r.err = "none" =>
                     /\ Len(r.payloads) = Len(raw)
                     /\ \A i \in 1..Len(raw) : r.payloads[i] = raw[i].payload
<1>1. ASSUME found
      PROVE  /\ PayloadsOf(raw) \in Seq(Payloads)
             /\ Len(PayloadsOf(raw)) = Len(raw) /\ Len(raw) \in Nat
             /\ \A i \in 1..Len(raw) : PayloadsOf(raw)[i] = raw[i].payload
  <2>1. ASSUME NEW i \in 1..Len(raw) PROVE raw[i].payload \in Payloads
    <3>1. raw[i] \in StreamEvents
      BY <1>1
    <3>2. QED BY <3>1 DEF StreamEvents
  <2>2. Len(raw) \in Nat
    BY <1>1
  <2>3. PayloadsOf(raw) = [i \in 1..Len(raw) |-> raw[i].payload]
    BY DEF PayloadsOf
  <2>4. PayloadsOf(raw) \in [1..Len(raw) -> Payloads]
    BY <2>1, <2>3
  <2>5. QED BY <2>2, <2>3, <2>4
<1>2. CASE ~found
  BY <1>2 DEF LoadState, ExpectedStates, VersionNoStream
<1>3. CASE found
  BY <1>1, <1>3 DEF LoadState, ExpectedStates, VersionNoStream
<1>4. QED BY <1>2, <1>3

-----------------------------------------------------------------------------
LEMMA ResultsTyped ==
    ASSUME NEW o \in Outcomes, NEW state \in Seq(Payloads), NEW changes \in Seq(Payloads),
           NEW v \in Int, NEW appended \in [version : Int, global : Nat],
           NEW known
    PROVE  /\ Failure(o) \in Results
           /\ Failure(o).outcome = o
           /\ NoOp(state, v) \in Results
           /\ NoOp(state, v).outcome = "noop"
           /\ AppendedResult(state, changes, appended, known) \in Results
           /\ AppendedResult(state, changes, appended, known).outcome \in {"ok", "typeUnknown"}
<1>1. \A x \in Outcomes : Failure(x) \in Results /\ Failure(x).outcome = x
  BY DEF Failure, Results, VersionNoStream
<1>2. "noop" \in Outcomes /\ "ok" \in Outcomes /\ "typeUnknown" \in Outcomes
  BY DEF Outcomes
<1>3. NoOp(state, v) \in Results /\ NoOp(state, v).outcome = "noop"
  BY <1>2 DEF NoOp, Results
<1>4. Success(state, changes, appended) \in Results
      /\ Success(state, changes, appended).outcome = "ok"
  BY <1>2 DEF Success, Results
<1>5. QED BY <1>1, <1>2, <1>3, <1>4 DEF AppendedResult

LEMMA CallBegins ==
    ASSUME CallsTypeOK, NEW c \in AllCallers, NEW k \in Commands, BeginCall(c, k)
    PROVE  /\ CallsTypeOK'
           /\ cmd'[c] = k
           /\ k \in DOMAIN Handlers => pc'[c] = "load" /\ result'[c].outcome = "pending"
           /\ k \notin DOMAIN Handlers =>
                pc'[c] = "idle" /\ result'[c].outcome = "handlerNotFound"
           /\ \A d \in AllCallers \ {c} :
                pc'[d] = pc[d] /\ cmd'[d] = cmd[d] /\ result'[d] = result[d]
<1>1. /\ Failure("pending") \in Results /\ Failure("pending").outcome = "pending"
      /\ Failure("handlerNotFound") \in Results
      /\ Failure("handlerNotFound").outcome = "handlerNotFound"
  BY DEF Failure, Results, Outcomes, VersionNoStream
<1>2. QED BY <1>1 DEF CallsTypeOK, BeginCall

LEMMA CallProceeds ==
    ASSUME CallsTypeOK, NEW c \in AllCallers, NEW step \in {"decide", "append"},
           pc[c] # "idle", Proceed(c, step)
    PROVE  /\ CallsTypeOK'
           /\ pc'[c] = step /\ UNCHANGED <<cmd, result>>
           /\ \A d \in AllCallers \ {c} : pc'[d] = pc[d]
BY DEF CallsTypeOK, Proceed

LEMMA CallReturns ==
    ASSUME CallsTypeOK, NEW c \in AllCallers, NEW r \in Results, Return(c, r)
    PROVE  /\ CallsTypeOK'
           /\ pc'[c] = "idle" /\ result'[c] = r /\ UNCHANGED cmd
           /\ \A d \in AllCallers \ {c} : pc'[d] = pc[d] /\ result'[d] = result[d]
BY DEF CallsTypeOK, Return

-----------------------------------------------------------------------------
LEMMA LoadStateProperties ==
    ASSUME NEW found \in BOOLEAN, NEW raw \in Seq(StreamEvents),
           NEW expected \in ExpectedStates, found <=> Len(raw) > 0
    PROVE  LET r == LoadState(found, raw, expected)
           IN  /\ r.err \in {"none", "streamNotFound", "streamExists"}
               /\ r.payloads \in Seq(Payloads)
               /\ r.version \in Int
               /\ r.err = "none" => /\ Len(r.payloads) = Len(raw)
                                    /\ r.version = Len(raw) - 1
                                    /\ \A i \in 1..Len(raw) :
                                          r.payloads[i] = raw[i].payload
BY LoadStateAnswers

LEMMA LoadAggregateProperties ==
    ASSUME NEW found \in BOOLEAN, NEW raw \in Seq(StreamEvents), found <=> Len(raw) > 0
    PROVE  LET a == LoadAggregate(found, raw)
           IN  /\ a \in Aggregates
               /\ a.changes = <<>>
               /\ Len(a.state) = Len(raw)
               /\ a.originalVersion = Len(raw) - 1
               /\ \A i \in 1..Len(raw) : a.state[i] = raw[i].payload
<1> DEFINE r == LoadState(found, raw, "IsAny")
<1>1. /\ r.err = "none"
      /\ r.payloads \in Seq(Payloads) /\ r.version = Len(raw) - 1
      /\ Len(r.payloads) = Len(raw)
      /\ \A i \in 1..Len(raw) : r.payloads[i] = raw[i].payload
  <2>1. r.err = "none"
    BY DEF LoadState
  <2>2. QED BY <2>1, LoadStateProperties DEF ExpectedStates
<1> HIDE DEF r
<1>2. CASE r.payloads = <<>>
  BY <1>1, <1>2 DEF LoadAggregate, NewAggregate, Aggregates, r
<1>3. CASE r.payloads # <<>>
  <2>1. LoadAggregate(found, raw) =
          [state |-> r.payloads, changes |-> <<>>, originalVersion |-> r.version]
    BY <1>1, <1>3 DEF LoadAggregate, LoadEvents, NewAggregate, r
  <2>2. QED BY <1>1, <2>1 DEF Aggregates
<1>4. QED BY <1>2, <1>3

-----------------------------------------------------------------------------
\* Streams are only ever extended.
Grows ==
    \A s \in Streams :
        /\ Len(streams'[s]) >= Len(streams[s])
        /\ \A i \in 1..Len(streams[s]) : streams'[s][i] = streams[s][i]

LEMMA AppendGrows ==
    ASSUME StoreTypeOK, NEW s \in Streams, NEW v, NEW new \in Seq(Payloads),
           AppendEvents(s, v, new)
    PROVE  /\ StoreTypeOK' /\ Grows
           /\ Len(streams'[s]) = Len(streams[s]) + Len(new)
           /\ \A i \in 1..Len(new) : streams'[s][Len(streams[s]) + i].payload = new[i]
<1>1. PICK old \in Seq(StreamEvents) : old = streams[s]
  BY DEF StoreTypeOK
<1>2. PICK tail \in Seq(StreamEvents) :
          /\ tail = Stamped(s, new) /\ Len(tail) = Len(new)
          /\ \A i \in 1..Len(new) : tail[i].payload = new[i]
  <2>1. /\ Stamped(s, new) \in Seq(StreamEvents) /\ Len(Stamped(s, new)) = Len(new)
        /\ \A i \in 1..Len(new) : Stamped(s, new)[i].payload = new[i]
    BY <1>1 DEF Stamped, StreamEvents, StoreTypeOK
  <2>2. QED BY <2>1, Zenon
<1>3. PICK joined : joined = old \o tail
  OBVIOUS
<1>4. /\ joined \in Seq(StreamEvents)
      /\ Len(joined) = Len(old) + Len(tail)
      /\ \A i \in 1..Len(old) : joined[i] = old[i]
      /\ \A i \in 1..Len(tail) : joined[Len(old) + i] = tail[i]
  BY ONLY old \in Seq(StreamEvents), tail \in Seq(StreamEvents), <1>3, Concatenation
<1>5. streams' = [streams EXCEPT ![s] = joined]
  BY <1>1, <1>2, <1>3 DEF AppendEvents, StoreTypeOK
<1>6. streams'[s] = joined /\ \A t \in Streams \ {s} : streams'[t] = streams[t]
  BY <1>5 DEF StoreTypeOK
<1>7. StoreTypeOK'
  <2>1. streams' \in [Streams -> Seq(StreamEvents)]
    BY <1>4, <1>5 DEF StoreTypeOK
  <2>2. globalPosition' \in Nat
    BY DEF StoreTypeOK, AppendEvents
  <2>3. QED BY <2>1, <2>2 DEF StoreTypeOK
<1>8. Grows
  <2>1. ASSUME NEW t \in Streams
        PROVE  /\ Len(streams'[t]) >= Len(streams[t])
               /\ \A i \in 1..Len(streams[t]) : streams'[t][i] = streams[t][i]
    <3>1. CASE t = s
      <4>1. Len(streams[s]) \in Nat /\ Len(tail) \in Nat
        BY <1>1, <1>2
      <4>2. QED BY <1>1, <1>4, <1>6, <3>1, <4>1
    <3>2. CASE t # s
      <4>1. streams'[t] = streams[t] /\ Len(streams[t]) \in Nat
        BY <1>6, <3>2 DEF StoreTypeOK
      <4>2. QED BY <4>1
    <3>3. QED BY <3>1, <3>2
  <2>2. QED BY <2>1 DEF Grows
<1>9. QED BY <1>1, <1>2, <1>4, <1>6, <1>7, <1>8

LEMMA HoldsForever ==
    ASSUME StoreTypeOK, Grows, StoreTypeOK', NEW s \in Streams, NEW n \in Nat,
           NEW p \in Seq(Payloads), Holds(s, n, p)
    PROVE  Holds(s, n, p)'
<1>1. Len(streams[s]) \in Nat /\ Len(streams'[s]) \in Nat /\ Len(p) \in Nat
  BY DEF StoreTypeOK
<1>2. n + Len(p) <= Len(streams'[s])
  BY <1>1 DEF Holds, Grows
<1>3. ASSUME NEW i \in 1..Len(p) PROVE streams'[s][n + i].payload = p[i]
  <2>1. n + i \in 1..Len(streams[s])
    BY <1>1 DEF Holds
  <2>2. QED BY <2>1 DEF Holds, Grows
<1>4. QED BY <1>2, <1>3 DEF Holds

LEMMA UnchangedGrows == ASSUME StoreTypeOK, UNCHANGED storeVars PROVE StoreTypeOK' /\ Grows
BY DEF StoreTypeOK, Grows, storeVars

-----------------------------------------------------------------------------
LEMMA AppendResultType ==
    ASSUME StoreTypeOK, NEW s \in Streams, NEW new \in Seq(Payloads)
    PROVE  AppendResult(s, new) \in [version : Int, global : Nat]
<1> DEFINE events == streams[s] \o Stamped(s, new)
<1>1. events \in Seq(StreamEvents)
  <2>1. streams[s] \in Seq(StreamEvents)
    BY DEF StoreTypeOK
  <2>2. Stamped(s, new) \in Seq(StreamEvents)
    BY <2>1 DEF Stamped, StreamEvents, StoreTypeOK
  <2>3. QED BY <2>1, <2>2
<1> HIDE DEF events
<1>2. events # <<>> => events[Len(events)].global \in Nat
  <2>1. SUFFICES ASSUME events # <<>> PROVE events[Len(events)].global \in Nat
    OBVIOUS
  <2>2. events[Len(events)] \in StreamEvents
    BY <1>1, <2>1
  <2>3. QED BY <2>2 DEF StreamEvents
<1>3. Len(events) \in Nat
  BY <1>1
<1>4. QED BY <1>2, <1>3 DEF AppendResult, events

LEMMA CallFacts ==
    ASSUME TypeOK, NEW c \in AllCallers, pc[c] # "idle"
    PROVE  /\ cmd[c] \in DOMAIN Handlers
           /\ CallStream(c) \in Streams
           /\ ExpectedOf(cmd[c]) \in ExpectedStates
           /\ streams[CallStream(c)] \in Seq(StreamEvents)
           /\ Len(streams[CallStream(c)]) \in Nat
           /\ StreamFound(CallStream(c)) \in BOOLEAN
           /\ StreamFound(CallStream(c)) <=> Len(streams[CallStream(c)]) > 0
BY HandlersAssumption
   DEF TypeOK, CallsTypeOK, StoreTypeOK, CallStream, StreamOf, ExpectedOf, StreamFound

\* What a step of caller c leaves alone of the other calls.
OthersWait(c) ==
    \A d \in AllCallers \ {c} :
        /\ pc'[d] = pc[d] /\ cmd'[d] = cmd[d] /\ result'[d] = result[d]
        /\ since'[d] = since[d]

LEMMA BeginTypes ==
    ASSUME TypeOK, NEW c \in AllCallers, NEW k \in Commands, BeginCall(c, k)
    PROVE  /\ CallsTypeOK'
           /\ cmd'[c] = k
           /\ k \in DOMAIN Handlers => pc'[c] = "load" /\ result'[c].outcome = "pending"
           /\ k \notin DOMAIN Handlers =>
                pc'[c] = "idle" /\ result'[c].outcome = "handlerNotFound"
           /\ \A d \in AllCallers \ {c} :
                pc'[d] = pc[d] /\ cmd'[d] = cmd[d] /\ result'[d] = result[d]
BY CallBegins DEF TypeOK

LEMMA ProceedTypes ==
    ASSUME TypeOK, NEW c \in AllCallers, NEW step \in {"decide", "append"},
           pc[c] # "idle", Proceed(c, step)
    PROVE  /\ CallsTypeOK'
           /\ pc'[c] = step /\ UNCHANGED <<cmd, result>>
           /\ \A d \in AllCallers \ {c} : pc'[d] = pc[d]
BY CallProceeds DEF TypeOK

LEMMA ReturnTypes ==
    ASSUME TypeOK, NEW c \in AllCallers, NEW r \in Results, Return(c, r)
    PROVE  /\ CallsTypeOK'
           /\ pc'[c] = "idle" /\ result'[c] = r /\ UNCHANGED cmd
           /\ \A d \in AllCallers \ {c} : pc'[d] = pc[d] /\ result'[d] = result[d]
BY CallReturns DEF TypeOK

LEMMA LoadedProperties ==
    ASSUME NEW a \in Aggregates, Len(a.changes) <= Len(a.state)
    PROVE  /\ Loaded(a) \in Seq(Payloads)
           /\ Len(Loaded(a)) = Len(a.state) - Len(a.changes)
           /\ \A i \in 1..Len(Loaded(a)) : Loaded(a)[i] = a.state[i]
<1>1. a.state \in Seq(Payloads) /\ Len(a.state) \in Nat /\ Len(a.changes) \in Nat
  BY DEF Aggregates
<1>2. Len(a.state) - Len(a.changes) \in 0..Len(a.state)
  <2>1. \A x, y \in Nat : y <= x => x - y \in 0..x
    OBVIOUS
  <2>2. QED BY <1>1, <2>1
<1> DEFINE n == Len(a.state) - Len(a.changes)
<1> HIDE DEF n
<1>3. QED BY <1>1, <1>2, PrefixProperties DEF Loaded, n

LEMMA ApplyAllProperties ==
    ASSUME NEW a \in Aggregates, a.changes = <<>>, NEW new \in Seq(Payloads)
    PROVE  LET b == ApplyAll(a, new)
           IN  /\ b \in Aggregates
               /\ b.changes = new
               /\ b.originalVersion = a.originalVersion
               /\ Len(b.changes) <= Len(b.state)
               /\ Loaded(b) = a.state
<1> DEFINE b == ApplyAll(a, new)
<1>1. a.state \in Seq(Payloads) /\ a.originalVersion \in Int /\ Len(a.state) \in Nat
  BY DEF Aggregates
<1>2. a = [state |-> a.state, changes |-> <<>>, originalVersion |-> a.originalVersion]
  BY DEF Aggregates
<1>3. /\ <<>> \o new = new
      /\ a.state \o new \in Seq(Payloads)
      /\ Len(a.state \o new) = Len(a.state) + Len(new) /\ Len(new) \in Nat
      /\ \A i \in 1..Len(a.state) : (a.state \o new)[i] = a.state[i]
  BY <1>1
<1>4. b = [state |-> a.state \o new, changes |-> new, originalVersion |-> a.originalVersion]
  <2>1. b = [a EXCEPT !.changes = a.changes \o new, !.state = a.state \o new]
    BY <1>2 DEF ApplyAll
  <2>2. b = [a EXCEPT !.changes = new, !.state = a.state \o new]
    BY <1>3, <2>1
  <2>3. QED BY <1>2, <2>2
<1>5. b \in Aggregates
  BY <1>1, <1>3, <1>4 DEF Aggregates
<1>6. Loaded(b) = a.state
  <2>1. Loaded(b) = SubSeq(a.state \o new, 1, Len(a.state))
    BY <1>1, <1>3, <1>4 DEF Loaded
  <2>2. QED BY <1>1, <1>3, <2>1
<1>7. QED BY <1>1, <1>3, <1>4, <1>5, <1>6

\* A step of one caller preserves what the others know: streams only grow.
LEMMA OthersKnow ==
    ASSUME IInv, TypeOK', Grows, NEW c \in AllCallers, OthersWait(c),
           \A d \in Callers \ {c} : seen'[d] = seen[d] /\ version'[d] = version[d],
           \A d \in AggCallers \ {c} : agg'[d] = agg[d]
    PROVE  /\ \A d \in AllCallers \ {c} : Waits(d)' /\ NotSpurious(d)'
           /\ \A d \in Callers \ {c} : ServiceKnows(d)'
           /\ \A d \in AggCallers \ {c} : AggregateKnows(d)'
<1>0. StoreTypeOK /\ StoreTypeOK' /\ TypeOK
  BY DEF IInv, TypeOK
<1>1. ASSUME NEW d \in AllCallers \ {c} PROVE Waits(d)' /\ NotSpurious(d)'
  <2>1. /\ pc'[d] = pc[d] /\ cmd'[d] = cmd[d] /\ result'[d] = result[d]
        /\ since'[d] = since[d] /\ since[d] \in Nat
    BY DEF OthersWait, IInv, TypeOK
  <2>2. ASSUME cmd[d] \in DOMAIN Handlers
        PROVE  /\ Len(streams'[CallStream(d)]) >= Len(streams[CallStream(d)])
               /\ Len(streams[CallStream(d)]) \in Nat /\ Len(streams'[CallStream(d)]) \in Nat
    BY <1>0, <2>2, HandlersAssumption DEF Grows, StoreTypeOK, CallStream, StreamOf
  <2>3. Waits(d) /\ NotSpurious(d)
    BY DEF IInv
  <2>4. pc[d] # "idle" => cmd[d] \in DOMAIN Handlers
    BY <1>0, CallFacts
  <2>5. CallStream(d)' = CallStream(d)
    BY <2>1 DEF CallStream
  <2>6. QED BY <2>1, <2>2, <2>3, <2>4, <2>5 DEF Waits, NotSpurious
<1>2. ASSUME NEW s \in Streams, NEW p \in Seq(Payloads), NEW v, NEW from, Knows(s, p, v, from)
      PROVE  Knows(s, p, v, from)'
  BY <1>0, <1>2, HoldsForever DEF Knows
<1>3. ASSUME NEW d \in Callers \ {c} PROVE ServiceKnows(d)'
  <2>1. d \in AllCallers \ {c}
    BY DEF AllCallers
  <2>2. /\ pc'[d] = pc[d] /\ CallStream(d)' = CallStream(d) /\ since'[d] = since[d]
        /\ seen'[d] = seen[d] /\ version'[d] = version[d] /\ seen[d] \in Seq(Payloads)
    BY <1>0, <2>1 DEF OthersWait, CallStream, TypeOK, ServiceTypeOK
  <2>3. SUFFICES ASSUME pc[d] \in {"decide", "append"}
                 PROVE  Knows(CallStream(d), seen[d], version[d], since[d])'
    BY <2>2 DEF ServiceKnows
  <2>4. CallStream(d) \in Streams
    BY <1>0, <2>1, <2>3, CallFacts
  <2>5. Knows(CallStream(d), seen[d], version[d], since[d])
    BY <2>3 DEF IInv, ServiceKnows
  <2>6. QED BY <1>2, <2>2, <2>4, <2>5 DEF Knows, Holds
<1>4. ASSUME NEW d \in AggCallers \ {c} PROVE AggregateKnows(d)'
  <2>1. d \in AllCallers \ {c}
    BY DEF AllCallers
  <2>2. /\ pc'[d] = pc[d] /\ CallStream(d)' = CallStream(d) /\ since'[d] = since[d]
        /\ agg'[d] = agg[d] /\ agg[d] \in Aggregates
    BY <1>0, <2>1 DEF OthersWait, CallStream, TypeOK, AggregateTypeOK
  <2>3. AggregateKnows(d)
    BY DEF IInv
  <2>4. CASE pc[d] = "decide"
    <3>1. CallStream(d) \in Streams /\ agg[d].state \in Seq(Payloads)
      BY <1>0, <2>1, <2>2, <2>4, CallFacts DEF Aggregates
    <3>2. Knows(CallStream(d), agg[d].state, agg[d].originalVersion, since[d])
      BY <2>3, <2>4 DEF AggregateKnows
    <3>3. Knows(CallStream(d), agg[d].state, agg[d].originalVersion, since[d])'
      BY <1>2, <2>2, <3>1, <3>2 DEF Knows, Holds
    <3>4. QED BY <2>2, <2>3, <2>4, <3>3 DEF AggregateKnows
  <2>5. CASE pc[d] = "append"
    <3>1. CallStream(d) \in Streams /\ Loaded(agg[d]) \in Seq(Payloads)
      BY <1>0, <2>1, <2>2, <2>3, <2>5, CallFacts, LoadedProperties DEF AggregateKnows
    <3>2. Knows(CallStream(d), Loaded(agg[d]), agg[d].originalVersion, since[d])
      BY <2>3, <2>5 DEF AggregateKnows
    <3>3. Knows(CallStream(d), Loaded(agg[d]), agg[d].originalVersion, since[d])'
      BY <1>2, <2>2, <3>1, <3>2 DEF Knows, Holds
    <3>4. QED BY <2>2, <2>3, <2>5, <3>3 DEF AggregateKnows
  <2>6. QED BY <2>2, <2>4, <2>5 DEF AggregateKnows
<1>5. QED BY <1>1, <1>3, <1>4

LEMMA DecisionsStay ==
    ASSUME IInv, TypeOK', Grows, UNCHANGED decisions
    PROVE  NoLostUpdate'
<1>1. SUFFICES ASSUME NEW d \in decisions
               PROVE  /\ d.at = Len(d.seen)
                      /\ Holds(d.stream, 0, d.seen)' /\ Holds(d.stream, d.at, d.new)'
  BY DEF NoLostUpdate, Holds
<1>2. /\ d.stream \in Streams /\ d.seen \in Seq(Payloads) /\ d.new \in Seq(Payloads)
      /\ d.at \in Nat /\ StoreTypeOK /\ StoreTypeOK'
  BY DEF IInv, TypeOK, Decisions
<1>3. QED BY <1>2, HoldsForever DEF IInv, NoLostUpdate

\* The accepted append of a call that knew a prefix of its stream: the version
\* check has just established that the prefix was all of it.
LEMMA AppendLosesNothing ==
    ASSUME IInv, TypeOK', NEW c \in AllCallers, NEW s \in Streams, CallStream(c) = s,
           NEW base \in Seq(Payloads), NEW new \in Seq(Payloads), NEW v, NEW from,
           Knows(s, base, v, from), AppendEvents(s, v, new), Decided(c, base, new)
    PROVE  NoLostUpdate'
<1>1. Len(streams[s]) \in Nat /\ StoreTypeOK /\ StoreTypeOK' /\ Len(base) \in Nat
  BY DEF IInv, TypeOK, StoreTypeOK
<1>2. Len(base) = Len(streams[s])
  BY <1>1 DEF AppendEvents, VersionMatches, CurrentVersion, Knows, VersionAny
<1>3. /\ Grows /\ Len(streams'[s]) = Len(streams[s]) + Len(new)
      /\ \A i \in 1..Len(new) : streams'[s][Len(streams[s]) + i].payload = new[i]
  BY <1>1, AppendGrows
<1>4. Holds(s, 0, base)'
  <2>1. Holds(s, 0, base)
    BY DEF Knows
  <2>2. QED BY <1>1, <1>3, <2>1, HoldsForever
<1>5. Holds(s, Len(base), new)'
  <2>1. Len(base) + Len(new) <= Len(streams'[s])
    BY <1>1, <1>2, <1>3
  <2>2. \A i \in 1..Len(new) : streams'[s][Len(base) + i].payload = new[i]
    BY <1>2, <1>3
  <2>3. QED BY <2>1, <2>2 DEF Holds
<1>6. SUFFICES ASSUME NEW d \in decisions'
               PROVE  /\ d.at = Len(d.seen)
                      /\ Holds(d.stream, 0, d.seen)' /\ Holds(d.stream, d.at, d.new)'
  BY DEF NoLostUpdate, Holds
<1>7. CASE d \in decisions
  <2>1. /\ d.stream \in Streams /\ d.seen \in Seq(Payloads) /\ d.new \in Seq(Payloads)
        /\ d.at \in Nat
    BY <1>7 DEF IInv, TypeOK, Decisions
  <2>2. QED BY <1>1, <1>3, <1>7, <2>1, HoldsForever DEF IInv, NoLostUpdate
<1>8. CASE d \notin decisions
  <2>1. d.stream = s /\ d.seen = base /\ d.new = new /\ d.at = Len(base)
    BY <1>2, <1>8 DEF Decided
  <2>2. QED BY <1>4, <1>5, <2>1 DEF Holds
<1>9. QED BY <1>7, <1>8

\* It is enough to look at the call that takes the step.
LEMMA StepKeeps ==
    ASSUME IInv, TypeOK', Grows, NEW c \in AllCallers, OthersWait(c), NoLostUpdate',
           \A d \in Callers \ {c} : seen'[d] = seen[d] /\ version'[d] = version[d],
           \A d \in AggCallers \ {c} : agg'[d] = agg[d],
           Waits(c)', NotSpurious(c)',
           c \in Callers => ServiceKnows(c)',
           c \in AggCallers => AggregateKnows(c)'
    PROVE  IInv'
BY OthersKnow DEF IInv

-----------------------------------------------------------------------------
LEMMA CalledTypes ==
    ASSUME TypeOK, NEW c \in AllCallers, NEW k \in Commands, BeginCall(c, k), Called(c, k)
    PROVE  /\ CallsTypeOK' /\ StoreTypeOK' /\ Grows /\ OthersWait(c)
           /\ since' \in [AllCallers -> Nat] /\ decisions' = decisions
           /\ Waits(c)' /\ NotSpurious(c)'
           /\ pc'[c] \notin {"decide", "append"}
<1>1. StoreTypeOK /\ since \in [AllCallers -> Nat]
  BY DEF TypeOK
<1>2. StoreTypeOK' /\ Grows
  BY <1>1, UnchangedGrows DEF Called
<1>3. /\ CallsTypeOK' /\ cmd'[c] = k
      /\ k \in DOMAIN Handlers => pc'[c] = "load" /\ result'[c].outcome = "pending"
      /\ k \notin DOMAIN Handlers =>
           pc'[c] = "idle" /\ result'[c].outcome = "handlerNotFound"
      /\ \A d \in AllCallers \ {c} :
           pc'[d] = pc[d] /\ cmd'[d] = cmd[d] /\ result'[d] = result[d]
  BY BeginTypes
<1>4. CASE k \in DOMAIN Handlers
  <2>1. StreamOf(k) \in Streams /\ Len(streams[StreamOf(k)]) \in Nat
    BY <1>1, <1>4, HandlersAssumption DEF StreamOf, StoreTypeOK
  <2>2. since' = [since EXCEPT ![c] = Len(streams[StreamOf(k)])] /\ streams' = streams
        /\ decisions' = decisions
    BY <1>4 DEF Called, storeVars
  <2>3. CallStream(c)' = StreamOf(k)
    BY <1>3 DEF CallStream, StreamOf
  <2>4. Waits(c)' /\ NotSpurious(c)'
    BY <1>1, <1>3, <1>4, <2>1, <2>2, <2>3 DEF Waits, NotSpurious
  <2>5. QED BY <1>1, <1>2, <1>3, <1>4, <2>1, <2>2, <2>4 DEF OthersWait
<1>5. CASE k \notin DOMAIN Handlers
  <2>1. since' = since /\ decisions' = decisions
    BY <1>5 DEF Called
  <2>2. QED BY <1>1, <1>2, <1>3, <1>5, <2>1 DEF OthersWait, Waits, NotSpurious
<1>6. QED BY <1>4, <1>5

LEMMA ServiceCallPreserves ==
    ASSUME IInv, NEW c \in Callers, ServiceCall(c) PROVE IInv'
<1>1. PICK k \in Commands : Handle(c, k) /\ Called(c, k) /\ UNCHANGED agg
  BY DEF ServiceCall
<1>2. c \in AllCallers /\ c \notin AggCallers /\ TypeOK
  BY CallersAssumption DEF AllCallers, IInv
<1>3. BeginCall(c, k) /\ UNCHANGED <<seen, version, fresh, agg>>
  BY <1>1 DEF Handle, serviceVars
<1>4. /\ CallsTypeOK' /\ StoreTypeOK' /\ Grows /\ OthersWait(c)
      /\ since' \in [AllCallers -> Nat] /\ decisions' = decisions
      /\ Waits(c)' /\ NotSpurious(c)' /\ pc'[c] \notin {"decide", "append"}
  BY <1>1, <1>2, <1>3, CalledTypes
<1>5. TypeOK'
  BY <1>2, <1>3, <1>4 DEF TypeOK, ServiceTypeOK, AggregateTypeOK
<1>6. NoLostUpdate'
  BY <1>4, <1>5, DecisionsStay
<1>7. ServiceKnows(c)'
  BY <1>4 DEF ServiceKnows
<1>8. QED BY <1>2, <1>3, <1>4, <1>5, <1>6, <1>7, StepKeeps

LEMMA AggregateCallPreserves ==
    ASSUME IInv, NEW c \in AggCallers, AggregateCall(c) PROVE IInv'
<1>1. PICK k \in Commands : AggHandle(c, k) /\ Called(c, k) /\ UNCHANGED serviceVars
  BY DEF AggregateCall
<1>2. c \in AllCallers /\ c \notin Callers /\ TypeOK
  BY CallersAssumption DEF AllCallers, IInv
<1>3. BeginCall(c, k) /\ UNCHANGED <<seen, version, fresh, agg>>
  BY <1>1 DEF AggHandle, serviceVars
<1>4. /\ CallsTypeOK' /\ StoreTypeOK' /\ Grows /\ OthersWait(c)
      /\ since' \in [AllCallers -> Nat] /\ decisions' = decisions
      /\ Waits(c)' /\ NotSpurious(c)' /\ pc'[c] \notin {"decide", "append"}
  BY <1>1, <1>2, <1>3, CalledTypes
<1>5. TypeOK'
  BY <1>2, <1>3, <1>4 DEF TypeOK, ServiceTypeOK, AggregateTypeOK
<1>6. NoLostUpdate'
  BY <1>4, <1>5, DecisionsStay
<1>7. AggregateKnows(c)'
  BY <1>4 DEF AggregateKnows
<1>8. QED BY <1>2, <1>3, <1>4, <1>5, <1>6, <1>7, StepKeeps

\* A step inside a call that does not touch the store.
LEMMA LocalKeeps ==
    ASSUME IInv, TypeOK', NEW c \in AllCallers, Local, UNCHANGED cmd, pc[c] # "idle",
           \A d \in AllCallers \ {c} : pc'[d] = pc[d] /\ result'[d] = result[d]
    PROVE  /\ Grows /\ OthersWait(c) /\ NoLostUpdate' /\ Waits(c)'
           /\ result'[c].outcome # "conflict" => NotSpurious(c)'
<1>1. Grows
  BY UnchangedGrows DEF IInv, TypeOK, Local
<1>2. NoLostUpdate'
  BY <1>1, DecisionsStay DEF Local
<1>3. Waits(c)'
  BY DEF IInv, Waits, Local, storeVars, CallStream
<1>4. QED BY <1>1, <1>2, <1>3 DEF OthersWait, Local, NotSpurious

-----------------------------------------------------------------------------
LEMMA ServiceLoadPreserves ==
    ASSUME IInv, NEW c \in Callers, ServiceLoad(c) PROVE IInv'
<1> DEFINE s == CallStream(c)
           r == LoadState(StreamFound(s), streams[s], ExpectedOf(cmd[c]))
<1>1. /\ c \in AllCallers /\ c \notin AggCallers /\ TypeOK
      /\ pc[c] = "load" /\ Local /\ UNCHANGED agg
  BY CallersAssumption DEF AllCallers, IInv, ServiceLoad, Load
<1>2. /\ streams[s] \in Seq(StreamEvents) /\ Len(streams[s]) \in Nat
      /\ StreamFound(s) \in BOOLEAN /\ (StreamFound(s) <=> Len(streams[s]) > 0)
      /\ ExpectedOf(cmd[c]) \in ExpectedStates
  BY <1>1, CallFacts
<1>3. /\ r.err \in {"none", "streamNotFound", "streamExists"}
      /\ r.payloads \in Seq(Payloads) /\ r.version \in Int
      /\ r.err = "none" =>
           /\ Len(r.payloads) = Len(streams[s]) /\ r.version = Len(streams[s]) - 1
           /\ \A i \in 1..Len(streams[s]) : r.payloads[i] = streams[s][i].payload
  BY <1>2, LoadStateProperties
<1>4. StoreTypeOK' /\ since' \in [AllCallers -> Nat] /\ decisions' \subseteq Decisions
  BY <1>1 DEF Local, storeVars, TypeOK, StoreTypeOK
<1>5. CASE r.err = "none"
  <2>1. /\ Proceed(c, "decide") /\ UNCHANGED fresh
        /\ seen' = [seen EXCEPT ![c] = r.payloads]
        /\ version' = [version EXCEPT ![c] = r.version]
    BY <1>5 DEF ServiceLoad, Load
  <2>2. /\ CallsTypeOK' /\ pc'[c] = "decide" /\ UNCHANGED <<cmd, result>>
        /\ \A d \in AllCallers \ {c} : pc'[d] = pc[d]
    BY <1>1, <2>1, ProceedTypes
  <2>3. TypeOK'
    BY <1>1, <1>3, <1>4, <2>1, <2>2 DEF TypeOK, ServiceTypeOK, AggregateTypeOK
  <2>4. Grows /\ OthersWait(c) /\ NoLostUpdate' /\ Waits(c)'
    BY <1>1, <2>2, <2>3, LocalKeeps
  <2>5. NotSpurious(c)'
    BY <1>1, <2>2 DEF IInv, NotSpurious, Local, storeVars, CallStream
  <2>6. seen'[c] = r.payloads /\ version'[c] = r.version
        /\ \A d \in Callers \ {c} : seen'[d] = seen[d] /\ version'[d] = version[d]
    BY <1>1, <2>1 DEF TypeOK, ServiceTypeOK
  <2>7. ServiceKnows(c)'
    <3>1. CallStream(c)' = s /\ since' = since /\ streams' = streams
      BY <1>1, <2>2 DEF CallStream, Local, storeVars
    <3>2. since[c] <= Len(streams[s]) /\ since[c] \in Nat
      BY <1>1 DEF IInv, Waits, TypeOK
    <3> HIDE DEF s, r
    <3>3. /\ 0 + Len(r.payloads) <= Len(streams[s])
          /\ \A i \in 1..Len(r.payloads) : streams[s][0 + i].payload = r.payloads[i]
          /\ r.version = Len(r.payloads) - 1
      BY <1>2, <1>3, <1>5
    <3>4. since[c] <= Len(r.payloads)
      BY <1>2, <1>3, <1>5, <3>2
    <3>5. QED BY ONLY <2>6, <3>1, <3>3, <3>4 DEF ServiceKnows, Knows, Holds
  <2>8. QED BY <1>1, <2>3, <2>4, <2>5, <2>6, <2>7, StepKeeps
<1>6. CASE r.err # "none"
  <2>1. Return(c, Failure(r.err)) /\ UNCHANGED <<seen, version, fresh>>
    BY <1>6 DEF ServiceLoad, Load, serviceVars
  <2>2. Failure(r.err) \in Results /\ Failure(r.err).outcome # "conflict"
    BY <1>3 DEF Failure, Results, Outcomes, VersionNoStream
  <2>3. /\ CallsTypeOK' /\ pc'[c] = "idle" /\ UNCHANGED cmd
        /\ result'[c].outcome # "conflict"
        /\ \A d \in AllCallers \ {c} : pc'[d] = pc[d] /\ result'[d] = result[d]
    BY <1>1, <2>1, <2>2, ReturnTypes
  <2>4. TypeOK'
    BY <1>1, <1>4, <2>1, <2>3 DEF TypeOK, ServiceTypeOK, AggregateTypeOK
  <2>5. Grows /\ OthersWait(c) /\ NoLostUpdate' /\ Waits(c)' /\ NotSpurious(c)'
    BY <1>1, <2>3, <2>4, LocalKeeps
  <2>6. ServiceKnows(c)'
    BY <2>3 DEF ServiceKnows
  <2>7. QED BY <1>1, <2>1, <2>4, <2>5, <2>6, StepKeeps
<1>7. QED BY <1>5, <1>6

LEMMA ServiceDecidePreserves ==
    ASSUME IInv, NEW c \in Callers, ServiceDecide(c) PROVE IInv'
<1> DEFINE decision == Act(cmd[c], seen[c])
<1>1. /\ c \in AllCallers /\ c \notin AggCallers /\ TypeOK
      /\ pc[c] = "decide" /\ Local /\ UNCHANGED agg
  BY CallersAssumption DEF AllCallers, IInv, ServiceDecide, Decide
<1>2. /\ seen \in [Callers -> Seq(Payloads)] /\ version \in [Callers -> Int]
      /\ fresh \in [Callers -> Batches \union {<<>>}]
  BY <1>1 DEF TypeOK, ServiceTypeOK
<1>3. StoreTypeOK' /\ since' \in [AllCallers -> Nat] /\ decisions' \subseteq Decisions
      /\ AggregateTypeOK'
  BY <1>1 DEF Local, storeVars, TypeOK, StoreTypeOK, AggregateTypeOK
<1>4. CASE \E r \in Results : r.outcome # "conflict" /\ Return(c, r) /\ Forget(c)
  <2>1. PICK r \in Results : r.outcome # "conflict" /\ Return(c, r) /\ Forget(c)
    BY <1>4
  <2>2. /\ CallsTypeOK' /\ pc'[c] = "idle" /\ UNCHANGED cmd
        /\ result'[c].outcome # "conflict"
        /\ \A d \in AllCallers \ {c} : pc'[d] = pc[d] /\ result'[d] = result[d]
    BY <1>1, <2>1, ReturnTypes
  <2>3. /\ ServiceTypeOK'
        /\ \A d \in Callers \ {c} : seen'[d] = seen[d] /\ version'[d] = version[d]
    BY <1>2, <2>1 DEF Forget, ServiceTypeOK, VersionNoStream
  <2>4. TypeOK'
    BY <1>3, <2>2, <2>3 DEF TypeOK
  <2>5. Grows /\ OthersWait(c) /\ NoLostUpdate' /\ Waits(c)' /\ NotSpurious(c)'
    BY <1>1, <2>2, <2>4, LocalKeeps
  <2>6. ServiceKnows(c)'
    BY <2>2 DEF ServiceKnows
  <2>7. QED BY <1>1, <2>3, <2>4, <2>5, <2>6, StepKeeps
<1>5. CASE \E new \in Batches : /\ fresh' = [fresh EXCEPT ![c] = new]
                                /\ Proceed(c, "append") /\ UNCHANGED <<seen, version>>
  <2>1. PICK new \in Batches : /\ fresh' = [fresh EXCEPT ![c] = new]
                               /\ Proceed(c, "append") /\ UNCHANGED <<seen, version>>
    BY <1>5
  <2>2. /\ CallsTypeOK' /\ pc'[c] = "append" /\ UNCHANGED <<cmd, result>>
        /\ \A d \in AllCallers \ {c} : pc'[d] = pc[d]
    BY <1>1, <2>1, ProceedTypes
  <2>3. TypeOK'
    BY <1>2, <1>3, <2>1, <2>2 DEF TypeOK, ServiceTypeOK
  <2>4. Grows /\ OthersWait(c) /\ NoLostUpdate' /\ Waits(c)'
    BY <1>1, <2>2, <2>3, LocalKeeps
  <2>5. NotSpurious(c)' /\ ServiceKnows(c)'
    BY <1>1, <2>1, <2>2
       DEF IInv, NotSpurious, ServiceKnows, Knows, Holds, Local, storeVars, CallStream
  <2>6. QED BY <1>1, <2>1, <2>3, <2>4, <2>5, StepKeeps
<1>6. QED
  <2>1. Failure("rejected") \in Results /\ Failure("rejected").outcome # "conflict"
        /\ NoOp(seen[c], version[c]) \in Results
        /\ NoOp(seen[c], version[c]).outcome # "conflict"
    BY <1>2 DEF Failure, NoOp, Results, Outcomes, VersionNoStream
  <2>2. CASE Return(c, Failure("rejected")) /\ Forget(c)
    BY <1>4, <2>1, <2>2
  <2>3. CASE Return(c, NoOp(seen[c], version[c])) /\ Forget(c)
    BY <1>4, <2>1, <2>3
  <2>4. QED BY <1>5, <2>2, <2>3 DEF ServiceDecide, Decide

\* A step that appends what the call c decided: the other calls keep what they
\* know, and c forgets its own.
LEMMA ServiceAppendPreserves ==
    ASSUME IInv, NEW c \in Callers, ServiceAppend(c) PROVE IInv'
<1>1. /\ c \in AllCallers /\ c \notin AggCallers /\ TypeOK /\ StoreTypeOK
      /\ pc[c] = "append" /\ UNCHANGED agg
  BY CallersAssumption DEF AllCallers, IInv, ServiceAppend, Appended, TypeOK
<1>2. PICK s \in Streams : s = CallStream(c)
  BY <1>1, CallFacts
<1>3. /\ seen[c] \in Seq(Payloads) /\ fresh[c] \in Seq(Payloads) /\ version[c] \in Int
      /\ Knows(s, seen[c], version[c], since[c])
  <2>1. seen[c] \in Seq(Payloads) /\ version[c] \in Int
    BY <1>1 DEF TypeOK, ServiceTypeOK
  <2>2. fresh[c] \in Seq(Payloads)
    <3>1. fresh[c] \in Batches \union {<<>>}
      BY <1>1 DEF TypeOK, ServiceTypeOK
    <3>2. CASE fresh[c] \in Batches
      BY <3>2, BatchesAssumption
    <3>3. CASE fresh[c] = <<>>
      BY <3>3
    <3>4. QED BY <3>1, <3>2, <3>3
  <2>3. Knows(s, seen[c], version[c], since[c])
    BY <1>1, <1>2 DEF IInv, ServiceKnows
  <2>4. QED BY <2>1, <2>2, <2>3
<1>4. PICK r \in Results : /\ r.outcome \in {"ok", "typeUnknown"}
                           /\ Return(c, r) /\ Forget(c)
  <2>1. seen[c] \o fresh[c] \in Seq(Payloads)
    BY <1>3
  <2>2. AppendResult(s, fresh[c]) \in [version : Int, global : Nat]
    BY <1>1, <1>3, AppendResultType
  <2>3. PICK r : r = AppendedResult(seen[c] \o fresh[c], fresh[c], AppendResult(s, fresh[c]),
                                    Registered)
    OBVIOUS
  <2>4. r \in Results /\ r.outcome \in {"ok", "typeUnknown"}
    <3>1. PICK o : o \in Outcomes
      BY DEF Outcomes
    <3>2. PICK all : all = seen[c] \o fresh[c]
      OBVIOUS
    <3>3. all \in Seq(Payloads)
      BY <2>1, <3>2
    <3>4. PICK answer \in [version : Int, global : Nat] : answer = AppendResult(s, fresh[c])
      BY <2>2
    <3>5. AppendedResult(all, fresh[c], answer, Registered) \in Results
          /\ AppendedResult(all, fresh[c], answer, Registered).outcome \in {"ok", "typeUnknown"}
      BY <1>3, <3>1, <3>3, ResultsTyped
    <3>6. QED BY <2>3, <3>2, <3>4, <3>5
  <2>5. Return(c, r) /\ Forget(c)
    BY <1>2, <2>3 DEF ServiceAppend, Appended
  <2>6. QED BY <2>4, <2>5
<1>5. /\ CallsTypeOK' /\ pc'[c] = "idle" /\ result'[c] = r /\ UNCHANGED cmd
      /\ \A d \in AllCallers \ {c} : pc'[d] = pc[d] /\ result'[d] = result[d]
  BY <1>1, <1>4, ReturnTypes
<1>6. /\ AppendEvents(s, version[c], fresh[c]) /\ Decided(c, seen[c], fresh[c])
  BY <1>2 DEF ServiceAppend
<1>7. StoreTypeOK' /\ Grows
  BY <1>1, <1>3, <1>6, AppendGrows
<1>8. /\ ServiceTypeOK'
      /\ \A d \in Callers \ {c} : seen'[d] = seen[d] /\ version'[d] = version[d]
  BY <1>1, <1>4 DEF Forget, ServiceTypeOK, VersionNoStream, TypeOK
<1>9. TypeOK'
  <2>1. cmd[c] \in Commands /\ Len(streams[s]) \in Nat
    BY <1>1, <1>2, CallFacts, HandlersAssumption
  <2>2. decisions' \subseteq Decisions /\ since' = since
    BY <1>1, <1>2, <1>3, <1>6, <2>1 DEF Decided, Decisions, TypeOK
  <2>3. QED BY <1>1, <1>5, <1>7, <1>8, <2>2 DEF TypeOK, AggregateTypeOK
<1>10. NoLostUpdate'
  BY <1>1, <1>2, <1>3, <1>6, <1>9, AppendLosesNothing
<1>11. OthersWait(c) /\ Waits(c)' /\ NotSpurious(c)' /\ ServiceKnows(c)'
  BY <1>4, <1>5, <1>6 DEF OthersWait, Waits, NotSpurious, ServiceKnows, Decided
<1>12. QED BY <1>1, <1>7, <1>8, <1>9, <1>10, <1>11, StepKeeps

\* A conflict is the store's evidence that the stream has grown.
LEMMA ConflictIsReal ==
    ASSUME IInv, NEW c \in AllCallers, NEW s \in Streams, s = CallStream(c),
           pc[c] # "idle", NEW p \in Seq(Payloads), NEW v,
           Knows(s, p, v, since[c]), AppendConflict(s, v)
    PROVE  Len(streams[s]) > since[c]
<1>1. Len(streams[s]) \in Nat /\ Len(p) \in Nat /\ since[c] \in Nat
  BY CallFacts DEF IInv, TypeOK
<1>2. QED BY <1>1 DEF AppendConflict, VersionMatches, CurrentVersion, Knows, Holds

LEMMA ServiceConflictPreserves ==
    ASSUME IInv, NEW c \in Callers, ServiceConflict(c) PROVE IInv'
<1>1. /\ c \in AllCallers /\ c \notin AggCallers /\ TypeOK /\ StoreTypeOK
      /\ pc[c] = "append" /\ UNCHANGED <<agg, since, decisions, streams, globalPosition>>
      /\ Return(c, Failure("conflict")) /\ Forget(c)
  BY CallersAssumption
     DEF AllCallers, IInv, ServiceConflict, Conflict, TypeOK, AppendConflict, storeVars
<1>2. PICK s \in Streams : s = CallStream(c)
  BY <1>1, CallFacts
<1>3. Len(streams[s]) > since[c]
  <2>1. /\ seen[c] \in Seq(Payloads)
        /\ Knows(s, seen[c], version[c], since[c])
        /\ AppendConflict(s, version[c])
    BY <1>1, <1>2 DEF TypeOK, ServiceTypeOK, IInv, ServiceKnows, ServiceConflict
  <2>2. QED BY <1>1, <1>2, <2>1, ConflictIsReal
<1>4. Failure("conflict") \in Results /\ Failure("conflict").outcome = "conflict"
  BY DEF Failure, Results, Outcomes, VersionNoStream
<1>5. /\ CallsTypeOK' /\ pc'[c] = "idle" /\ UNCHANGED cmd
      /\ \A d \in AllCallers \ {c} : pc'[d] = pc[d] /\ result'[d] = result[d]
  BY <1>1, <1>4, ReturnTypes
<1>6. /\ ServiceTypeOK' /\ StoreTypeOK' /\ Grows
      /\ \A d \in Callers \ {c} : seen'[d] = seen[d] /\ version'[d] = version[d]
  BY <1>1, UnchangedGrows
     DEF Forget, ServiceTypeOK, VersionNoStream, TypeOK, storeVars
<1>7. TypeOK'
  BY <1>1, <1>5, <1>6 DEF TypeOK, AggregateTypeOK
<1>8. NoLostUpdate'
  BY <1>1, <1>6, <1>7, DecisionsStay
<1>9. NotSpurious(c)'
  <2>1. cmd[c] \in DOMAIN Handlers
    BY <1>1, CallFacts
  <2>2. QED BY <1>1, <1>2, <1>3, <1>5, <2>1 DEF NotSpurious, CallStream
<1>10. OthersWait(c) /\ Waits(c)' /\ ServiceKnows(c)'
  BY <1>1, <1>5 DEF OthersWait, Waits, ServiceKnows
<1>11. QED BY <1>1, <1>6, <1>7, <1>8, <1>9, <1>10, StepKeeps

-----------------------------------------------------------------------------
LEMMA AggregateFacts ==
    ASSUME IInv, NEW c \in AggCallers
    PROVE  /\ c \in AllCallers /\ c \notin Callers /\ TypeOK /\ StoreTypeOK
           /\ agg \in [AggCallers -> Aggregates] /\ AggregateKnows(c)
BY CallersAssumption DEF IInv, AllCallers, TypeOK, AggregateTypeOK

LEMMA AggregateLoadPreserves ==
    ASSUME IInv, NEW c \in AggCallers, AggregateLoad(c) PROVE IInv'
<1> DEFINE a == LoadAggregate(StreamFound(CallStream(c)), streams[CallStream(c)])
<1>1. /\ c \in AllCallers /\ c \notin Callers /\ TypeOK /\ StoreTypeOK
      /\ agg \in [AggCallers -> Aggregates]
      /\ pc[c] = "load" /\ Local /\ UNCHANGED <<seen, version, fresh>>
      /\ Proceed(c, "decide") /\ agg' = [agg EXCEPT ![c] = a]
  BY AggregateFacts DEF AggregateLoad, AggLoad, serviceVars
<1>2. PICK s \in Streams : s = CallStream(c)
  BY <1>1, CallFacts
<1>3. /\ a \in Aggregates /\ a.changes = <<>> /\ Len(a.state) = Len(streams[s])
      /\ a.originalVersion = Len(streams[s]) - 1 /\ Len(streams[s]) \in Nat
      /\ \A i \in 1..Len(streams[s]) : a.state[i] = streams[s][i].payload
  BY <1>1, <1>2, CallFacts, LoadAggregateProperties
<1> HIDE DEF a
<1>4. /\ CallsTypeOK' /\ pc'[c] = "decide" /\ UNCHANGED <<cmd, result>>
      /\ \A d \in AllCallers \ {c} : pc'[d] = pc[d]
  BY <1>1, ProceedTypes
<1>5. TypeOK'
  BY <1>1, <1>3, <1>4
     DEF TypeOK, ServiceTypeOK, AggregateTypeOK, Local, storeVars, StoreTypeOK
<1>6. Grows /\ OthersWait(c) /\ NoLostUpdate' /\ Waits(c)'
  BY <1>1, <1>4, <1>5, LocalKeeps
<1>7. NotSpurious(c)'
  BY <1>1, <1>4 DEF IInv, NotSpurious, Local, storeVars, CallStream
<1>8. agg'[c] = a /\ \A d \in AggCallers \ {c} : agg'[d] = agg[d]
  BY <1>1
<1>9. AggregateKnows(c)'
  <2>1. CallStream(c)' = s /\ since' = since /\ streams' = streams
    BY <1>1, <1>2, <1>4 DEF CallStream, Local, storeVars
  <2>2. since[c] <= Len(streams[s]) /\ since[c] \in Nat
    BY <1>1, <1>2 DEF IInv, Waits, TypeOK
  <2>3. QED BY <1>3, <1>4, <1>8, <2>1, <2>2 DEF AggregateKnows, Knows, Holds
<1>10. QED BY <1>1, <1>5, <1>6, <1>7, <1>8, <1>9, StepKeeps

\* A call that returns without having touched the store.
LEMMA AggregateReturnKeeps ==
    ASSUME IInv, NEW c \in AggCallers, pc[c] = "decide", Local,
           UNCHANGED <<seen, version, fresh>>, NEW r \in Results,
           r.outcome # "conflict", Return(c, r), Discard(c)
    PROVE  IInv'
<1>1. /\ c \in AllCallers /\ c \notin Callers /\ TypeOK /\ StoreTypeOK
      /\ agg \in [AggCallers -> Aggregates]
  BY AggregateFacts
<1>2. /\ CallsTypeOK' /\ pc'[c] = "idle" /\ UNCHANGED cmd /\ result'[c].outcome # "conflict"
      /\ \A d \in AllCallers \ {c} : pc'[d] = pc[d] /\ result'[d] = result[d]
  BY <1>1, ReturnTypes
<1>3. AggregateTypeOK' /\ \A d \in AggCallers \ {c} : agg'[d] = agg[d]
  BY <1>1 DEF Discard, AggregateTypeOK, NewAggregate, Aggregates
<1>4. TypeOK'
  BY <1>1, <1>2, <1>3 DEF TypeOK, ServiceTypeOK, Local, storeVars, StoreTypeOK
<1>5. Grows /\ OthersWait(c) /\ NoLostUpdate' /\ Waits(c)' /\ NotSpurious(c)'
  BY <1>1, <1>2, <1>4, LocalKeeps
<1>6. AggregateKnows(c)'
  BY <1>2 DEF AggregateKnows
<1>7. QED BY <1>1, <1>3, <1>4, <1>5, <1>6, StepKeeps

LEMMA AggregateRefusePreserves ==
    ASSUME IInv, NEW c \in AggCallers, AggregateRefuse(c) PROVE IInv'
<1>1. \A o \in {"aggregateExists", "aggregateMissing"} :
        Failure(o) \in Results /\ Failure(o).outcome # "conflict"
  BY DEF Failure, Results, Outcomes, VersionNoStream
<1>2. PICK o \in {"aggregateExists", "aggregateMissing"} : Return(c, Failure(o))
  BY DEF AggregateRefuse, AggRefuse
<1>3. /\ pc[c] = "decide" /\ Local /\ UNCHANGED <<seen, version, fresh>> /\ Discard(c)
  BY DEF AggregateRefuse, AggRefuse, serviceVars
<1>4. QED BY <1>1, <1>2, <1>3, AggregateReturnKeeps

LEMMA AggregateActPreserves ==
    ASSUME IInv, NEW c \in AggCallers, AggregateAct(c) PROVE IInv'
<1>1. /\ c \in AllCallers /\ c \notin Callers /\ TypeOK /\ StoreTypeOK
      /\ agg \in [AggCallers -> Aggregates] /\ AggregateKnows(c)
      /\ pc[c] = "decide" /\ Local /\ UNCHANGED <<seen, version, fresh>>
  BY AggregateFacts DEF AggregateAct, AggAct, serviceVars
<1>2. agg[c].state \in Seq(Payloads) /\ agg[c].originalVersion \in Int
  BY <1>1 DEF Aggregates
<1>3. CASE Return(c, Failure("rejected")) /\ Discard(c)
  <2>1. Failure("rejected") \in Results /\ Failure("rejected").outcome # "conflict"
    BY DEF Failure, Results, Outcomes, VersionNoStream
  <2>2. QED BY <1>1, <1>3, <2>1, AggregateReturnKeeps
<1>4. CASE Return(c, NoOp(agg[c].state, agg[c].originalVersion)) /\ Discard(c)
  <2>1. /\ NoOp(agg[c].state, agg[c].originalVersion) \in Results
        /\ NoOp(agg[c].state, agg[c].originalVersion).outcome # "conflict"
    BY <1>2 DEF NoOp, Results, Outcomes
  <2>2. QED BY <1>1, <1>4, <2>1, AggregateReturnKeeps
<1>5. CASE \E new \in Batches : agg' = [agg EXCEPT ![c] = ApplyAll(agg[c], new)]
                                /\ Proceed(c, "append")
  <2>1. PICK new \in Batches : agg' = [agg EXCEPT ![c] = ApplyAll(agg[c], new)]
                               /\ Proceed(c, "append")
    BY <1>5
  <2>2. new \in Seq(Payloads) /\ agg[c] \in Aggregates /\ agg[c].changes = <<>>
        /\ Knows(CallStream(c), agg[c].state, agg[c].originalVersion, since[c])
    BY <1>1, BatchesAssumption DEF AggregateKnows
  <2> DEFINE b == ApplyAll(agg[c], new)
  <2>3. /\ b \in Aggregates /\ b.changes = new
        /\ b.originalVersion = agg[c].originalVersion
        /\ Len(b.changes) <= Len(b.state) /\ Loaded(b) = agg[c].state
    BY <2>2, ApplyAllProperties
  <2> HIDE DEF b
  <2>4. /\ CallsTypeOK' /\ pc'[c] = "append" /\ UNCHANGED <<cmd, result>>
        /\ \A d \in AllCallers \ {c} : pc'[d] = pc[d]
    BY <1>1, <2>1, ProceedTypes
  <2>5. agg'[c] = b /\ \A d \in AggCallers \ {c} : agg'[d] = agg[d]
    BY <1>1, <2>1 DEF b
  <2>6. TypeOK'
    BY <1>1, <2>1, <2>3, <2>4
       DEF TypeOK, ServiceTypeOK, AggregateTypeOK, Local, storeVars, StoreTypeOK, b
  <2>7. Grows /\ OthersWait(c) /\ NoLostUpdate' /\ Waits(c)'
    BY <1>1, <2>4, <2>6, LocalKeeps
  <2>8. NotSpurious(c)'
    BY <1>1, <2>4 DEF IInv, NotSpurious, Local, storeVars, CallStream
  <2>9. AggregateKnows(c)'
    <3>1. CallStream(c)' = CallStream(c) /\ since' = since /\ streams' = streams
      BY <1>1, <2>4 DEF CallStream, Local, storeVars
    <3>2. QED BY <2>2, <2>3, <2>4, <2>5, <3>1 DEF AggregateKnows, Knows, Holds
  <2>10. QED BY <1>1, <2>5, <2>6, <2>7, <2>8, <2>9, StepKeeps
<1>6. QED BY <1>3, <1>4, <1>5 DEF AggregateAct, AggAct

\* ClearChanges keeps the shape of an aggregate.
LEMMA ClearChangesType ==
    ASSUME NEW a \in Aggregates PROVE ClearChanges(a) \in Aggregates
<1>1. /\ a.state \in Seq(Payloads) /\ a.changes \in Seq(Payloads)
      /\ a.originalVersion + Len(a.changes) \in Int
  BY DEF Aggregates
<1>2. PICK v \in Int : v = a.originalVersion + Len(a.changes)
  BY <1>1
<1>3. a = [state |-> a.state, changes |-> a.changes, originalVersion |-> a.originalVersion]
  BY DEF Aggregates
<1>4. ClearChanges(a) = [a EXCEPT !.changes = <<>>, !.originalVersion = v]
  BY <1>2 DEF ClearChanges, CurrentAggregateVersion
<1>5. ClearChanges(a) = [state |-> a.state, changes |-> <<>>, originalVersion |-> v]
  BY <1>3, <1>4
<1>6. QED BY <1>1, <1>5 DEF Aggregates

LEMMA AggregateStorePreserves ==
    ASSUME IInv, NEW c \in AggCallers, AggregateStore(c) PROVE IInv'
<1>1. /\ c \in AllCallers /\ c \notin Callers /\ TypeOK /\ StoreTypeOK
      /\ agg \in [AggCallers -> Aggregates] /\ AggregateKnows(c)
      /\ pc[c] = "append" /\ UNCHANGED <<seen, version, fresh>>
      /\ agg' = [agg EXCEPT ![c] = ClearChanges(agg[c])]
  BY AggregateFacts DEF AggregateStore, AggStored, serviceVars
<1>2. PICK s \in Streams : s = CallStream(c)
  BY <1>1, CallFacts
<1> DEFINE base == Loaded(agg[c])
           new  == agg[c].changes
           v    == agg[c].originalVersion
<1>3. agg[c] \in Aggregates /\ Len(new) <= Len(agg[c].state)
      /\ Knows(s, base, v, since[c])
  BY <1>1, <1>2 DEF AggregateKnows
<1>4. /\ base \in Seq(Payloads) /\ new \in Seq(Payloads) /\ agg[c].state \in Seq(Payloads)
      /\ v \in Int
  BY <1>3, LoadedProperties DEF Aggregates
<1>5. PICK r \in Results : r.outcome \in {"ok", "typeUnknown"} /\ Return(c, r)
  <2>1. AppendResult(s, new) \in [version : Int, global : Nat]
    BY <1>1, <1>4, AppendResultType
  <2>2. QED BY <1>2, <1>4, <2>1, ResultsTyped DEF AggregateStore, AggStored, Outcomes
<1>6. /\ CallsTypeOK' /\ pc'[c] = "idle" /\ result'[c] = r /\ UNCHANGED cmd
      /\ \A d \in AllCallers \ {c} : pc'[d] = pc[d] /\ result'[d] = result[d]
  BY <1>1, <1>5, ReturnTypes
<1>7. AppendEvents(s, v, new) /\ Decided(c, base, new)
  BY <1>2 DEF AggregateStore, ExpectedByAggregate, VersionNoStream
<1>8. StoreTypeOK' /\ Grows
  BY <1>1, <1>4, <1>7, AppendGrows
<1>9. AggregateTypeOK' /\ \A d \in AggCallers \ {c} : agg'[d] = agg[d]
  <2>1. ClearChanges(agg[c]) \in Aggregates
    BY <1>3, ClearChangesType
  <2>2. QED BY <1>1, <2>1 DEF AggregateTypeOK
<1> HIDE DEF base, new, v
<1>10. TypeOK'
  <2>1. cmd[c] \in Commands /\ Len(streams[s]) \in Nat
    BY <1>1, <1>2, CallFacts, HandlersAssumption
  <2>2. decisions' \subseteq Decisions /\ since' = since
    BY <1>1, <1>2, <1>4, <1>7, <2>1 DEF Decided, Decisions, TypeOK
  <2>3. QED BY <1>1, <1>6, <1>8, <1>9, <2>2 DEF TypeOK, ServiceTypeOK
<1>11. NoLostUpdate'
  BY <1>1, <1>2, <1>3, <1>4, <1>7, <1>10, AppendLosesNothing
<1>12. OthersWait(c) /\ Waits(c)' /\ NotSpurious(c)' /\ AggregateKnows(c)'
  BY <1>5, <1>6, <1>7 DEF OthersWait, Waits, NotSpurious, AggregateKnows, Decided
<1>13. QED BY <1>1, <1>8, <1>9, <1>10, <1>11, <1>12, StepKeeps

LEMMA AggregateConflictPreserves ==
    ASSUME IInv, NEW c \in AggCallers, AggregateConflict(c) PROVE IInv'
<1>1. /\ c \in AllCallers /\ c \notin Callers /\ TypeOK /\ StoreTypeOK
      /\ agg \in [AggCallers -> Aggregates] /\ AggregateKnows(c)
      /\ pc[c] = "append"
      /\ UNCHANGED <<seen, version, fresh, since, decisions, streams, globalPosition>>
      /\ Return(c, Failure("conflict")) /\ Discard(c)
  BY AggregateFacts
     DEF AggregateConflict, AggConflict, AppendConflict, storeVars, serviceVars
<1>2. PICK s \in Streams : s = CallStream(c)
  BY <1>1, CallFacts
<1>3. Len(streams[s]) > since[c]
  <2>1. /\ Loaded(agg[c]) \in Seq(Payloads)
        /\ Knows(s, Loaded(agg[c]), agg[c].originalVersion, since[c])
    BY <1>1, <1>2, LoadedProperties DEF AggregateKnows
  <2>2. AppendConflict(s, agg[c].originalVersion)
    BY <1>2 DEF AggregateConflict, ExpectedByAggregate, VersionNoStream
  <2>3. QED BY <1>1, <1>2, <2>1, <2>2, ConflictIsReal
<1>4. Failure("conflict") \in Results /\ Failure("conflict").outcome = "conflict"
  BY DEF Failure, Results, Outcomes, VersionNoStream
<1>5. /\ CallsTypeOK' /\ pc'[c] = "idle" /\ UNCHANGED cmd
      /\ \A d \in AllCallers \ {c} : pc'[d] = pc[d] /\ result'[d] = result[d]
  BY <1>1, <1>4, ReturnTypes
<1>6. /\ AggregateTypeOK' /\ StoreTypeOK' /\ Grows
      /\ \A d \in AggCallers \ {c} : agg'[d] = agg[d]
  BY <1>1, UnchangedGrows
     DEF Discard, AggregateTypeOK, NewAggregate, Aggregates, storeVars
<1>7. TypeOK'
  BY <1>1, <1>5, <1>6 DEF TypeOK, ServiceTypeOK
<1>8. NoLostUpdate'
  BY <1>1, <1>6, <1>7, DecisionsStay
<1>9. NotSpurious(c)'
  <2>1. cmd[c] \in DOMAIN Handlers
    BY <1>1, CallFacts
  <2>2. QED BY <1>1, <1>2, <1>3, <1>5, <2>1 DEF NotSpurious, CallStream
<1>10. OthersWait(c) /\ Waits(c)' /\ AggregateKnows(c)'
  BY <1>1, <1>5 DEF OthersWait, Waits, AggregateKnows
<1>11. QED BY <1>1, <1>6, <1>7, <1>8, <1>9, <1>10, StepKeeps

-----------------------------------------------------------------------------
LEMMA InitInvariant == Init => IInv
<1> SUFFICES ASSUME Init PROVE IInv
  OBVIOUS
<1>1. Failure("none") \in Results /\ Failure("none").outcome = "none"
  BY DEF Failure, Results, Outcomes, VersionNoStream
<1>2. NewAggregate \in Aggregates
  BY DEF NewAggregate, Aggregates
<1>3. TypeOK
  BY <1>1, <1>2 DEF Init, StoreInit, CallsInit, ServiceInit, AggregateInit, TypeOK,
     StoreTypeOK, CallsTypeOK, ServiceTypeOK, AggregateTypeOK, VersionNoStream
<1>4. /\ \A c \in AllCallers : pc[c] = "idle" /\ result[c].outcome = "none"
      /\ decisions = {}
  BY <1>1 DEF Init, CallsInit
<1>5. \A c \in Callers \union AggCallers : c \in AllCallers
  BY DEF AllCallers
<1>6. QED BY <1>3, <1>4, <1>5
        DEF IInv, Waits, NotSpurious, ServiceKnows, AggregateKnows, NoLostUpdate

LEMMA NextPreserves == IInv /\ [Next]_systemVars => IInv'
<1> SUFFICES ASSUME IInv, [Next]_systemVars PROVE IInv'
  OBVIOUS
<1>1. CASE UNCHANGED systemVars
  BY <1>1 DEF systemVars, storeVars, callVars, serviceVars, IInv, TypeOK, StoreTypeOK,
     CallsTypeOK, ServiceTypeOK, AggregateTypeOK, NoLostUpdate, Holds, Waits, NotSpurious,
     ServiceKnows, AggregateKnows, Knows, CallStream
<1>2. CASE Next
  BY <1>2, ServiceCallPreserves, ServiceLoadPreserves, ServiceDecidePreserves,
     ServiceAppendPreserves, ServiceConflictPreserves, AggregateCallPreserves,
     AggregateLoadPreserves, AggregateRefusePreserves, AggregateActPreserves,
     AggregateStorePreserves, AggregateConflictPreserves
     DEF Next, ServiceStep, AggregateStep
<1>3. QED BY <1>1, <1>2

\* Every reachable state is well typed.
THEOREM TypeCorrect == Spec => []TypeOK
<1>1. IInv => TypeOK
  BY DEF IInv
<1>2. QED BY <1>1, InitInvariant, NextPreserves, PTL DEF Spec

\* Optimistic concurrency: every accepted decision was made on exactly the events
\* that precede its own, for any number of callers of both services.
THEOREM NothingIsOverwritten == Spec => []NoLostUpdate
<1>1. IInv => NoLostUpdate
  BY DEF IInv
<1>2. QED BY <1>1, InitInvariant, NextPreserves, PTL DEF Spec

\* A caller gets a conflict only when its stream really changed under its call.
THEOREM ConflictsAreReal == Spec => []NoSpuriousConflict
<1>1. IInv => NoSpuriousConflict
  BY DEF IInv, NotSpurious, NoSpuriousConflict
<1>2. QED BY <1>1, InitInvariant, NextPreserves, PTL DEF Spec

\* What an append writes behind the events of its stream, and what it leaves alone.
LEMMA AppendWrites ==
    ASSUME StoreTypeOK, NEW s \in Streams, NEW v, NEW new \in Seq(Payloads),
           AppendEvents(s, v, new)
    PROVE  /\ globalPosition' = globalPosition + Len(new)
           /\ \A t \in Streams \ {s} : streams'[t] = streams[t]
           /\ streams'[s] = streams[s] \o Stamped(s, new)
           /\ Len(streams'[s]) = Len(streams[s]) + Len(new)
           /\ \A i \in 1..Len(new) :
                streams'[s][Len(streams[s]) + i].global = globalPosition + i - 1
<1>1. PICK old \in Seq(StreamEvents) : old = streams[s]
  BY DEF StoreTypeOK
<1>2. PICK tail \in Seq(StreamEvents) :
          /\ tail = Stamped(s, new) /\ Len(tail) = Len(new)
          /\ \A i \in 1..Len(new) : tail[i].global = globalPosition + i - 1
  <2>1. /\ Stamped(s, new) \in Seq(StreamEvents) /\ Len(Stamped(s, new)) = Len(new)
        /\ \A i \in 1..Len(new) : Stamped(s, new)[i].global = globalPosition + i - 1
    BY <1>1 DEF Stamped, StreamEvents, StoreTypeOK
  <2>2. QED BY <2>1, Zenon
<1>3. PICK joined : joined = old \o tail
  OBVIOUS
<1>4. /\ Len(joined) = Len(old) + Len(tail)
      /\ \A i \in 1..Len(tail) : joined[Len(old) + i] = tail[i]
  BY ONLY old \in Seq(StreamEvents), tail \in Seq(StreamEvents), <1>3, Concatenation
<1>5. streams' = [streams EXCEPT ![s] = joined]
  BY <1>1, <1>2, <1>3 DEF AppendEvents, StoreTypeOK
<1>6. streams'[s] = joined /\ \A t \in Streams \ {s} : streams'[t] = streams[t]
  BY <1>5 DEF StoreTypeOK
<1>7. globalPosition' = globalPosition + Len(new)
  BY DEF AppendEvents
<1>8. QED BY <1>1, <1>2, <1>3, <1>4, <1>6, <1>7

-----------------------------------------------------------------------------
\* Every global position below the counter is that of an event.
Covered ==
    \A g \in 0..(globalPosition - 1) :
        \E s \in Streams : \E i \in 1..Len(streams[s]) : streams[s][i].global = g

LEMMA AppendCovers ==
    ASSUME StoreTypeOK, Covered, NEW s \in Streams, NEW v, NEW new \in Seq(Payloads),
           AppendEvents(s, v, new)
    PROVE  Covered'
<1>1. /\ StoreTypeOK' /\ Grows
      /\ globalPosition' = globalPosition + Len(new)
      /\ Len(streams'[s]) = Len(streams[s]) + Len(new)
      /\ \A i \in 1..Len(new) :
            streams'[s][Len(streams[s]) + i].global = globalPosition + i - 1
  BY AppendGrows, AppendWrites
<1>2. globalPosition \in Nat /\ Len(streams[s]) \in Nat /\ Len(new) \in Nat
  BY DEF StoreTypeOK
<1>3. SUFFICES ASSUME NEW g \in 0..(globalPosition' - 1)
               PROVE  \E t \in Streams : \E i \in 1..Len(streams'[t]) :
                         streams'[t][i].global = g
  BY DEF Covered
<1>4. CASE g < globalPosition
  <2>1. g \in 0..(globalPosition - 1)
    BY <1>2, <1>4
  <2>2. PICK t \in Streams : \E i \in 1..Len(streams[t]) : streams[t][i].global = g
    BY <2>1 DEF Covered
  <2>3. PICK i \in 1..Len(streams[t]) : streams[t][i].global = g
    BY <2>2
  <2>4. Len(streams[t]) \in Nat /\ Len(streams'[t]) \in Nat
    BY <1>1 DEF StoreTypeOK
  <2>5. i \in 1..Len(streams'[t]) /\ streams'[t][i].global = g
    BY <1>1, <2>3, <2>4 DEF Grows
  <2>6. QED BY <2>5
<1>5. CASE g >= globalPosition
  <2>1. PICK i \in 1..Len(new) : g = globalPosition + i - 1
    <3>1. g - globalPosition + 1 \in 1..Len(new)
          /\ g = globalPosition + (g - globalPosition + 1) - 1
      BY <1>1, <1>2, <1>3, <1>5
    <3>2. QED BY <3>1
  <2>2. Len(streams[s]) + i \in 1..Len(streams'[s])
    BY <1>1, <1>2
  <2>3. streams'[s][Len(streams[s]) + i].global = g
    BY <1>1, <2>1
  <2>4. QED BY <2>2, <2>3
<1>6. QED BY <1>2, <1>3, <1>4, <1>5

\* The global positions of two events are in order within a stream, distinct
\* across streams, and below the counter.
Ordered(s, t, i, j) ==
    /\ streams[s][i].global < globalPosition
    /\ s = t /\ i < j => streams[s][i].global < streams[t][j].global
    /\ s # t => streams[s][i].global # streams[t][j].global

LEMMA AppendOrders ==
    ASSUME StoreTypeOK,
           \A s, t \in Streams : \A i \in 1..Len(streams[s]), j \in 1..Len(streams[t]) :
              Ordered(s, t, i, j),
           NEW a \in Streams, NEW v, NEW new \in Seq(Payloads), AppendEvents(a, v, new),
           NEW s \in Streams, NEW t \in Streams,
           NEW i \in 1..Len(streams'[s]), NEW j \in 1..Len(streams'[t])
    PROVE  Ordered(s, t, i, j)'
<1>0. PICK G \in Nat, L \in Nat, N \in Nat :
          G = globalPosition /\ L = Len(streams[a]) /\ N = Len(new)
  <2>1. globalPosition \in Nat /\ Len(streams[a]) \in Nat /\ Len(new) \in Nat
    BY DEF StoreTypeOK
  <2>2. QED BY <2>1
<1>1. /\ StoreTypeOK' /\ Grows
      /\ globalPosition' = G + N
      /\ \A q \in Streams \ {a} : streams'[q] = streams[q]
      /\ Len(streams'[a]) = L + N
      /\ \A k \in 1..N : streams'[a][L + k].global = G + k - 1
  BY <1>0, AppendGrows, AppendWrites
<1>2. \A q \in Streams : Len(streams[q]) \in Nat
  BY DEF StoreTypeOK
<1>3. ASSUME NEW q \in Streams, NEW k \in 1..Len(streams[q])
      PROVE  streams'[q][k].global = streams[q][k].global /\ streams[q][k].global \in Nat
             /\ streams[q][k].global < G
  <2>1. streams[q][k] \in StreamEvents
    BY DEF StoreTypeOK
  <2>2. Ordered(q, q, k, k)
    OBVIOUS
  <2>3. QED BY <1>0, <1>1, <2>1, <2>2 DEF Grows, StreamEvents, Ordered
<1>4. ASSUME NEW q \in Streams, NEW k \in 1..Len(streams'[q]), k \notin 1..Len(streams[q])
      PROVE  /\ q = a
             /\ streams'[q][k].global = G + (k - L) - 1
             /\ k - L \in 1..N
  <2>1. q = a
    BY <1>1, <1>4
  <2>2. k \in 1..(L + N) /\ k \notin 1..L
    BY <1>0, <1>1, <1>4, <2>1
  <2>3. k - L \in 1..N /\ L + (k - L) = k
    BY <2>2
  <2>4. QED BY <1>1, <2>1, <2>3
<1>5. PICK x \in Nat : x = streams'[s][i].global
  <2>1. streams'[s][i] \in StreamEvents
    BY <1>1 DEF StoreTypeOK
  <2>2. QED BY <2>1 DEF StreamEvents
<1>6. PICK y \in Nat : y = streams'[t][j].global
  <2>1. streams'[t][j] \in StreamEvents
    BY <1>1 DEF StoreTypeOK
  <2>2. QED BY <2>1 DEF StreamEvents
<1>7. SUFFICES /\ x < G + N
               /\ s = t /\ i < j => x < y
               /\ s # t => x # y
  BY <1>1, <1>5, <1>6 DEF Ordered
<1>8. CASE i \in 1..Len(streams[s]) /\ j \in 1..Len(streams[t])
  <2>1. Ordered(s, t, i, j)
    BY <1>8
  <2>2. x = streams[s][i].global /\ y = streams[t][j].global /\ x < G
    BY <1>3, <1>5, <1>6, <1>8
  <2>3. QED BY <1>2, <2>1, <2>2 DEF Ordered
<1>9. CASE i \in 1..Len(streams[s]) /\ j \notin 1..Len(streams[t])
  <2>1. x < G
    BY <1>3, <1>5, <1>9
  <2>2. y >= G
    BY <1>2, <1>4, <1>6, <1>9
  <2>3. QED BY <1>2, <2>1, <2>2
<1>10. CASE i \notin 1..Len(streams[s]) /\ j \in 1..Len(streams[t])
  <2>1. x \in G..(G + N - 1)
    BY <1>2, <1>4, <1>5, <1>10
  <2>2. y < G
    BY <1>3, <1>6, <1>10
  <2>3. ~(s = t /\ i < j)
    BY <1>2, <1>10
  <2>4. QED BY <1>2, <2>1, <2>2, <2>3
<1>11. CASE i \notin 1..Len(streams[s]) /\ j \notin 1..Len(streams[t])
  <2>1. /\ s = a /\ x = G + (i - L) - 1
        /\ i - L \in 1..N
    BY <1>4, <1>5, <1>11
  <2>2. t = a /\ y = G + (j - L) - 1
    BY <1>4, <1>6, <1>11
  <2>3. QED BY <1>2, <2>1, <2>2
<1>12. QED BY <1>8, <1>9, <1>10, <1>11

LEMMA GlobalOrderParts ==
    GlobalOrder <=>
        /\ Covered
        /\ \A s, t \in Streams : \A i \in 1..Len(streams[s]), j \in 1..Len(streams[t]) :
              Ordered(s, t, i, j)
BY DEF GlobalOrder, Covered, Ordered

LEMMA AppendKeepsOrder ==
    ASSUME StoreTypeOK, GlobalOrder, NEW s \in Streams, NEW v, NEW new \in Seq(Payloads),
           AppendEvents(s, v, new)
    PROVE  GlobalOrder'
<1>1. Covered'
  BY GlobalOrderParts, AppendCovers
<1>2. \A q, t \in Streams : \A i \in 1..Len(streams'[q]), j \in 1..Len(streams'[t]) :
          Ordered(q, t, i, j)'
  BY GlobalOrderParts, AppendOrders
<1>3. QED BY <1>1, <1>2 DEF GlobalOrder, Covered, Ordered

\* A step leaves the store alone or appends the events of a call to its stream.
LEMMA StoreSteps ==
    ASSUME IInv, [Next]_systemVars
    PROVE  \/ UNCHANGED storeVars
           \/ \E s \in Streams : \E new \in Seq(Payloads) : \E v \in Int :
                 AppendEvents(s, v, new)
<1>1. CASE UNCHANGED systemVars
  BY <1>1 DEF systemVars
<1>2. ASSUME NEW c \in Callers, ServiceAppend(c)
      PROVE  \E s \in Streams : \E new \in Seq(Payloads) : \E v \in Int :
                AppendEvents(s, v, new)
  <2>1. c \in AllCallers /\ pc[c] = "append" /\ TypeOK
    BY <1>2 DEF AllCallers, ServiceAppend, Appended, IInv
  <2>2. CallStream(c) \in Streams
    BY <2>1, CallFacts
  <2>3. fresh[c] \in Seq(Payloads) /\ version[c] \in Int
    <3>1. fresh[c] \in Batches \union {<<>>} /\ version[c] \in Int
      BY <2>1 DEF TypeOK, ServiceTypeOK
    <3>2. <<>> \in Seq(Payloads)
      OBVIOUS
    <3>3. QED BY <3>1, <3>2, BatchesAssumption
  <2>4. QED BY <1>2, <2>2, <2>3 DEF ServiceAppend
<1>3. ASSUME NEW c \in AggCallers, AggregateStore(c)
      PROVE  \E s \in Streams : \E new \in Seq(Payloads) : \E v \in Int :
                AppendEvents(s, v, new)
  <2>1. c \in AllCallers /\ pc[c] = "append" /\ TypeOK
    BY <1>3 DEF AllCallers, AggregateStore, AggStored, IInv
  <2>2. CallStream(c) \in Streams
    BY <2>1, CallFacts
  <2>3. agg[c].changes \in Seq(Payloads) /\ ExpectedByAggregate(agg[c]) \in Int
    BY <2>1 DEF TypeOK, AggregateTypeOK, Aggregates, ExpectedByAggregate, VersionNoStream
  <2>4. QED BY <1>3, <2>2, <2>3 DEF AggregateStore
<1>4. CASE Next
  <2>1. CASE \E c \in Callers : ServiceCall(c) \/ ServiceStep(c)
    BY <1>2, <2>1 DEF ServiceCall, Called, ServiceStep, ServiceLoad, ServiceDecide, Local,
       ServiceConflict, AppendConflict
  <2>2. CASE \E c \in AggCallers : AggregateCall(c) \/ AggregateStep(c)
    BY <1>3, <2>2 DEF AggregateCall, Called, AggregateStep, AggregateLoad, AggregateRefuse,
       AggregateAct, Local, AggregateConflict, AppendConflict
  <2>3. QED BY <1>4, <2>1, <2>2 DEF Next
<1>5. QED BY <1>1, <1>4

\* Global positions number the events of all streams without gaps, repetitions or
\* inversions, however many streams are appended to concurrently.
THEOREM PositionsAreGlobal == Spec => []GlobalOrder
<1>1. Init => GlobalOrder
  BY DEF Init, StoreInit, GlobalOrder
<1>2. IInv /\ GlobalOrder /\ [Next]_systemVars => GlobalOrder'
  <2> SUFFICES ASSUME IInv, GlobalOrder, [Next]_systemVars PROVE GlobalOrder'
    OBVIOUS
  <2>1. StoreTypeOK
    BY DEF IInv, TypeOK
  <2>2. CASE UNCHANGED storeVars
    BY <2>2 DEF storeVars, GlobalOrder
  <2>3. QED BY <2>1, <2>2, StoreSteps, AppendKeepsOrder
<1>3. QED BY <1>1, <1>2, InitInvariant, NextPreserves, PTL DEF Spec

-----------------------------------------------------------------------------
\* What a call remembers of its decision until the store answers: that the
\* expected state admitted the events it loaded, and that the events it appends
\* are those the handler decided on, seeing exactly them.
ServiceDecided(c) ==
    /\ pc[c] \in {"decide", "append"} => Atomic!Admits(cmd[c], seen[c])
    /\ pc[c] = "append" =>
         /\ ~Act(cmd[c], seen[c]).err
         /\ Act(cmd[c], seen[c]).events = fresh[c]
         /\ fresh[c] # <<>>

AggregateDecided(c) ==
    pc[c] = "append" =>
        /\ Atomic!Admits(cmd[c], Loaded(agg[c]))
        /\ ~Act(cmd[c], Loaded(agg[c])).err
        /\ Act(cmd[c], Loaded(agg[c])).events = agg[c].changes
        /\ agg[c].changes # <<>>
        /\ agg[c].state = Loaded(agg[c]) \o agg[c].changes

Answered(c) ==
    result[c].outcome \in {"ok", "noop"} =>
        LET r == result[c]
            n == Len(r.state)
        IN  /\ cmd[c] \in DOMAIN Handlers
            /\ Holds(CallStream(c), 0, r.state)
            /\ r.version = n - 1
            /\ r.outcome = "ok" => n > 0 /\ r.global = streams[CallStream(c)][n].global

DInv ==
    /\ \A c \in Callers : ServiceDecided(c)
    /\ \A c \in AggCallers : AggregateDecided(c)
    /\ \A c \in AllCallers : Answered(c)

\* What a step of caller c leaves alone of the others, locals included.
OthersRest(c) ==
    /\ OthersWait(c)
    /\ \A d \in Callers \ {c} :
          seen'[d] = seen[d] /\ version'[d] = version[d] /\ fresh'[d] = fresh[d]
    /\ \A d \in AggCallers \ {c} : agg'[d] = agg[d]

LEMMA OthersStayDecided ==
    ASSUME IInv, IInv', DInv, Grows, NEW c \in AllCallers, OthersRest(c)
    PROVE  /\ \A d \in Callers \ {c} : ServiceDecided(d)'
           /\ \A d \in AggCallers \ {c} : AggregateDecided(d)'
           /\ \A d \in AllCallers \ {c} : Answered(d)'
<1>1. \A d \in Callers \union AggCallers : d \in AllCallers
  BY DEF AllCallers
<1>2. ASSUME NEW d \in Callers \ {c} PROVE ServiceDecided(d)'
  <2>1. /\ pc'[d] = pc[d] /\ cmd'[d] = cmd[d] /\ seen'[d] = seen[d] /\ fresh'[d] = fresh[d]
    BY <1>1 DEF OthersRest, OthersWait
  <2>2. ServiceDecided(d)
    BY DEF DInv
  <2>3. QED BY <2>1, <2>2 DEF ServiceDecided, Atomic!Admits
<1>3. ASSUME NEW d \in AggCallers \ {c} PROVE AggregateDecided(d)'
  <2>1. pc'[d] = pc[d] /\ cmd'[d] = cmd[d] /\ agg'[d] = agg[d]
    BY <1>1 DEF OthersRest, OthersWait
  <2>2. AggregateDecided(d)
    BY DEF DInv
  <2>3. QED BY <2>1, <2>2 DEF AggregateDecided, Atomic!Admits, Loaded
<1>4. ASSUME NEW d \in AllCallers \ {c} PROVE Answered(d)'
  <2>1. cmd'[d] = cmd[d] /\ result'[d] = result[d]
    BY DEF OthersRest, OthersWait
  <2>2. SUFFICES ASSUME result[d].outcome \in {"ok", "noop"} PROVE Answered(d)'
    BY <2>1 DEF Answered
  <2>3. PICK s \in Streams : s = CallStream(d)
    BY <2>2, HandlersAssumption DEF DInv, Answered, CallStream, StreamOf
  <2>4. PICK p \in Seq(Payloads) : p = result[d].state
    BY DEF IInv, TypeOK, CallsTypeOK, Results
  <2>5. StoreTypeOK /\ StoreTypeOK' /\ Len(p) \in Nat /\ Len(streams[s]) \in Nat
    BY <2>4 DEF IInv, TypeOK, StoreTypeOK
  <2>6. /\ cmd[d] \in DOMAIN Handlers /\ Holds(s, 0, p) /\ result[d].version = Len(p) - 1
        /\ result[d].outcome = "ok" => Len(p) > 0 /\ result[d].global = streams[s][Len(p)].global
    BY <2>2, <2>3, <2>4 DEF DInv, Answered
  <2>7. Holds(s, 0, p)'
    BY <2>5, <2>6, HoldsForever
  <2>8. Len(p) > 0 => streams'[s][Len(p)] = streams[s][Len(p)]
    BY <2>5, <2>6 DEF Holds, Grows
  <2>9. CallStream(d)' = s
    BY <2>1, <2>3 DEF CallStream
  <2>10. QED BY <2>1, <2>4, <2>6, <2>7, <2>8, <2>9 DEF Answered, Holds
<1>5. QED BY <1>2, <1>3, <1>4

\* It is enough to look at the call that takes the step.
LEMMA StepDecides ==
    ASSUME IInv, IInv', DInv, Grows, NEW c \in AllCallers, OthersRest(c),
           c \in Callers => ServiceDecided(c)',
           c \in AggCallers => AggregateDecided(c)',
           Answered(c)'
    PROVE  DInv'
BY OthersStayDecided DEF DInv

-----------------------------------------------------------------------------
\* The payloads of a stream of which a list as long as it is known.
LEMMA KnownWhole ==
    ASSUME StoreTypeOK, NEW s \in Streams, NEW p \in Seq(Payloads), Holds(s, 0, p),
           Len(p) = Len(streams[s])
    PROVE  PayloadsOf(streams[s]) = p
<1>1. p \in [1..Len(p) -> Payloads]
  OBVIOUS
<1>2. p = [i \in 1..Len(p) |-> p[i]]
  BY <1>1
<1>3. ASSUME NEW i \in 1..Len(p) PROVE streams[s][i].payload = p[i]
  <2>1. streams[s][0 + i].payload = p[i] /\ 0 + i = i
    BY DEF Holds
  <2>2. QED BY <2>1
<1>4. QED BY <1>2, <1>3 DEF PayloadsOf

\* The events are those of the stream s up to the one with version v and global
\* position g.
Describes(s, events, v, g) ==
    /\ Holds(s, 0, events) /\ Len(events) > 0
    /\ v = Len(events) - 1 /\ g = streams[s][Len(events)].global

\* The answer of the store to the append of a call that knew its stream.
LEMMA AppendAnswers ==
    ASSUME StoreTypeOK, NEW s \in Streams, NEW base \in Seq(Payloads),
           NEW new \in Seq(Payloads), new # <<>>, NEW v, NEW from,
           Knows(s, base, v, from), AppendEvents(s, v, new),
           NEW all, all = base \o new, NEW a, a = AppendResult(s, new)
    PROVE  /\ all \in Seq(Payloads)
           /\ PayloadsOf(streams[s]) = base /\ PayloadsOf(streams'[s]) = all
           /\ Describes(s, all, a.version, a.global)'
<1>1. Len(streams[s]) \in Nat /\ Len(base) \in Nat /\ Len(new) \in Nat /\ Len(new) > 0
  BY DEF StoreTypeOK
<1>2. Len(base) = Len(streams[s])
  BY <1>1 DEF AppendEvents, VersionMatches, CurrentVersion, Knows, VersionAny
<1>3. /\ all \in Seq(Payloads) /\ Len(all) = Len(base) + Len(new)
      /\ \A i \in 1..Len(base) : all[i] = base[i]
      /\ \A i \in 1..Len(new) : all[Len(base) + i] = new[i]
  BY Concatenation
<1>4. /\ StoreTypeOK' /\ Grows
      /\ Len(streams'[s]) = Len(streams[s]) + Len(new)
      /\ \A i \in 1..Len(new) : streams'[s][Len(streams[s]) + i].payload = new[i]
      /\ streams'[s] = streams[s] \o Stamped(s, new)
  BY AppendGrows, AppendWrites
<1>5. ASSUME NEW i \in 1..Len(all) PROVE streams'[s][0 + i].payload = all[i]
  <2>1. 0 + i = i
    OBVIOUS
  <2>2. CASE i \in 1..Len(base)
    <3>1. streams[s][0 + i].payload = base[i]
      BY <2>2 DEF Knows, Holds
    <3>2. streams'[s][i] = streams[s][i]
      BY <1>2, <1>4, <2>2 DEF Grows
    <3>3. QED BY <1>3, <2>1, <2>2, <3>1, <3>2
  <2>3. CASE i \notin 1..Len(base)
    <3>1. PICK j \in 1..Len(new) : i = Len(base) + j
      <4>1. i - Len(base) \in 1..Len(new) /\ i = Len(base) + (i - Len(base))
        BY <1>1, <1>3, <2>3
      <4>2. QED BY <4>1
    <3>2. streams'[s][i].payload = new[j] /\ all[i] = new[j]
      BY <1>2, <1>3, <1>4, <3>1
    <3>3. QED BY <2>1, <3>2
  <2>4. QED BY <2>2, <2>3
<1>6. Holds(s, 0, all)'
  BY <1>1, <1>2, <1>3, <1>4, <1>5 DEF Holds
<1>7. AppendResult(s, new) = [version |-> Len(all) - 1, global |-> streams'[s][Len(all)].global]
  <2>1. PICK events : events = streams'[s]
    OBVIOUS
  <2>2. events \in Seq(StreamEvents)
    BY <1>4, <2>1 DEF StoreTypeOK
  <2>3. Len(events) = Len(all) /\ Len(all) > 0
    BY <1>1, <1>2, <1>3, <1>4, <2>1
  <2>4. events # <<>>
    BY <2>2, <2>3
  <2>5. QED BY <1>4, <2>1, <2>3, <2>4 DEF AppendResult
<1>8. PayloadsOf(streams[s]) = base
  <2>1. Holds(s, 0, base)
    BY DEF Knows
  <2>2. QED BY <1>2, <2>1, KnownWhole
<1>9. PayloadsOf(streams'[s]) = all
  <2>1. all \in [1..Len(all) -> Payloads]
    BY ONLY <1>3
  <2>2. all = [i \in 1..Len(all) |-> all[i]]
    BY <2>1
  <2>3. \A i \in 1..Len(all) : streams'[s][i].payload = all[i]
    <3>1. ASSUME NEW i \in 1..Len(all) PROVE streams'[s][i].payload = all[i]
      <4>1. 0 + i = i
        OBVIOUS
      <4>2. QED BY <1>5, <4>1
    <3>2. QED BY <3>1
  <2>4. Len(streams'[s]) = Len(all)
    BY <1>1, <1>2, <1>3, <1>4
  <2>5. QED BY <2>2, <2>3, <2>4 DEF PayloadsOf
<1>10. Describes(s, all, a.version, a.global)'
  <2>1. a.version = Len(all) - 1 /\ a.global = streams'[s][Len(all)].global
    BY <1>7
  <2>2. Len(all) > 0
    BY <1>1, <1>3
  <2>3. QED BY <1>6, <2>1, <2>2 DEF Describes, Holds
<1>11. QED BY <1>3, <1>8, <1>9, <1>10

-----------------------------------------------------------------------------
LEMMA CalledDecides ==
    ASSUME IInv, IInv', DInv, NEW c \in AllCallers, NEW k \in Commands, BeginCall(c, k),
           Called(c, k), UNCHANGED <<seen, version, fresh, agg>>
    PROVE  DInv'
<1>1. TypeOK
  BY DEF IInv
<1>2. /\ Grows /\ OthersWait(c) /\ pc'[c] \notin {"decide", "append"}
  BY <1>1, CalledTypes
<1>3. result'[c].outcome \notin {"ok", "noop"}
  BY <1>1, BeginTypes
<1>4. OthersRest(c)
  BY <1>2 DEF OthersRest
<1>5. ServiceDecided(c)' /\ AggregateDecided(c)' /\ Answered(c)'
  BY <1>2, <1>3 DEF ServiceDecided, AggregateDecided, Answered
<1>6. QED BY <1>2, <1>4, <1>5, StepDecides

\* A step that proceeds without touching the store.
LEMMA ProceedDecides ==
    ASSUME IInv, IInv', DInv, NEW c \in AllCallers, NEW step \in {"decide", "append"},
           pc[c] # "idle", Proceed(c, step), Local,
           \A d \in Callers \ {c} :
              seen'[d] = seen[d] /\ version'[d] = version[d] /\ fresh'[d] = fresh[d],
           \A d \in AggCallers \ {c} : agg'[d] = agg[d],
           c \in Callers => ServiceDecided(c)',
           c \in AggCallers => AggregateDecided(c)'
    PROVE  DInv'
<1>1. TypeOK /\ UNCHANGED <<streams, since>>
  BY DEF IInv, Local, storeVars
<1>2. /\ UNCHANGED <<cmd, result>>
      /\ \A d \in AllCallers \ {c} : pc'[d] = pc[d]
  BY <1>1, ProceedTypes
<1>3. Grows /\ OthersRest(c)
  BY <1>1, <1>2, UnchangedGrows DEF OthersRest, OthersWait, TypeOK, Local
<1>4. Answered(c)'
  BY <1>1, <1>2 DEF DInv, Answered, Holds, CallStream
<1>5. QED BY <1>3, <1>4, StepDecides

\* A step that returns without touching the store.
LEMMA ReturnDecides ==
    ASSUME IInv, IInv', DInv, NEW c \in AllCallers, NEW r \in Results, Return(c, r),
           UNCHANGED <<streams, globalPosition, since>>,
           \A d \in Callers \ {c} :
              seen'[d] = seen[d] /\ version'[d] = version[d] /\ fresh'[d] = fresh[d],
           \A d \in AggCallers \ {c} : agg'[d] = agg[d],
           Answered(c)'
    PROVE  DInv'
<1>1. TypeOK
  BY DEF IInv
<1>2. /\ pc'[c] = "idle" /\ UNCHANGED cmd
      /\ \A d \in AllCallers \ {c} : pc'[d] = pc[d] /\ result'[d] = result[d]
  BY <1>1, ReturnTypes
<1>3. Grows /\ OthersRest(c)
  BY <1>1, <1>2, UnchangedGrows DEF OthersRest, OthersWait, TypeOK, storeVars
<1>4. ServiceDecided(c)' /\ AggregateDecided(c)'
  BY <1>2 DEF ServiceDecided, AggregateDecided
<1>5. QED BY <1>3, <1>4, StepDecides

\* LoadState lets through what the expected state admits, and nothing else.
LEMMA LoadStateAdmits ==
    ASSUME NEW found \in BOOLEAN, NEW raw \in Seq(StreamEvents), NEW k \in DOMAIN Handlers,
           found <=> Len(raw) > 0
    PROVE  LET r == LoadState(found, raw, ExpectedOf(k))
           IN  /\ r.err = "none" => Atomic!Admits(k, r.payloads)
               /\ r.err # "none" =>
                    /\ ~Atomic!Admits(k, PayloadsOf(raw))
                    /\ r.err = (IF Len(raw) > 0 THEN "streamExists" ELSE "streamNotFound")
<1> DEFINE r == LoadState(found, raw, ExpectedOf(k))
<1>0. SUFFICES /\ r.err = "none" => Atomic!Admits(k, r.payloads)
               /\ r.err # "none" =>
                    /\ ~Atomic!Admits(k, PayloadsOf(raw))
                    /\ r.err = (IF Len(raw) > 0 THEN "streamExists" ELSE "streamNotFound")
  OBVIOUS
<1>1. ExpectedOf(k) \in ExpectedStates
  BY HandlersAssumption DEF ExpectedOf
<1>2. /\ r.payloads \in Seq(Payloads) /\ (~found => r.payloads = <<>>)
      /\ found /\ r.err = "none" => Len(r.payloads) = Len(raw)
  BY <1>1, LoadStateAnswers
<1>3. Len(raw) \in Nat /\ Len(PayloadsOf(raw)) = Len(raw)
  BY DEF PayloadsOf
<1>4. Len(PayloadsOf(raw)) > 0 => PayloadsOf(raw) # <<>>
  OBVIOUS
<1>5. Len(PayloadsOf(raw)) = 0 => PayloadsOf(raw) = <<>>
  BY <1>3 DEF PayloadsOf
<1>6. CASE r.err = "none"
  <2>1. \/ ~found /\ ExpectedOf(k) \in {"IsNew", "IsAny"}
        \/ found /\ ExpectedOf(k) \in {"IsExisting", "IsAny"}
    BY <1>1, <1>6 DEF LoadState, ExpectedStates
  <2> HIDE DEF r
  <2>2. found => r.payloads # <<>>
    BY <1>2, <1>3, <1>6
  <2>3. QED BY <1>2, <1>6, <2>1, <2>2 DEF Atomic!Admits, ExpectedOf
<1>7. CASE r.err # "none"
  <2>1. \/ ~found /\ ExpectedOf(k) = "IsExisting" /\ r.err = "streamNotFound"
        \/ found /\ ExpectedOf(k) = "IsNew" /\ r.err = "streamExists"
    BY <1>1, <1>7 DEF LoadState, ExpectedStates
  <2> HIDE DEF r
  <2>2. CASE ~found
    <3>1. PayloadsOf(raw) = <<>> /\ ~(Len(raw) > 0)
      BY <1>3, <1>5, <2>2
    <3>2. QED BY <2>1, <2>2, <3>1 DEF Atomic!Admits, ExpectedOf
  <2>3. CASE found
    <3>1. PayloadsOf(raw) # <<>> /\ Len(raw) > 0
      BY <1>3, <1>4, <2>3
    <3>2. QED BY <2>1, <2>3, <3>1 DEF Atomic!Admits, ExpectedOf
  <2>4. QED BY <2>2, <2>3
<1>8. QED BY <1>6, <1>7

LEMMA ServiceLoadDecides ==
    ASSUME IInv, IInv', DInv, NEW c \in Callers, ServiceLoad(c) PROVE DInv'
<1> DEFINE s == CallStream(c)
           r == LoadState(StreamFound(s), streams[s], ExpectedOf(cmd[c]))
<1>1. /\ c \in AllCallers /\ c \notin AggCallers /\ TypeOK
      /\ pc[c] = "load" /\ Local /\ UNCHANGED agg
  BY CallersAssumption DEF AllCallers, IInv, ServiceLoad, Load
<1>2. /\ cmd[c] \in DOMAIN Handlers
      /\ streams[s] \in Seq(StreamEvents) /\ Len(streams[s]) \in Nat
      /\ StreamFound(s) \in BOOLEAN /\ (StreamFound(s) <=> Len(streams[s]) > 0)
      /\ ExpectedOf(cmd[c]) \in ExpectedStates
  BY <1>1, CallFacts
<1>3. /\ r.err \in {"none", "streamNotFound", "streamExists"}
      /\ r.payloads \in Seq(Payloads)
      /\ r.err = "none" => Atomic!Admits(cmd[c], r.payloads)
  BY <1>2, LoadStateProperties, LoadStateAdmits
<1>4. CASE r.err = "none"
  <2>1. /\ Proceed(c, "decide") /\ UNCHANGED fresh
        /\ seen' = [seen EXCEPT ![c] = r.payloads]
        /\ version' = [version EXCEPT ![c] = r.version]
    BY <1>4 DEF ServiceLoad, Load
  <2> HIDE DEF r
  <2>2. seen'[c] = r.payloads /\ \A d \in Callers \ {c} :
          seen'[d] = seen[d] /\ version'[d] = version[d] /\ fresh'[d] = fresh[d]
    BY <1>1, <2>1 DEF TypeOK, ServiceTypeOK
  <2>3. pc'[c] = "decide" /\ cmd'[c] = cmd[c]
    BY <1>1, <2>1, ProceedTypes
  <2>4. ServiceDecided(c)'
    BY <1>3, <1>4, <2>2, <2>3 DEF ServiceDecided, Atomic!Admits
  <2>5. QED BY <1>1, <2>1, <2>2, <2>4, ProceedDecides
<1>5. CASE r.err # "none"
  <2>1. Return(c, Failure(r.err)) /\ UNCHANGED <<seen, version, fresh>>
    BY <1>5 DEF ServiceLoad, Load, serviceVars
  <2>2. Failure(r.err) \in Results /\ Failure(r.err).outcome \notin {"ok", "noop"}
    BY <1>3 DEF Failure, Results, Outcomes, VersionNoStream
  <2>3. result'[c] = Failure(r.err)
    BY <1>1, <2>1, <2>2, ReturnTypes
  <2>4. Answered(c)'
    BY <2>2, <2>3 DEF Answered
  <2>5. QED BY <1>1, <2>1, <2>2, <2>4, ReturnDecides DEF Local, storeVars
<1>6. QED BY <1>4, <1>5

\* The answer "noop" of a call that had nothing to append.
LEMMA NoOpAnswers ==
    ASSUME IInv, NEW c \in AllCallers, pc[c] # "idle", NEW p \in Seq(Payloads),
           NEW v \in Int, NEW from, Knows(CallStream(c), p, v, from),
           UNCHANGED <<streams, cmd>>, result'[c] = NoOp(p, v)
    PROVE  Answered(c)'
<1>1. cmd[c] \in DOMAIN Handlers /\ CallStream(c)' = CallStream(c)
  BY CallFacts DEF IInv, CallStream
<1>2. result'[c].outcome = "noop" /\ result'[c].state = p /\ result'[c].version = v
  BY DEF NoOp
<1>3. QED BY <1>1, <1>2 DEF Answered, Knows, Holds

LEMMA ServiceDecideDecides ==
    ASSUME IInv, IInv', DInv, NEW c \in Callers, ServiceDecide(c) PROVE DInv'
<1>1. /\ c \in AllCallers /\ c \notin AggCallers /\ TypeOK
      /\ pc[c] = "decide" /\ Local /\ UNCHANGED agg
      /\ UNCHANGED <<streams, globalPosition, since>>
  BY CallersAssumption DEF AllCallers, IInv, ServiceDecide, Decide, Local, storeVars
<1>2. /\ seen \in [Callers -> Seq(Payloads)] /\ version \in [Callers -> Int]
      /\ fresh \in [Callers -> Batches \union {<<>>}]
      /\ seen[c] \in Seq(Payloads) /\ version[c] \in Int
  BY <1>1 DEF TypeOK, ServiceTypeOK
<1>3. /\ Atomic!Admits(cmd[c], seen[c])
      /\ Knows(CallStream(c), seen[c], version[c], since[c])
  BY <1>1 DEF DInv, ServiceDecided, IInv, ServiceKnows
<1>4. ASSUME Forget(c)
      PROVE  \A d \in Callers \ {c} :
                seen'[d] = seen[d] /\ version'[d] = version[d] /\ fresh'[d] = fresh[d]
  BY <1>2, <1>4 DEF Forget
<1>5. CASE Return(c, Failure("rejected")) /\ Forget(c)
  <2>1. Failure("rejected") \in Results /\ Failure("rejected").outcome = "rejected"
    BY DEF Failure, Results, Outcomes, VersionNoStream
  <2>2. result'[c].outcome = "rejected"
    BY <1>1, <1>5, <2>1, ReturnTypes
  <2>3. Answered(c)'
    BY <2>2 DEF Answered
  <2>4. QED BY <1>1, <1>4, <1>5, <2>1, <2>3, ReturnDecides
<1>6. CASE Return(c, NoOp(seen[c], version[c])) /\ Forget(c)
  <2>1. NoOp(seen[c], version[c]) \in Results
    BY <1>2 DEF NoOp, Results, Outcomes
  <2>2. result'[c] = NoOp(seen[c], version[c]) /\ UNCHANGED cmd
    BY <1>1, <1>6, <2>1, ReturnTypes
  <2>3. Answered(c)'
    BY <1>1, <1>2, <1>3, <2>2, NoOpAnswers
  <2>4. QED BY <1>1, <1>4, <1>6, <2>1, <2>3, ReturnDecides
<1>7. CASE /\ ~Act(cmd[c], seen[c]).err /\ Act(cmd[c], seen[c]).events # <<>>
           /\ \E new \in Batches :
                 new = Act(cmd[c], seen[c]).events /\ fresh' = [fresh EXCEPT ![c] = new]
           /\ Proceed(c, "append") /\ UNCHANGED <<seen, version>>
  <2>1. /\ fresh'[c] = Act(cmd[c], seen[c]).events
        /\ \A d \in Callers \ {c} : fresh'[d] = fresh[d]
    BY <1>2, <1>7
  <2>2. pc'[c] = "append" /\ cmd' = cmd
    BY <1>1, <1>7, ProceedTypes
  <2>3. ServiceDecided(c)'
    BY <1>3, <1>7, <2>1, <2>2 DEF ServiceDecided, Atomic!Admits
  <2>4. QED BY <1>1, <1>7, <2>1, <2>3, ProceedDecides
<1>8. QED BY <1>5, <1>6, <1>7 DEF ServiceDecide, Decide

\* A call whose events were appended: its answer describes the stream they made.
LEMMA AppendedAnswers ==
    ASSUME IInv, IInv', NEW c \in AllCallers, pc[c] # "idle", NEW s \in Streams,
           s = CallStream(c),
           NEW base \in Seq(Payloads), NEW new \in Seq(Payloads), new # <<>>, NEW v,
           Knows(s, base, v, since[c]), AppendEvents(s, v, new),
           NEW all \in Seq(Payloads), all = base \o new, UNCHANGED cmd,
           result'[c] = AppendedResult(all, new, AppendResult(s, new), Registered)
    PROVE  Answered(c)'
<1>1. StoreTypeOK /\ StoreTypeOK' /\ cmd[c] \in DOMAIN Handlers
  BY CallFacts DEF IInv, TypeOK
<1>2. PICK a : a = AppendResult(s, new)
  OBVIOUS
<1>3. Describes(s, all, a.version, a.global)'
  BY <1>1, <1>2, AppendAnswers
<1>4. CallStream(c)' = s
  BY DEF CallStream
<1>5. CASE result'[c] = Failure("typeUnknown")
  BY <1>5 DEF Answered, Failure
<1>6. CASE result'[c] = Success(all, new, AppendResult(s, new))
  <2>1. /\ result'[c].state = all /\ result'[c].version = a.version
        /\ result'[c].global = a.global
    BY <1>2, <1>6 DEF Success
  <2>2. QED BY <1>1, <1>3, <1>4, <2>1 DEF Answered, Describes, Holds
<1>7. QED BY <1>5, <1>6 DEF AppendedResult

LEMMA ServiceAppendFacts ==
    ASSUME IInv, DInv, NEW c \in Callers, ServiceAppend(c),
           NEW s, s = CallStream(c)
    PROVE  /\ c \in AllCallers /\ c \notin AggCallers /\ TypeOK /\ StoreTypeOK
           /\ pc[c] = "append" /\ UNCHANGED <<agg, since>> /\ s \in Streams
           /\ seen[c] \in Seq(Payloads) /\ fresh[c] \in Seq(Payloads) /\ fresh[c] # <<>>
           /\ seen[c] \o fresh[c] \in Seq(Payloads)
           /\ Knows(s, seen[c], version[c], since[c])
           /\ AppendEvents(s, version[c], fresh[c]) /\ Forget(c)
           /\ AppendedResult(seen[c] \o fresh[c], fresh[c], AppendResult(s, fresh[c]),
                             Registered) \in Results
           /\ Return(c, AppendedResult(seen[c] \o fresh[c], fresh[c],
                                       AppendResult(s, fresh[c]), Registered))
<1>1. /\ c \in AllCallers /\ c \notin AggCallers /\ TypeOK /\ StoreTypeOK
      /\ pc[c] = "append" /\ UNCHANGED <<agg, since>>
  BY CallersAssumption DEF AllCallers, IInv, ServiceAppend, Appended, TypeOK, Decided
<1>2. s \in Streams
  BY <1>1, CallFacts
<1>3. seen[c] \in Seq(Payloads) /\ fresh[c] \in Batches \union {<<>>}
  BY <1>1 DEF TypeOK, ServiceTypeOK
<1>4. fresh[c] # <<>> /\ Knows(s, seen[c], version[c], since[c])
  BY <1>1 DEF DInv, ServiceDecided, IInv, ServiceKnows
<1>5. fresh[c] \in Seq(Payloads)
  BY <1>3, <1>4, BatchesAssumption
<1>6. PICK all \in Seq(Payloads) : all = seen[c] \o fresh[c]
  BY <1>3, <1>5, Concatenation
<1>7. PICK answer \in [version : Int, global : Nat] : answer = AppendResult(s, fresh[c])
  BY <1>1, <1>2, <1>5, AppendResultType
<1>8. AppendedResult(all, fresh[c], answer, Registered) \in Results
  BY <1>5, ResultsTyped DEF Outcomes
<1>9. QED BY <1>1, <1>2, <1>3, <1>4, <1>5, <1>6, <1>7, <1>8 DEF ServiceAppend, Appended

LEMMA ServiceAppendDecides ==
    ASSUME IInv, IInv', DInv, NEW c \in Callers, ServiceAppend(c) PROVE DInv'
<1>1. PICK s : s = CallStream(c)
  OBVIOUS
<1>2. /\ c \in AllCallers /\ c \notin AggCallers /\ TypeOK /\ StoreTypeOK
      /\ pc[c] = "append" /\ UNCHANGED <<agg, since>> /\ s \in Streams
      /\ seen[c] \in Seq(Payloads) /\ fresh[c] \in Seq(Payloads) /\ fresh[c] # <<>>
      /\ Knows(s, seen[c], version[c], since[c])
      /\ AppendEvents(s, version[c], fresh[c]) /\ Forget(c)
  BY <1>1, ServiceAppendFacts
<1>3. PICK all \in Seq(Payloads) : all = seen[c] \o fresh[c]
  BY <1>1, ServiceAppendFacts
<1>4. PICK r \in Results : r = AppendedResult(all, fresh[c], AppendResult(s, fresh[c]),
                                              Registered) /\ Return(c, r)
  BY <1>1, <1>3, ServiceAppendFacts
<1>5. /\ pc'[c] = "idle" /\ result'[c] = r /\ UNCHANGED cmd
      /\ \A d \in AllCallers \ {c} : pc'[d] = pc[d] /\ result'[d] = result[d]
  BY <1>2, <1>4, ReturnTypes
<1>6. \A d \in Callers \ {c} :
          seen'[d] = seen[d] /\ version'[d] = version[d] /\ fresh'[d] = fresh[d]
  BY <1>2 DEF Forget, TypeOK, ServiceTypeOK
<1>7. Grows
  BY <1>2, AppendGrows
<1>8. OthersRest(c) /\ ServiceDecided(c)'
  BY <1>2, <1>5, <1>6 DEF OthersRest, OthersWait, ServiceDecided
<1>9. Answered(c)'
  BY <1>1, <1>2, <1>3, <1>4, <1>5, AppendedAnswers
<1>10. QED BY <1>2, <1>7, <1>8, <1>9, StepDecides

LEMMA ServiceConflictDecides ==
    ASSUME IInv, IInv', DInv, NEW c \in Callers, ServiceConflict(c) PROVE DInv'
<1>1. /\ c \in AllCallers /\ c \notin AggCallers /\ TypeOK
      /\ UNCHANGED <<agg, since, streams, globalPosition>>
      /\ Return(c, Failure("conflict")) /\ Forget(c)
  BY CallersAssumption
     DEF AllCallers, IInv, ServiceConflict, Conflict, AppendConflict, storeVars
<1>2. Failure("conflict") \in Results /\ Failure("conflict").outcome = "conflict"
  BY DEF Failure, Results, Outcomes, VersionNoStream
<1>3. result'[c].outcome = "conflict"
  BY <1>1, <1>2, ReturnTypes
<1>4. Answered(c)'
  BY <1>3 DEF Answered
<1>5. \A d \in Callers \ {c} :
          seen'[d] = seen[d] /\ version'[d] = version[d] /\ fresh'[d] = fresh[d]
  BY <1>1 DEF Forget, TypeOK, ServiceTypeOK
<1>6. QED BY <1>1, <1>2, <1>4, <1>5, ReturnDecides

-----------------------------------------------------------------------------
LEMMA AggregateLoadDecides ==
    ASSUME IInv, IInv', DInv, NEW c \in AggCallers, AggregateLoad(c) PROVE DInv'
<1>1. /\ c \in AllCallers /\ c \notin Callers /\ TypeOK
      /\ pc[c] = "load" /\ Local /\ UNCHANGED <<seen, version, fresh>>
      /\ Proceed(c, "decide")
  BY AggregateFacts DEF AggregateLoad, AggLoad, serviceVars
<1>2. \A d \in AggCallers \ {c} : agg'[d] = agg[d]
  BY AggregateFacts DEF AggregateLoad, AggLoad
<1>3. pc'[c] = "decide"
  BY <1>1, ProceedTypes
<1>4. AggregateDecided(c)'
  BY <1>3 DEF AggregateDecided
<1>5. QED BY <1>1, <1>2, <1>4, ProceedDecides

LEMMA AggregateRefuseDecides ==
    ASSUME IInv, IInv', DInv, NEW c \in AggCallers, AggregateRefuse(c) PROVE DInv'
<1>1. PICK o \in {"aggregateExists", "aggregateMissing"} : Return(c, Failure(o))
  BY DEF AggregateRefuse, AggRefuse
<1>2. Failure(o) \in Results /\ Failure(o).outcome = o
  BY DEF Failure, Results, Outcomes, VersionNoStream
<1>3. /\ c \in AllCallers /\ c \notin Callers /\ TypeOK
      /\ UNCHANGED <<seen, version, fresh, streams, globalPosition, since>>
      /\ \A d \in AggCallers \ {c} : agg'[d] = agg[d]
  BY AggregateFacts
     DEF AggregateRefuse, AggRefuse, Discard, Local, serviceVars, storeVars
<1>4. result'[c] = Failure(o)
  BY <1>1, <1>2, <1>3, ReturnTypes
<1>5. Answered(c)'
  BY <1>2, <1>4 DEF Answered
<1>6. QED BY <1>1, <1>2, <1>3, <1>5, ReturnDecides

\* EnsureNew and EnsureExists test what the expected state admits: an aggregate
\* is new when no event was loaded into it.
LEMMA EnsureAdmits ==
    ASSUME IInv, NEW c \in AggCallers, pc[c] = "decide"
    PROVE  /\ EnsureFails(c) <=> ~Atomic!Admits(cmd[c], agg[c].state)
           /\ IsNewAggregate(agg[c]) <=> Len(agg[c].state) = 0
<1>1. /\ c \in AllCallers /\ TypeOK /\ cmd[c] \in DOMAIN Handlers
      /\ ExpectedOf(cmd[c]) \in ExpectedStates
  BY AggregateFacts, CallFacts
<1>2. PICK p \in Seq(Payloads) : p = agg[c].state
  BY AggregateFacts DEF Aggregates
<1>3. agg[c].originalVersion = Len(p) - 1 /\ Len(p) \in Nat
  BY <1>2, AggregateFacts DEF AggregateKnows, Knows
<1>4. IsNewAggregate(agg[c]) <=> Len(p) = 0
  BY <1>3 DEF IsNewAggregate
<1>5. p = <<>> <=> Len(p) = 0
  OBVIOUS
<1>6. QED BY <1>1, <1>2, <1>4, <1>5
          DEF EnsureFails, Atomic!Admits, ExpectedOf, ExpectedStates

LEMMA AggregateActDecides ==
    ASSUME IInv, IInv', DInv, NEW c \in AggCallers, AggregateAct(c) PROVE DInv'
<1>1. /\ c \in AllCallers /\ c \notin Callers /\ TypeOK
      /\ agg \in [AggCallers -> Aggregates] /\ AggregateKnows(c)
      /\ pc[c] = "decide" /\ Local
      /\ UNCHANGED <<seen, version, fresh, streams, globalPosition, since>>
  BY AggregateFacts DEF AggregateAct, AggAct, serviceVars, Local, storeVars
<1>2. PICK p \in Seq(Payloads), v \in Int : p = agg[c].state /\ v = agg[c].originalVersion
  <2>1. agg[c].state \in Seq(Payloads) /\ agg[c].originalVersion \in Int
    BY <1>1 DEF Aggregates
  <2>2. QED BY <2>1
<1>3. /\ agg[c].changes = <<>> /\ agg[c] \in Aggregates
      /\ Knows(CallStream(c), p, v, since[c])
  BY <1>1, <1>2 DEF AggregateKnows
<1>4. Atomic!Admits(cmd[c], p)
  BY <1>1, <1>2, EnsureAdmits DEF AggregateAct, AggAct
<1>5. ASSUME Discard(c) PROVE \A d \in AggCallers \ {c} : agg'[d] = agg[d]
  BY <1>1, <1>5 DEF Discard
<1>6. CASE Return(c, Failure("rejected")) /\ Discard(c)
  <2>1. Failure("rejected") \in Results /\ Failure("rejected").outcome = "rejected"
    BY DEF Failure, Results, Outcomes, VersionNoStream
  <2>2. result'[c].outcome = "rejected"
    BY <1>1, <1>6, <2>1, ReturnTypes
  <2>3. Answered(c)'
    BY <2>2 DEF Answered
  <2>4. QED BY <1>1, <1>5, <1>6, <2>1, <2>3, ReturnDecides
<1>7. CASE Return(c, NoOp(p, v)) /\ Discard(c)
  <2>1. NoOp(p, v) \in Results
    BY DEF NoOp, Results, Outcomes
  <2>2. result'[c] = NoOp(p, v) /\ UNCHANGED cmd
    BY <1>1, <1>7, <2>1, ReturnTypes
  <2>3. Answered(c)'
    BY <1>1, <1>3, <2>2, NoOpAnswers
  <2>4. QED BY <1>1, <1>5, <1>7, <2>1, <2>3, ReturnDecides
<1>8. CASE /\ ~Act(cmd[c], p).err /\ Act(cmd[c], p).events # <<>>
           /\ \E new \in Batches : new = Act(cmd[c], p).events
                                   /\ agg' = [agg EXCEPT ![c] = ApplyAll(agg[c], new)]
           /\ Proceed(c, "append")
  <2>1. PICK new \in Batches : new = Act(cmd[c], p).events
                               /\ agg' = [agg EXCEPT ![c] = ApplyAll(agg[c], new)]
    BY <1>8
  <2>2. new \in Seq(Payloads) /\ new # <<>>
    BY <1>8, <2>1, BatchesAssumption
  <2>3. PICK b : b = ApplyAll(agg[c], new)
    OBVIOUS
  <2>4. b.changes = new /\ Loaded(b) = p /\ b.state = p \o new
    <3>1. b.changes = new /\ Loaded(b) = p
      BY <1>2, <1>3, <2>2, <2>3, ApplyAllProperties
    <3>2. agg[c] = [state |-> p, changes |-> <<>>, originalVersion |-> v]
      BY <1>2, <1>3 DEF Aggregates
    <3>3. b.state = p \o new
      BY <2>3, <3>2 DEF ApplyAll
    <3>4. QED BY <3>1, <3>3
  <2>5. agg'[c] = b /\ \A d \in AggCallers \ {c} : agg'[d] = agg[d]
    BY <1>1, <2>1, <2>3
  <2>6. pc'[c] = "append" /\ cmd' = cmd
    BY <1>1, <1>8, ProceedTypes
  <2>7. AggregateDecided(c)'
    <3>1. /\ Loaded(agg[c])' = p /\ agg'[c].changes = new /\ cmd'[c] = cmd[c]
          /\ agg'[c].state = p \o new
      BY <2>4, <2>5, <2>6 DEF Loaded
    <3>2. Atomic!Admits(cmd[c], Loaded(agg[c]))'
      BY <1>4, <3>1 DEF Atomic!Admits
    <3>3. QED BY <1>8, <2>1, <2>2, <3>1, <3>2 DEF AggregateDecided
  <2>8. QED BY <1>1, <1>8, <2>5, <2>7, ProceedDecides
<1>9. QED BY <1>2, <1>6, <1>7, <1>8 DEF AggregateAct, AggAct

LEMMA AggregateStoreFacts ==
    ASSUME IInv, DInv, NEW c \in AggCallers, AggregateStore(c),
           NEW s, s = CallStream(c)
    PROVE  /\ c \in AllCallers /\ c \notin Callers /\ TypeOK /\ StoreTypeOK
           /\ pc[c] = "append" /\ UNCHANGED <<seen, version, fresh, since>> /\ s \in Streams
           /\ Loaded(agg[c]) \in Seq(Payloads)
           /\ agg[c].changes \in Seq(Payloads) /\ agg[c].changes # <<>>
           /\ agg[c].state \in Seq(Payloads)
           /\ agg[c].state = Loaded(agg[c]) \o agg[c].changes
           /\ Knows(s, Loaded(agg[c]), agg[c].originalVersion, since[c])
           /\ AppendEvents(s, agg[c].originalVersion, agg[c].changes)
           /\ AppendedResult(agg[c].state, agg[c].changes,
                             AppendResult(s, agg[c].changes), Registered) \in Results
           /\ Return(c, AppendedResult(agg[c].state, agg[c].changes,
                                       AppendResult(s, agg[c].changes), Registered))
           /\ \A d \in AggCallers \ {c} : agg'[d] = agg[d]
<1>1. /\ c \in AllCallers /\ c \notin Callers /\ TypeOK /\ StoreTypeOK
      /\ agg \in [AggCallers -> Aggregates] /\ AggregateKnows(c)
      /\ pc[c] = "append" /\ UNCHANGED <<seen, version, fresh, since>>
      /\ agg' = [agg EXCEPT ![c] = ClearChanges(agg[c])]
  BY AggregateFacts DEF AggregateStore, AggStored, serviceVars, Decided
<1>2. s \in Streams
  BY <1>1, CallFacts
<1>3. /\ agg[c] \in Aggregates /\ Len(agg[c].changes) <= Len(agg[c].state)
      /\ Knows(s, Loaded(agg[c]), agg[c].originalVersion, since[c])
  BY <1>1 DEF AggregateKnows
<1>4. /\ Loaded(agg[c]) \in Seq(Payloads) /\ agg[c].changes \in Seq(Payloads)
      /\ agg[c].state \in Seq(Payloads)
  BY <1>3, LoadedProperties DEF Aggregates
<1>5. agg[c].changes # <<>> /\ agg[c].state = Loaded(agg[c]) \o agg[c].changes
  BY <1>1 DEF DInv, AggregateDecided
<1>6. AppendEvents(s, agg[c].originalVersion, agg[c].changes)
  BY DEF AggregateStore, ExpectedByAggregate, VersionNoStream
<1>7. PICK answer \in [version : Int, global : Nat] :
          answer = AppendResult(s, agg[c].changes)
  BY <1>1, <1>2, <1>4, AppendResultType
<1>8. AppendedResult(agg[c].state, agg[c].changes, answer, Registered) \in Results
  BY <1>4, ResultsTyped DEF Outcomes
<1>9. Return(c, AppendedResult(agg[c].state, agg[c].changes, answer, Registered))
  BY <1>7 DEF AggregateStore, AggStored
<1>10. QED BY <1>1, <1>2, <1>3, <1>4, <1>5, <1>6, <1>7, <1>8, <1>9

LEMMA AggregateStoreDecides ==
    ASSUME IInv, IInv', DInv, NEW c \in AggCallers, AggregateStore(c) PROVE DInv'
<1>1. PICK s : s = CallStream(c)
  OBVIOUS
<1>2. /\ c \in AllCallers /\ c \notin Callers /\ TypeOK /\ StoreTypeOK
      /\ pc[c] = "append" /\ UNCHANGED <<seen, version, fresh, since>> /\ s \in Streams
      /\ \A d \in AggCallers \ {c} : agg'[d] = agg[d]
  BY <1>1, AggregateStoreFacts
<1>3. PICK base \in Seq(Payloads), new \in Seq(Payloads), all \in Seq(Payloads) :
          /\ base = Loaded(agg[c]) /\ new = agg[c].changes /\ all = agg[c].state
          /\ new # <<>> /\ all = base \o new
          /\ Knows(s, base, agg[c].originalVersion, since[c])
          /\ AppendEvents(s, agg[c].originalVersion, new)
  BY <1>1, AggregateStoreFacts
<1>4. PICK r \in Results : r = AppendedResult(all, new, AppendResult(s, new), Registered)
                           /\ Return(c, r)
  BY <1>1, <1>3, AggregateStoreFacts
<1>5. /\ pc'[c] = "idle" /\ result'[c] = r /\ UNCHANGED cmd
      /\ \A d \in AllCallers \ {c} : pc'[d] = pc[d] /\ result'[d] = result[d]
  BY <1>2, <1>4, ReturnTypes
<1>6. Grows
  BY <1>2, <1>3, AppendGrows
<1>7. OthersRest(c) /\ AggregateDecided(c)'
  BY <1>2, <1>5 DEF OthersRest, OthersWait, AggregateDecided
<1>8. Answered(c)'
  BY <1>1, <1>2, <1>3, <1>4, <1>5, AppendedAnswers
<1>9. QED BY <1>2, <1>6, <1>7, <1>8, StepDecides

LEMMA AggregateConflictDecides ==
    ASSUME IInv, IInv', DInv, NEW c \in AggCallers, AggregateConflict(c) PROVE DInv'
<1>1. /\ c \in AllCallers /\ c \notin Callers /\ TypeOK
      /\ UNCHANGED <<seen, version, fresh, since, streams, globalPosition>>
      /\ Return(c, Failure("conflict"))
      /\ \A d \in AggCallers \ {c} : agg'[d] = agg[d]
  BY AggregateFacts
     DEF AggregateConflict, AggConflict, AppendConflict, Discard, storeVars, serviceVars
<1>2. Failure("conflict") \in Results /\ Failure("conflict").outcome = "conflict"
  BY DEF Failure, Results, Outcomes, VersionNoStream
<1>3. result'[c].outcome = "conflict"
  BY <1>1, <1>2, ReturnTypes
<1>4. Answered(c)'
  BY <1>3 DEF Answered
<1>5. QED BY <1>1, <1>2, <1>4, ReturnDecides

-----------------------------------------------------------------------------
LEMMA InitDecides == Init => DInv
<1>1. Failure("none").outcome = "none"
  BY DEF Failure
<1>2. \A c \in Callers \union AggCallers : c \in AllCallers
  BY DEF AllCallers
<1>3. QED BY <1>1, <1>2
        DEF Init, CallsInit, DInv, ServiceDecided, AggregateDecided, Answered

LEMMA NextDecides == IInv /\ DInv /\ [Next]_systemVars => DInv'
<1> SUFFICES ASSUME IInv, DInv, [Next]_systemVars PROVE DInv'
  OBVIOUS
<1>1. IInv'
  BY NextPreserves
<1>2. CASE UNCHANGED systemVars
  <2>1. ASSUME NEW c \in Callers PROVE ServiceDecided(c)'
    BY <1>2 DEF DInv, ServiceDecided, Atomic!Admits, systemVars, callVars, serviceVars
  <2>2. ASSUME NEW c \in AggCallers PROVE AggregateDecided(c)'
    BY <1>2 DEF DInv, AggregateDecided, Atomic!Admits, Loaded, systemVars, callVars
  <2>3. ASSUME NEW c \in AllCallers PROVE Answered(c)'
    BY <1>2 DEF DInv, Answered, Holds, CallStream, systemVars, callVars, storeVars
  <2>4. QED BY <2>1, <2>2, <2>3 DEF DInv
<1>3. ASSUME NEW c \in Callers, ServiceCall(c) PROVE DInv'
  <2>1. PICK k \in Commands : Handle(c, k) /\ Called(c, k) /\ UNCHANGED agg
    BY <1>3 DEF ServiceCall
  <2>2. BeginCall(c, k) /\ UNCHANGED <<seen, version, fresh, agg>> /\ c \in AllCallers
    BY <2>1 DEF Handle, serviceVars, AllCallers
  <2>3. QED BY <1>1, <2>1, <2>2, CalledDecides
<1>4. ASSUME NEW c \in AggCallers, AggregateCall(c) PROVE DInv'
  <2>1. PICK k \in Commands : AggHandle(c, k) /\ Called(c, k) /\ UNCHANGED serviceVars
    BY <1>4 DEF AggregateCall
  <2>2. BeginCall(c, k) /\ UNCHANGED <<seen, version, fresh, agg>> /\ c \in AllCallers
    BY <2>1 DEF AggHandle, serviceVars, AllCallers
  <2>3. QED BY <1>1, <2>1, <2>2, CalledDecides
<1>5. ASSUME NEW c \in Callers, ServiceStep(c) PROVE DInv'
  BY <1>1, <1>5, ServiceLoadDecides, ServiceDecideDecides, ServiceAppendDecides,
     ServiceConflictDecides DEF ServiceStep
<1>6. ASSUME NEW c \in AggCallers, AggregateStep(c) PROVE DInv'
  BY <1>1, <1>6, AggregateLoadDecides, AggregateRefuseDecides, AggregateActDecides,
     AggregateStoreDecides, AggregateConflictDecides DEF AggregateStep
<1>7. QED BY <1>2, <1>3, <1>4, <1>5, <1>6 DEF Next

LEMMA CallsDecide == Spec => [](IInv /\ DInv)
BY InitInvariant, NextPreserves, InitDecides, NextDecides, PTL DEF Spec

\* The state, the version and the global position of an answer describe the stream
\* right after the call's own events, and whoever appends later changes none of it.
THEOREM AnswersDescribeTheStream == Spec => []AnswersAreCurrent
<1>1. DInv => AnswersAreCurrent
  BY DEF DInv, Answered, AnswersAreCurrent
<1>2. QED BY <1>1, CallsDecide, PTL

-----------------------------------------------------------------------------
\* Sequences of one length with the same elements are one.
LEMMA SameSequence ==
    ASSUME NEW S, NEW a \in Seq(S), NEW b \in Seq(S), Len(a) = Len(b),
           \A i \in 1..Len(a) : a[i] = b[i]
    PROVE  a = b
<1>1. a = [i \in 1..Len(a) |-> a[i]] /\ b = [i \in 1..Len(b) |-> b[i]]
  OBVIOUS
<1>2. QED BY <1>1

\* The log the callers see, and its prefixes that a call knows.
LEMMA LogSeen ==
    ASSUME StoreTypeOK, NEW s \in Streams
    PROVE  /\ logSeen[s] = PayloadsOf(streams[s])
           /\ logSeen[s] \in Seq(Payloads) /\ Len(logSeen[s]) = Len(streams[s])
           /\ \A i \in 1..Len(streams[s]) : logSeen[s][i] = streams[s][i].payload
<1>1. PICK q \in Seq(StreamEvents) : q = streams[s]
  BY DEF StoreTypeOK
<1>2. Len(q) \in Nat /\ \A i \in 1..Len(q) : q[i].payload \in Payloads
  <2>1. Len(q) \in Nat /\ \A i \in 1..Len(q) : q[i] \in StreamEvents
    OBVIOUS
  <2>2. QED BY <2>1 DEF StreamEvents
<1>3. PayloadsOf(q) = [i \in 1..Len(q) |-> q[i].payload]
  BY DEF PayloadsOf
<1>4. PayloadsOf(q) \in Seq(Payloads) /\ Len(PayloadsOf(q)) = Len(q)
      /\ \A i \in 1..Len(q) : PayloadsOf(q)[i] = q[i].payload
  BY <1>2, <1>3
<1>5. logSeen[s] = PayloadsOf(q)
  BY <1>1 DEF logSeen
<1>6. QED BY <1>1, <1>4, <1>5

LEMMA KnownPrefix ==
    ASSUME StoreTypeOK, NEW s \in Streams, NEW p \in Seq(Payloads), Holds(s, 0, p)
    PROVE  SubSeq(logSeen[s], 1, Len(p)) = p /\ Len(p) \in 0..Len(logSeen[s])
<1>1. PICK q \in Seq(Payloads) : /\ q = logSeen[s] /\ Len(q) = Len(streams[s])
                                 /\ \A i \in 1..Len(q) : q[i] = streams[s][i].payload
  BY LogSeen
<1>2. PICK n \in 0..Len(q) : n = Len(p)
  BY <1>1 DEF Holds
<1>3. PICK r \in Seq(Payloads) : r = SubSeq(q, 1, n) /\ Len(r) = n
                                 /\ \A i \in 1..n : r[i] = q[i]
  <2>1. /\ SubSeq(q, 1, n) \in Seq(Payloads) /\ Len(SubSeq(q, 1, n)) = n
        /\ \A i \in 1..n : SubSeq(q, 1, n)[i] = q[i]
    BY ONLY q \in Seq(Payloads), n \in 0..Len(q), PrefixProperties
  <2>2. QED BY <2>1, Zenon
<1>4. ASSUME NEW i \in 1..Len(p) PROVE r[i] = p[i]
  <2>1. streams[s][0 + i].payload = p[i] /\ 0 + i = i /\ i \in 1..Len(q)
    BY <1>2 DEF Holds
  <2>2. QED BY <1>1, <1>2, <1>3, <2>1
<1>5. r = p
  <2>1. Len(r) = Len(p) /\ \A i \in 1..Len(r) : r[i] = p[i]
    BY <1>2, <1>3, <1>4
  <2>2. QED BY ONLY r \in Seq(Payloads), p \in Seq(Payloads), <2>1, SameSequence
<1>6. QED BY <1>1, <1>2, <1>3, <1>5

LEMMA Waiting ==
    ASSUME TypeOK, NEW c \in AllCallers, pc[c] # "idle"
    PROVE  /\ waitingFor[c] = cmd[c] /\ cmd[c] # NoCommand
           /\ waitingSince[c] = since[c] /\ since[c] \in Nat
           /\ Handlers[cmd[c]].stream = CallStream(c) /\ CallStream(c) \in Streams
<1>1. cmd[c] \in DOMAIN Handlers /\ CallStream(c) \in Streams
  BY CallFacts
<1>2. cmd[c] # NoCommand
  BY <1>1, HandlersAssumption
<1>3. since[c] \in Nat
  BY DEF TypeOK
<1>4. QED BY <1>1, <1>2, <1>3 DEF waitingFor, waitingSince, CallStream, StreamOf

\* What the caller gets when Handle returns r.
AnswerOf(r) == [outcome |-> r.outcome, state |-> r.state, version |-> r.version]

LEMMA ReturnReplies ==
    ASSUME TypeOK, NEW c \in AllCallers, NEW r \in Results, Return(c, r), UNCHANGED since
    PROVE  Atomic!Reply(c, AnswerOf(r))
<1>1. /\ pc'[c] = "idle" /\ result'[c] = r /\ UNCHANGED cmd
      /\ \A d \in AllCallers \ {c} : pc'[d] = pc[d] /\ result'[d] = result[d]
  BY ReturnTypes
<1>2. waitingFor' = [waitingFor EXCEPT ![c] = NoCommand]
  BY <1>1 DEF waitingFor
<1>3. waitingSince' = [waitingSince EXCEPT ![c] = 0]
  BY <1>1 DEF waitingSince
<1>4. answered' = [answered EXCEPT ![c] = AnswerOf(r)]
  BY <1>1 DEF answered, AnswerOf
<1>5. QED BY <1>2, <1>3, <1>4 DEF Atomic!Reply

LEMMA AnswersMatch ==
    /\ \A o : AnswerOf(Failure(o)) = Atomic!NoAnswer(o)
    /\ \A p : AnswerOf(NoOp(p, Len(p) - 1)) = Atomic!Answer("noop", p)
<1>1. Len(<<>>) - 1 = -1
  OBVIOUS
<1>2. QED BY <1>1 DEF AnswerOf, Failure, NoOp, Atomic!NoAnswer, Atomic!Answer, VersionNoStream

\* A call that returns without effect observes the prefix it had loaded.
LEMMA ReturnObserves ==
    ASSUME IInv, NEW c \in AllCallers, pc[c] # "idle", UNCHANGED <<streams, since>>,
           NEW p \in Seq(Payloads), Holds(CallStream(c), 0, p), since[c] <= Len(p),
           NEW r \in Results, Return(c, r),
           \/ /\ ~Atomic!Admits(cmd[c], p)
              /\ \E e \in {"streamNotFound", "streamExists",
                           "aggregateExists", "aggregateMissing"} :
                    /\ (e \in {"streamExists", "aggregateExists"}) = (Len(p) > 0)
                    /\ r = Failure(e)
           \/ /\ Atomic!Admits(cmd[c], p) /\ Act(cmd[c], p).err
              /\ r = Failure("rejected")
           \/ /\ Atomic!Admits(cmd[c], p) /\ ~Act(cmd[c], p).err
              /\ Act(cmd[c], p).events = <<>>
              /\ r = NoOp(p, Len(p) - 1)
    PROVE  Atomic!Observe(c)
<1>1. TypeOK /\ StoreTypeOK
  BY DEF IInv, TypeOK
<1>2. /\ waitingFor[c] = cmd[c] /\ cmd[c] # NoCommand
      /\ waitingSince[c] = since[c] /\ since[c] \in Nat
      /\ Handlers[cmd[c]].stream = CallStream(c) /\ CallStream(c) \in Streams
  BY <1>1, Waiting
<1>3. PICK n \in waitingSince[c]..Len(logSeen[CallStream(c)]) :
          n = Len(p) /\ SubSeq(logSeen[CallStream(c)], 1, n) = p
  <2>1. /\ SubSeq(logSeen[CallStream(c)], 1, Len(p)) = p
        /\ Len(p) \in 0..Len(logSeen[CallStream(c)])
    BY <1>1, <1>2, KnownPrefix
  <2>2. PICK l \in Nat : l = Len(p)
    OBVIOUS
  <2>3. PICK m : m = Len(logSeen[CallStream(c)])
    OBVIOUS
  <2>4. m \in Nat
    BY <1>1, <1>2, <2>3, LogSeen
  <2>5. l \in waitingSince[c]..m
    BY <1>2, <2>1, <2>2, <2>3, <2>4
  <2>6. QED BY <2>1, <2>2, <2>3, <2>5
<1>4. Atomic!Reply(c, AnswerOf(r))
  BY <1>1, ReturnReplies
<1>5. logSeen' = logSeen
  BY DEF logSeen
<1>6. \/ /\ ~Atomic!Admits(cmd[c], p)
         /\ \E e \in {"streamNotFound", "streamExists",
                      "aggregateExists", "aggregateMissing"} :
               /\ (e \in {"streamExists", "aggregateExists"}) = (n > 0)
               /\ Atomic!Reply(c, Atomic!NoAnswer(e))
      \/ /\ Atomic!Admits(cmd[c], p) /\ Act(cmd[c], p).err
         /\ Atomic!Reply(c, Atomic!NoAnswer("rejected"))
      \/ /\ Atomic!Admits(cmd[c], p) /\ ~Act(cmd[c], p).err
         /\ Act(cmd[c], p).events = <<>>
         /\ Atomic!Reply(c, Atomic!Answer("noop", p))
  BY <1>3, <1>4, AnswersMatch
<1>7. QED BY <1>2, <1>3, <1>5, <1>6 DEF Atomic!Observe

\* The accepted append of a call commits its command on the whole stream.
LEMMA AppendCommits ==
    ASSUME IInv, NEW c \in AllCallers, pc[c] # "idle", NEW s \in Streams,
           s = CallStream(c), UNCHANGED since,
           NEW base \in Seq(Payloads), NEW new \in Seq(Payloads), new # <<>>, NEW v,
           Knows(s, base, v, since[c]), AppendEvents(s, v, new),
           Atomic!Admits(cmd[c], base), ~Act(cmd[c], base).err,
           Act(cmd[c], base).events = new,
           NEW all \in Seq(Payloads), all = base \o new,
           NEW r \in Results, Return(c, r),
           r = AppendedResult(all, new, AppendResult(s, new), Registered)
    PROVE  Atomic!Commit(c)
<1>1. TypeOK /\ StoreTypeOK
  BY DEF IInv, TypeOK
<1>2. /\ waitingFor[c] = cmd[c] /\ cmd[c] # NoCommand /\ Handlers[cmd[c]].stream = s
  BY <1>1, Waiting
<1>3. PICK a : a = AppendResult(s, new)
  OBVIOUS
<1>4. /\ PayloadsOf(streams[s]) = base /\ PayloadsOf(streams'[s]) = all
      /\ Describes(s, all, a.version, a.global)'
  <2>1. PICK from : Knows(s, base, v, from)
    OBVIOUS
  <2>2. PayloadsOf(streams[s]) = base
    BY ONLY <1>1, <1>3, <2>1, s \in Streams, base \in Seq(Payloads),
            new \in Seq(Payloads), new # <<>>, AppendEvents(s, v, new),
            all = base \o new, AppendAnswers
  <2>3. PayloadsOf(streams'[s]) = all
    BY ONLY <1>1, <1>3, <2>1, s \in Streams, base \in Seq(Payloads),
            new \in Seq(Payloads), new # <<>>, AppendEvents(s, v, new),
            all = base \o new, AppendAnswers
  <2>4. Describes(s, all, a.version, a.global)'
    BY ONLY <1>1, <1>3, <2>1, s \in Streams, base \in Seq(Payloads),
            new \in Seq(Payloads), new # <<>>, AppendEvents(s, v, new),
            all = base \o new, AppendAnswers
  <2>5. QED BY <2>2, <2>3, <2>4
<1>5. logSeen[s] = base
  BY <1>4 DEF logSeen
<1>6. logSeen' = [logSeen EXCEPT ![s] = base \o new]
  <2>1. \A t \in Streams \ {s} : streams'[t] = streams[t]
    BY <1>1, AppendWrites
  <2>2. PayloadsOf(streams'[s]) = base \o new
    BY <1>4
  <2>3. QED BY <2>1, <2>2 DEF logSeen
<1>7. Atomic!Reply(c, AnswerOf(r))
  BY <1>1, ReturnReplies
<1>8. AnswerOf(r) = IF \A i \in 1..Len(new) : new[i] \in Registered
                    THEN Atomic!Answer("ok", base \o new)
                    ELSE Atomic!NoAnswer("typeUnknown")
  <2>1. CASE \A i \in 1..Len(new) : new[i] \in Registered
    <3>1. r = Success(all, new, a)
      BY <1>3, <2>1 DEF AppendedResult
    <3>2. a.version = Len(all) - 1
      BY <1>4 DEF Describes
    <3>3. AnswerOf(r) = [outcome |-> "ok", state |-> all, version |-> Len(all) - 1]
      BY <3>1, <3>2 DEF AnswerOf, Success
    <3>4. QED BY <2>1, <3>3 DEF Atomic!Answer
  <2>2. CASE ~(\A i \in 1..Len(new) : new[i] \in Registered)
    <3>1. r = Failure("typeUnknown")
      BY <2>2 DEF AppendedResult
    <3>2. QED BY <2>2, <3>1, AnswersMatch
  <2>3. QED BY <2>1, <2>2
<1>9. QED BY <1>2, <1>5, <1>6, <1>7, <1>8 DEF Atomic!Commit

LEMMA ConflictGivesUp ==
    ASSUME IInv, IInv', NEW c \in AllCallers, pc[c] # "idle",
           UNCHANGED <<streams, since>>, Return(c, Failure("conflict"))
    PROVE  Atomic!GiveUp(c)
<1>1. TypeOK /\ StoreTypeOK
  BY DEF IInv, TypeOK
<1>2. Failure("conflict") \in Results /\ Failure("conflict").outcome = "conflict"
  BY DEF Failure, Results, Outcomes, VersionNoStream
<1>3. result'[c].outcome = "conflict" /\ cmd' = cmd
  BY <1>1, <1>2, ReturnTypes
<1>4. Len(streams[CallStream(c)]) > since[c]
  BY <1>3 DEF IInv, NotSpurious, CallStream
<1>5. /\ waitingFor[c] = cmd[c] /\ cmd[c] # NoCommand /\ waitingSince[c] = since[c]
      /\ Handlers[cmd[c]].stream = CallStream(c) /\ CallStream(c) \in Streams
  BY <1>1, Waiting
<1>6. Len(logSeen[CallStream(c)]) = Len(streams[CallStream(c)])
  BY <1>1, <1>5, LogSeen
<1>7. Atomic!Reply(c, Atomic!NoAnswer("conflict"))
  BY <1>1, <1>2, ReturnReplies, AnswersMatch
<1>8. logSeen' = logSeen
  BY DEF logSeen
<1>9. QED BY <1>4, <1>5, <1>6, <1>7, <1>8 DEF Atomic!GiveUp

\* A step inside a call: the callers see nothing of it.
LEMMA ProceedIsHidden ==
    ASSUME TypeOK, NEW c \in AllCallers, pc[c] # "idle", NEW step \in {"decide", "append"},
           Proceed(c, step), UNCHANGED <<streams, since>>
    PROVE  UNCHANGED Atomic!abstractVars
<1>1. /\ pc'[c] = step /\ UNCHANGED <<cmd, result>>
      /\ \A d \in AllCallers \ {c} : pc'[d] = pc[d]
  BY ProceedTypes
<1>2. \A d \in AllCallers : pc'[d] = "idle" <=> pc[d] = "idle"
  BY <1>1
<1>3. waitingFor' = waitingFor
  BY <1>1, <1>2 DEF waitingFor
<1>4. waitingSince' = waitingSince
  BY <1>1, <1>2 DEF waitingSince
<1>5. answered' = answered /\ logSeen' = logSeen
  BY <1>1 DEF answered, logSeen
<1>6. QED BY <1>3, <1>4, <1>5 DEF Atomic!abstractVars

LEMMA CallInvokes ==
    ASSUME TypeOK, NEW c \in AllCallers, NEW k \in Commands, BeginCall(c, k), Called(c, k)
    PROVE  Atomic!Invoke(c, k)
<1>1. /\ cmd'[c] = k /\ pc[c] = "idle"
      /\ k \in DOMAIN Handlers => pc'[c] = "load" /\ result'[c] = Failure("pending")
      /\ k \notin DOMAIN Handlers =>
           pc'[c] = "idle" /\ result'[c] = Failure("handlerNotFound")
      /\ \A d \in AllCallers \ {c} :
           pc'[d] = pc[d] /\ cmd'[d] = cmd[d] /\ result'[d] = result[d]
  BY BeginTypes DEF BeginCall, TypeOK, CallsTypeOK
<1>2. waitingFor[c] = NoCommand
  BY <1>1 DEF waitingFor
<1>3. logSeen' = logSeen
  BY DEF Called, storeVars, logSeen
<1>4. CASE k \in DOMAIN Handlers
  <2>1. StreamOf(k) \in Streams /\ StreamOf(k) = Handlers[k].stream
    BY <1>4, HandlersAssumption DEF StreamOf
  <2>2. Len(logSeen[Handlers[k].stream]) = Len(streams[StreamOf(k)])
    BY <2>1, LogSeen DEF TypeOK
  <2>3. since' = [since EXCEPT ![c] = Len(streams[StreamOf(k)])]
        /\ since \in [AllCallers -> Nat]
    BY <1>4 DEF Called, TypeOK
  <2>4. waitingFor' = [waitingFor EXCEPT ![c] = k]
    BY <1>1, <1>4 DEF waitingFor
  <2>5. waitingSince' = [waitingSince EXCEPT ![c] = Len(logSeen[Handlers[k].stream])]
    BY <1>1, <1>4, <2>2, <2>3 DEF waitingSince
  <2>6. answered' = [answered EXCEPT ![c] = Atomic!NoAnswer("pending")]
    <3>1. answered' = [answered EXCEPT ![c] = AnswerOf(Failure("pending"))]
      BY <1>1, <1>4 DEF answered, AnswerOf
    <3>2. QED BY <3>1, AnswersMatch
  <2>7. QED BY <1>2, <1>3, <1>4, <2>4, <2>5, <2>6 DEF Atomic!Invoke
<1>5. CASE k \notin DOMAIN Handlers
  <2>1. since' = since
    BY <1>5 DEF Called
  <2>2. \A d \in AllCallers : pc'[d] = pc[d] /\ (pc[d] # "idle" => cmd'[d] = cmd[d])
    BY <1>1, <1>5
  <2>3. waitingFor' = waitingFor /\ waitingSince' = waitingSince
    BY <2>1, <2>2 DEF waitingFor, waitingSince
  <2>4. answered' = [answered EXCEPT ![c] = Atomic!NoAnswer("handlerNotFound")]
    <3>1. answered' = [answered EXCEPT ![c] = AnswerOf(Failure("handlerNotFound"))]
      BY <1>1, <1>5 DEF answered, AnswerOf
    <3>2. QED BY <3>1, AnswersMatch
  <2>5. QED BY <1>2, <1>3, <1>5, <2>3, <2>4 DEF Atomic!Invoke
<1>6. QED BY <1>4, <1>5

-----------------------------------------------------------------------------
LEMMA ServiceLoadMaps ==
    ASSUME IInv, DInv, NEW c \in Callers, ServiceLoad(c)
    PROVE  Atomic!Observe(c) \/ UNCHANGED Atomic!abstractVars
<1> DEFINE s == CallStream(c)
           r == LoadState(StreamFound(s), streams[s], ExpectedOf(cmd[c]))
<1>1. /\ c \in AllCallers /\ TypeOK /\ StoreTypeOK
      /\ pc[c] = "load" /\ UNCHANGED <<streams, since>>
  BY DEF AllCallers, IInv, TypeOK, ServiceLoad, Load, Local, storeVars
<1>2. /\ cmd[c] \in DOMAIN Handlers /\ s \in Streams
      /\ streams[s] \in Seq(StreamEvents) /\ Len(streams[s]) \in Nat
      /\ StreamFound(s) \in BOOLEAN /\ (StreamFound(s) <=> Len(streams[s]) > 0)
      /\ ExpectedOf(cmd[c]) \in ExpectedStates
  BY <1>1, CallFacts
<1>3. CASE r.err = "none"
  <2>1. Proceed(c, "decide")
    BY <1>3 DEF ServiceLoad, Load
  <2>2. QED BY <1>1, <2>1, ProceedIsHidden
<1>4. CASE r.err # "none"
  <2>1. Return(c, Failure(r.err))
    BY <1>4 DEF ServiceLoad, Load
  <2>2. PICK p \in Seq(Payloads) :
            /\ p = PayloadsOf(streams[s]) /\ Len(p) = Len(streams[s])
            /\ \A i \in 1..Len(streams[s]) : p[i] = streams[s][i].payload
    BY <1>1, <1>2, LogSeen
  <2>3. /\ ~Atomic!Admits(cmd[c], p)
        /\ r.err = (IF Len(p) > 0 THEN "streamExists" ELSE "streamNotFound")
    BY <1>2, <1>4, <2>2, LoadStateAdmits
  <2>4. PICK e : e = r.err
    OBVIOUS
  <2>5. /\ e \in {"streamNotFound", "streamExists",
                  "aggregateExists", "aggregateMissing"}
        /\ (e \in {"streamExists", "aggregateExists"}) = (Len(p) > 0)
    BY <2>3, <2>4
  <2>6. Failure(e) \in Results /\ Return(c, Failure(e))
    BY <2>1, <2>4, <2>5 DEF Failure, Results, Outcomes, VersionNoStream
  <2>7. Holds(s, 0, p) /\ since[c] <= Len(p)
    <3>1. since[c] <= Len(streams[s])
      BY <1>1 DEF IInv, Waits
    <3>2. ASSUME NEW i \in 1..Len(p) PROVE streams[s][0 + i].payload = p[i]
      <4>1. 0 + i = i
        OBVIOUS
      <4>2. QED BY <2>2, <4>1
    <3>3. QED BY <1>2, <2>2, <3>1, <3>2 DEF Holds
  <2>8. Atomic!Observe(c)
    BY <1>1, <2>3, <2>5, <2>6, <2>7, ReturnObserves
  <2>9. QED BY <2>8
<1>5. QED BY <1>3, <1>4

LEMMA ServiceDecideMaps ==
    ASSUME IInv, DInv, NEW c \in Callers, ServiceDecide(c)
    PROVE  Atomic!Observe(c) \/ UNCHANGED Atomic!abstractVars
<1>1. /\ c \in AllCallers /\ TypeOK
      /\ pc[c] = "decide" /\ UNCHANGED <<streams, since>>
  BY DEF AllCallers, IInv, ServiceDecide, Decide, Local, storeVars
<1>2. PICK p \in Seq(Payloads) : p = seen[c]
  BY <1>1 DEF TypeOK, ServiceTypeOK
<1>3. /\ Atomic!Admits(cmd[c], p) /\ Holds(CallStream(c), 0, p) /\ since[c] <= Len(p)
      /\ version[c] = Len(p) - 1
  BY <1>1, <1>2 DEF DInv, ServiceDecided, IInv, ServiceKnows, Knows
<1>4. CASE Act(cmd[c], p).err /\ Return(c, Failure("rejected"))
  <2>1. Failure("rejected") \in Results
    BY DEF Failure, Results, Outcomes, VersionNoStream
  <2>2. Atomic!Observe(c)
    BY <1>1, <1>3, <1>4, <2>1, ReturnObserves
  <2>3. QED BY <2>2
<1>5. CASE /\ ~Act(cmd[c], p).err /\ Act(cmd[c], p).events = <<>>
           /\ Return(c, NoOp(p, Len(p) - 1))
  <2>1. NoOp(p, Len(p) - 1) \in Results
    BY DEF NoOp, Results, Outcomes
  <2>2. Atomic!Observe(c)
    BY <1>1, <1>3, <1>5, <2>1, ReturnObserves
  <2>3. QED BY <2>2
<1>6. CASE Proceed(c, "append")
  BY <1>1, <1>6, ProceedIsHidden
<1>7. QED BY <1>2, <1>3, <1>4, <1>5, <1>6 DEF ServiceDecide, Decide

LEMMA ServiceAppendMaps ==
    ASSUME IInv, DInv, NEW c \in Callers, ServiceAppend(c)
    PROVE  Atomic!Commit(c)
<1>1. PICK s : s = CallStream(c)
  OBVIOUS
<1>2. c \in AllCallers /\ pc[c] = "append" /\ UNCHANGED since /\ s \in Streams
  BY <1>1, ServiceAppendFacts
<1>3. PICK base \in Seq(Payloads), new \in Seq(Payloads), all \in Seq(Payloads) :
          /\ base = seen[c] /\ new = fresh[c] /\ all = base \o new
          /\ new # <<>> /\ Knows(s, base, version[c], since[c])
          /\ AppendEvents(s, version[c], new)
  BY <1>1, ServiceAppendFacts
<1>4. PICK r \in Results : r = AppendedResult(all, new, AppendResult(s, new), Registered)
                           /\ Return(c, r)
  BY <1>1, <1>3, ServiceAppendFacts
<1>5. /\ Atomic!Admits(cmd[c], base) /\ ~Act(cmd[c], base).err
      /\ Act(cmd[c], base).events = new
  BY <1>2, <1>3 DEF DInv, ServiceDecided
<1>6. QED BY <1>1, <1>2, <1>3, <1>4, <1>5, AppendCommits

LEMMA AggregateRefuseMaps ==
    ASSUME IInv, NEW c \in AggCallers, AggregateRefuse(c)
    PROVE  Atomic!Observe(c)
<1>1. /\ c \in AllCallers /\ TypeOK /\ AggregateKnows(c)
      /\ pc[c] = "decide" /\ UNCHANGED <<streams, since>> /\ EnsureFails(c)
  BY AggregateFacts DEF AggregateRefuse, AggRefuse, Local, storeVars
<1>2. PICK p \in Seq(Payloads) : p = agg[c].state
  BY AggregateFacts DEF Aggregates
<1>3. /\ ~Atomic!Admits(cmd[c], p) /\ (IsNewAggregate(agg[c]) <=> Len(p) = 0)
      /\ Holds(CallStream(c), 0, p) /\ since[c] <= Len(p) /\ Len(p) \in Nat
  BY <1>1, <1>2, EnsureAdmits DEF AggregateKnows, Knows
<1>4. PICK e : /\ e = IF ExpectedOf(cmd[c]) = "IsNew" THEN "aggregateExists"
                                                      ELSE "aggregateMissing"
               /\ Return(c, Failure(e))
  BY DEF AggregateRefuse, AggRefuse
<1>5. /\ e \in {"aggregateExists", "aggregateMissing"}
      /\ (e = "aggregateExists") <=> (Len(p) > 0)
  BY <1>1, <1>3, <1>4 DEF EnsureFails
<1>6. /\ e \in {"streamNotFound", "streamExists",
                "aggregateExists", "aggregateMissing"}
      /\ (e \in {"streamExists", "aggregateExists"}) = (Len(p) > 0)
  BY <1>5
<1>7. Failure(e) \in Results
  BY <1>5 DEF Failure, Results, Outcomes, VersionNoStream
<1>8. QED BY <1>1, <1>3, <1>4, <1>6, <1>7, ReturnObserves

LEMMA AggregateActMaps ==
    ASSUME IInv, NEW c \in AggCallers, AggregateAct(c)
    PROVE  Atomic!Observe(c) \/ UNCHANGED Atomic!abstractVars
<1>1. /\ c \in AllCallers /\ TypeOK /\ AggregateKnows(c)
      /\ pc[c] = "decide" /\ UNCHANGED <<streams, since>> /\ ~EnsureFails(c)
  BY AggregateFacts DEF AggregateAct, AggAct, Local, storeVars
<1>2. PICK p \in Seq(Payloads) : p = agg[c].state
  BY AggregateFacts DEF Aggregates
<1>3. /\ Atomic!Admits(cmd[c], p) /\ agg[c].originalVersion = Len(p) - 1
      /\ Holds(CallStream(c), 0, p) /\ since[c] <= Len(p)
  BY <1>1, <1>2, EnsureAdmits DEF AggregateKnows, Knows
<1>4. CASE Act(cmd[c], p).err /\ Return(c, Failure("rejected"))
  <2>1. Failure("rejected") \in Results
    BY DEF Failure, Results, Outcomes, VersionNoStream
  <2>2. Atomic!Observe(c)
    BY <1>1, <1>3, <1>4, <2>1, ReturnObserves
  <2>3. QED BY <2>2
<1>5. CASE /\ ~Act(cmd[c], p).err /\ Act(cmd[c], p).events = <<>>
           /\ Return(c, NoOp(p, Len(p) - 1))
  <2>1. NoOp(p, Len(p) - 1) \in Results
    BY DEF NoOp, Results, Outcomes
  <2>2. Atomic!Observe(c)
    BY <1>1, <1>3, <1>5, <2>1, ReturnObserves
  <2>3. QED BY <2>2
<1>6. CASE Proceed(c, "append")
  BY <1>1, <1>6, ProceedIsHidden
<1>7. QED BY <1>2, <1>3, <1>4, <1>5, <1>6 DEF AggregateAct, AggAct

LEMMA AggregateStoreMaps ==
    ASSUME IInv, DInv, NEW c \in AggCallers, AggregateStore(c)
    PROVE  Atomic!Commit(c)
<1>1. PICK s : s = CallStream(c)
  OBVIOUS
<1>2. c \in AllCallers /\ pc[c] = "append" /\ UNCHANGED since /\ s \in Streams
  BY <1>1, AggregateStoreFacts
<1>3. PICK base \in Seq(Payloads), new \in Seq(Payloads), all \in Seq(Payloads) :
          /\ base = Loaded(agg[c]) /\ new = agg[c].changes /\ all = agg[c].state
          /\ new # <<>> /\ all = base \o new
          /\ Knows(s, base, agg[c].originalVersion, since[c])
          /\ AppendEvents(s, agg[c].originalVersion, new)
  BY <1>1, AggregateStoreFacts
<1>4. PICK r \in Results : r = AppendedResult(all, new, AppendResult(s, new), Registered)
                           /\ Return(c, r)
  BY <1>1, <1>3, AggregateStoreFacts
<1>5. /\ Atomic!Admits(cmd[c], base) /\ ~Act(cmd[c], base).err
      /\ Act(cmd[c], base).events = new
  BY <1>2, <1>3 DEF DInv, AggregateDecided
<1>6. QED BY <1>1, <1>2, <1>3, <1>4, <1>5, AppendCommits

-----------------------------------------------------------------------------
LEMMA InitMaps == Init => Atomic!AtomicInit
<1> SUFFICES ASSUME Init PROVE Atomic!AtomicInit
  OBVIOUS
<1>1. logSeen = [s \in Streams |-> <<>>]
  <2>1. PayloadsOf(<<>>) = <<>>
    BY DEF PayloadsOf
  <2>2. QED BY <2>1 DEF Init, StoreInit, logSeen
<1>2. waitingFor = [c \in AllCallers |-> NoCommand] /\ waitingSince = [c \in AllCallers |-> 0]
  BY DEF Init, CallsInit, waitingFor, waitingSince
<1>3. answered = [c \in AllCallers |-> Atomic!NoAnswer("none")]
  <2>1. answered = [c \in AllCallers |-> AnswerOf(Failure("none"))]
    BY DEF Init, CallsInit, answered, AnswerOf
  <2>2. QED BY <2>1, AnswersMatch
<1>4. QED BY <1>1, <1>2, <1>3 DEF Atomic!AtomicInit

LEMMA NextMaps ==
    IInv /\ DInv /\ [Next]_systemVars => [Atomic!AtomicNext]_(Atomic!abstractVars)
<1> SUFFICES ASSUME IInv, DInv, [Next]_systemVars
             PROVE  Atomic!AtomicNext \/ UNCHANGED Atomic!abstractVars
  OBVIOUS
<1>1. IInv' /\ TypeOK
  BY NextPreserves DEF IInv
<1>2. CASE UNCHANGED systemVars
  BY <1>2 DEF systemVars, storeVars, callVars, Atomic!abstractVars, logSeen, waitingFor,
     waitingSince, answered
<1>3. ASSUME NEW c \in Callers, ServiceCall(c) PROVE Atomic!AtomicNext
  <2>1. PICK k \in Commands : BeginCall(c, k) /\ Called(c, k) /\ c \in AllCallers
    BY <1>3 DEF ServiceCall, Handle, AllCallers
  <2>2. Atomic!Invoke(c, k)
    BY <1>1, <2>1, CallInvokes
  <2>3. QED BY <2>1, <2>2 DEF Atomic!AtomicNext
<1>4. ASSUME NEW c \in AggCallers, AggregateCall(c) PROVE Atomic!AtomicNext
  <2>1. PICK k \in Commands : BeginCall(c, k) /\ Called(c, k) /\ c \in AllCallers
    BY <1>4 DEF AggregateCall, AggHandle, AllCallers
  <2>2. Atomic!Invoke(c, k)
    BY <1>1, <2>1, CallInvokes
  <2>3. QED BY <2>1, <2>2 DEF Atomic!AtomicNext
<1>5. ASSUME NEW c \in Callers, ServiceStep(c)
      PROVE  Atomic!AtomicNext \/ UNCHANGED Atomic!abstractVars
  <2>1. c \in AllCallers
    BY DEF AllCallers
  <2>2. CASE ServiceLoad(c) \/ ServiceDecide(c)
    BY <2>1, <2>2, ServiceLoadMaps, ServiceDecideMaps DEF Atomic!AtomicNext
  <2>3. CASE ServiceAppend(c)
    BY <2>1, <2>3, ServiceAppendMaps DEF Atomic!AtomicNext
  <2>4. CASE ServiceConflict(c)
    <3>1. /\ pc[c] # "idle" /\ UNCHANGED <<streams, since>> /\ Return(c, Failure("conflict"))
      BY <2>4 DEF ServiceConflict, Conflict, AppendConflict, storeVars
    <3>2. Atomic!GiveUp(c)
      BY <1>1, <2>1, <3>1, ConflictGivesUp
    <3>3. QED BY <2>1, <3>2 DEF Atomic!AtomicNext
  <2>5. QED BY <1>5, <2>2, <2>3, <2>4 DEF ServiceStep
<1>6. ASSUME NEW c \in AggCallers, AggregateStep(c)
      PROVE  Atomic!AtomicNext \/ UNCHANGED Atomic!abstractVars
  <2>1. c \in AllCallers
    BY DEF AllCallers
  <2>2. CASE AggregateLoad(c)
    <3>1. pc[c] = "load" /\ Proceed(c, "decide") /\ UNCHANGED <<streams, since>>
      BY <2>2 DEF AggregateLoad, AggLoad, Local, storeVars
    <3>2. QED BY <1>1, <2>1, <3>1, ProceedIsHidden
  <2>3. CASE AggregateRefuse(c) \/ AggregateAct(c)
    BY <2>1, <2>3, AggregateRefuseMaps, AggregateActMaps DEF Atomic!AtomicNext
  <2>4. CASE AggregateStore(c)
    BY <2>1, <2>4, AggregateStoreMaps DEF Atomic!AtomicNext
  <2>5. CASE AggregateConflict(c)
    <3>1. /\ pc[c] # "idle" /\ UNCHANGED <<streams, since>> /\ Return(c, Failure("conflict"))
      BY <2>5 DEF AggregateConflict, AggConflict, AppendConflict, storeVars
    <3>2. Atomic!GiveUp(c)
      BY <1>1, <2>1, <3>1, ConflictGivesUp
    <3>3. QED BY <2>1, <3>2 DEF Atomic!AtomicNext
  <2>6. QED BY <1>6, <2>2, <2>3, <2>4, <2>5 DEF AggregateStep
<1>7. QED BY <1>2, <1>3, <1>4, <1>5, <1>6 DEF Next

\* Both services implement commands that take effect, or are answered, at one
\* instant between call and return: for any callers, handlers and streams.
THEOREM CommandsTakeEffectAtOnce == Spec => CommandsAreAtomic
<1>1. Spec => Atomic!AtomicSpec
  BY InitMaps, NextMaps, CallsDecide, PTL DEF Spec, Atomic!AtomicSpec
<1>2. QED BY <1>1 DEF CommandsAreAtomic
=============================================================================

----------------------- MODULE KurrentCommandsProofs -----------------------
(***************************************************************************)
(* Proofs about KurrentCommands, for any callers, streams, handlers, types *)
(* and programs that agree on the names of their events.                   *)
(***************************************************************************)
EXTENDS StoresCompared, TLAPS, SequenceTheorems, WellFoundedInduction

\* A type that has a name is the type of that name and the reverse, and what was
\* registered before the first call stays.
MapAgrees ==
    /\ \A t \in GoTypes : toName[t] # Unmapped => fromName[toName[t]] = t
    /\ \A n \in Names : fromName[n] # Unmapped => toName[fromName[n]] = n
    /\ \A t \in DOMAIN Initially : toName[t] = Initially[t]

\* An event is stored under a name that stands for its type, or that only its type
\* can be registered for.
LegibleEvent(e) ==
    \/ fromName[e.name] = TypeOf(e.payload)
    \/ fromName[e.name] = Unmapped /\ [name |-> e.name, payload |-> e.payload] \in Foreign

Legible == \A s \in Streams : \A i \in 1..Len(log[s]) : LegibleEvent(log[s][i])

\* The payloads are those of the first events of the stream.
Begins(s, payloads) ==
    /\ Len(payloads) <= Len(log[s])
    /\ \A i \in 1..Len(payloads) : payloads[i] = log[s][i].payload

\* A call that has read its stream knows as many payloads as its version says, no
\* more than the stream has events, and if as many, then all of them.
Read(s, payloads, v) ==
    /\ v = Len(payloads) - 1
    /\ Len(payloads) <= Len(log[s])
    /\ Len(payloads) = Len(log[s]) => Begins(s, payloads)

Knows(c) ==
    /\ pc[c] \in {"decide", "append"} => Read(CallStream(c), seen[c], version[c])
    /\ pc[c] = "append" => fresh[c] # <<>>

Founded(d) ==
    /\ d.at <= Len(log[d.stream])
    /\ \/ Len(d.seen) = d.at /\ Begins(d.stream, d.seen)
       \/ d.anew /\ d.seen = <<>>

StoreInv == TypeMapTypeOK /\ KurrentTypeOK /\ MapAgrees /\ Legible

RestTypeOK ==
    /\ truncating \in [Maintainers -> Truncations \union {NoTruncation}]
    /\ touched \in [Streams -> Nat] /\ failures \in 0..MaxFailures
    /\ since \in [Callers -> Nat]
    /\ decisions \subseteq Decisions

KInv ==
    /\ TypeOK /\ MapAgrees /\ Legible
    /\ \A c \in Callers : Knows(c)
    /\ \A d \in decisions : Founded(d)

-----------------------------------------------------------------------------
\* Sequences, and the steps of Handle whatever the store.

LEMMA Concatenation ==
    ASSUME NEW S, NEW a \in Seq(S), NEW b \in Seq(S), NEW c, c = a \o b
    PROVE  /\ c \in Seq(S)
           /\ Len(c) = Len(a) + Len(b)
           /\ \A i \in 1..Len(a) : c[i] = a[i]
           /\ \A i \in 1..Len(b) : c[Len(a) + i] = b[i]
<1>1. a \o b \in Seq(S)
  BY SMTT(60)
<1>2. Len(a \o b) = Len(a) + Len(b)
  BY SMTT(60)
<1>3. ASSUME NEW i \in 1..Len(a) PROVE (a \o b)[i] = a[i]
  BY <1>3, SMTT(60)
<1>4. ASSUME NEW i \in 1..Len(b) PROVE (a \o b)[Len(a) + i] = b[i]
  <2>1. Len(a) \in Nat /\ Len(b) \in Nat
    OBVIOUS
  <2>2. Len(a) + i \in 1..Len(a) + Len(b) /\ ~(Len(a) + i <= Len(a))
    BY <1>4, <2>1
  <2>3. QED BY <1>4, <2>1, <2>2, SMTT(60)
<1>5. QED BY <1>1, <1>2, <1>3, <1>4

LEMMA PrefixProperties ==
    ASSUME NEW S, NEW q \in Seq(S), NEW n \in 0..Len(q)
    PROVE  /\ SubSeq(q, 1, n) \in Seq(S)
           /\ Len(SubSeq(q, 1, n)) = n
           /\ \A i \in 1..n : SubSeq(q, 1, n)[i] = q[i]
OBVIOUS

LEMMA LoadStateAnswers ==
    ASSUME NEW found \in BOOLEAN, NEW raw, found => raw \in Seq(StreamEvents),
           NEW expected \in ExpectedStates
    PROVE  LET r == LoadState(found, raw, expected)
           IN  /\ r.err \in {"none", "streamNotFound", "streamExists"}
               /\ r.payloads \in Seq(Payloads)
               /\ r.version \in Int
               /\ r.version = Len(r.payloads) - 1
               /\ ~found => r.payloads = <<>>
               /\ found /\ r.err = "none" =>
                     /\ Len(r.payloads) = Len(raw)
                     /\ \A i \in 1..Len(raw) : r.payloads[i] = raw[i].payload
<1>1. ASSUME found
      PROVE  /\ PayloadsOf(raw) \in Seq(Payloads)
             /\ Len(PayloadsOf(raw)) = Len(raw) /\ Len(raw) \in Nat
             /\ \A i \in 1..Len(raw) : PayloadsOf(raw)[i] = raw[i].payload
  <2>1. ASSUME NEW i \in 1..Len(raw) PROVE raw[i].payload \in Payloads
    <3>1. raw[i] \in StreamEvents
      BY <1>1
    <3>2. QED BY <3>1 DEF StreamEvents
  <2>2. Len(raw) \in Nat
    BY <1>1
  <2>3. PayloadsOf(raw) = [i \in 1..Len(raw) |-> raw[i].payload]
    BY DEF PayloadsOf
  <2>4. PayloadsOf(raw) \in [1..Len(raw) -> Payloads]
    BY <2>1, <2>3
  <2>5. QED BY <2>2, <2>3, <2>4
<1>2. CASE ~found
  BY <1>2 DEF LoadState, ExpectedStates, VersionNoStream
<1>3. CASE found
  BY <1>1, <1>3 DEF LoadState, ExpectedStates, VersionNoStream
<1>4. QED BY <1>2, <1>3

-----------------------------------------------------------------------------
LEMMA ResultsTyped ==
    ASSUME NEW o \in Outcomes, NEW state \in Seq(Payloads), NEW changes \in Seq(Payloads),
           NEW v \in Int, NEW appended \in [version : Int, global : Nat],
           NEW known
    PROVE  /\ Failure(o) \in Results
           /\ Failure(o).outcome = o
           /\ NoOp(state, v) \in Results
           /\ NoOp(state, v).outcome = "noop"
           /\ AppendedResult(state, changes, appended, known) \in Results
           /\ AppendedResult(state, changes, appended, known).outcome \in {"ok", "typeUnknown"}
<1>1. \A x \in Outcomes : Failure(x) \in Results /\ Failure(x).outcome = x
  BY DEF Failure, Results, VersionNoStream
<1>2. "noop" \in Outcomes /\ "ok" \in Outcomes /\ "typeUnknown" \in Outcomes
  BY DEF Outcomes
<1>3. NoOp(state, v) \in Results /\ NoOp(state, v).outcome = "noop"
  BY <1>2 DEF NoOp, Results
<1>4. Success(state, changes, appended) \in Results
      /\ Success(state, changes, appended).outcome = "ok"
  BY <1>2 DEF Success, Results
<1>5. QED BY <1>1, <1>2, <1>3, <1>4 DEF AppendedResult

LEMMA CallBegins ==
    ASSUME CallsTypeOK, NEW c \in AllCallers, NEW k \in Commands, BeginCall(c, k)
    PROVE  /\ CallsTypeOK'
           /\ cmd'[c] = k
           /\ k \in DOMAIN Handlers => pc'[c] = "load" /\ result'[c].outcome = "pending"
           /\ k \notin DOMAIN Handlers =>
                pc'[c] = "idle" /\ result'[c].outcome = "handlerNotFound"
           /\ \A d \in AllCallers \ {c} :
                pc'[d] = pc[d] /\ cmd'[d] = cmd[d] /\ result'[d] = result[d]
<1>1. /\ Failure("pending") \in Results /\ Failure("pending").outcome = "pending"
      /\ Failure("handlerNotFound") \in Results
      /\ Failure("handlerNotFound").outcome = "handlerNotFound"
  BY DEF Failure, Results, Outcomes, VersionNoStream
<1>2. QED BY <1>1 DEF CallsTypeOK, BeginCall

LEMMA CallProceeds ==
    ASSUME CallsTypeOK, NEW c \in AllCallers, NEW step \in {"decide", "append"},
           pc[c] # "idle", Proceed(c, step)
    PROVE  /\ CallsTypeOK'
           /\ pc'[c] = step /\ UNCHANGED <<cmd, result>>
           /\ \A d \in AllCallers \ {c} : pc'[d] = pc[d]
BY DEF CallsTypeOK, Proceed

LEMMA CallReturns ==
    ASSUME CallsTypeOK, NEW c \in AllCallers, NEW r \in Results, Return(c, r)
    PROVE  /\ CallsTypeOK'
           /\ pc'[c] = "idle" /\ result'[c] = r /\ UNCHANGED cmd
           /\ \A d \in AllCallers \ {c} : pc'[d] = pc[d] /\ result'[d] = result[d]
BY DEF CallsTypeOK, Return

-----------------------------------------------------------------------------
\* Logs are only ever extended.
Grows ==
    \A s \in Streams :
        /\ Len(log'[s]) >= Len(log[s])
        /\ \A i \in 1..Len(log[s]) : log'[s][i] = log[s][i]

Sent == [name : Names, payload : Payloads]

LEMMA RecordGrows ==
    ASSUME KurrentTypeOK, NEW s \in Streams, NEW sent \in Seq(Sent), Record(s, sent)
    PROVE  /\ KurrentTypeOK' /\ Grows
           /\ Len(log'[s]) = Len(log[s]) + Len(sent)
           /\ \A i \in 1..Len(sent) :
                 /\ log'[s][Len(log[s]) + i].name = sent[i].name
                 /\ log'[s][Len(log[s]) + i].payload = sent[i].payload
                 /\ log'[s][Len(log[s]) + i].position = Len(log[s]) + i - 1
           /\ \A t \in Streams \ {s} : log'[t] = log[t]
<1>1. PICK old \in Seq(RecordedEvents) : old = log[s]
  BY DEF KurrentTypeOK
<1>2. PICK tail \in Seq(RecordedEvents) :
          /\ tail = Recorded(s, sent) /\ Len(tail) = Len(sent)
          /\ \A i \in 1..Len(sent) :
                /\ tail[i].name = sent[i].name /\ tail[i].payload = sent[i].payload
                /\ tail[i].position = Len(log[s]) + i - 1
  <2>1. Len(log[s]) \in Nat /\ commits \in Nat /\ Len(sent) \in Nat
    BY <1>1 DEF KurrentTypeOK
  <2>2. ASSUME NEW i \in 1..Len(sent)
        PROVE  sent[i].name \in Names /\ sent[i].payload \in Payloads
    <3>1. sent[i] \in Sent
      OBVIOUS
    <3>2. QED BY <3>1 DEF Sent
  <2>3. \A i \in 1..Len(sent) : Len(log[s]) + i - 1 \in Nat /\ commits + i - 1 \in Nat
    BY <2>1
  <2>4. Recorded(s, sent) \in [1..Len(sent) -> RecordedEvents]
    BY <2>2, <2>3 DEF Recorded, RecordedEvents
  <2>5. Recorded(s, sent) \in Seq(RecordedEvents) /\ Len(Recorded(s, sent)) = Len(sent)
    BY <2>1, <2>4
  <2>6. QED BY <2>5, Zenon DEF Recorded
<1>3. PICK joined : joined = old \o tail
  OBVIOUS
<1>4. /\ joined \in Seq(RecordedEvents)
      /\ Len(joined) = Len(old) + Len(tail)
      /\ \A i \in 1..Len(old) : joined[i] = old[i]
      /\ \A i \in 1..Len(tail) : joined[Len(old) + i] = tail[i]
  BY ONLY old \in Seq(RecordedEvents), tail \in Seq(RecordedEvents), <1>3, Concatenation
<1>5. log' = [log EXCEPT ![s] = joined]
  BY <1>1, <1>2, <1>3 DEF Record, KurrentTypeOK
<1>6. log'[s] = joined /\ \A t \in Streams \ {s} : log'[t] = log[t]
  BY <1>5 DEF KurrentTypeOK
<1>7. KurrentTypeOK'
  <2>1. log' \in [Streams -> Seq(RecordedEvents)]
    BY <1>4, <1>5 DEF KurrentTypeOK
  <2>2. Len(log[s]) \in Nat /\ Len(sent) \in Nat
    BY <1>1
  <2>3. before' \in [Streams -> Nat]
    BY <2>2 DEF Record, KurrentTypeOK
  <2>4. deleted' \subseteq Streams /\ commits' \in Nat
    BY <2>2 DEF Record, KurrentTypeOK
  <2>5. QED BY <2>1, <2>3, <2>4 DEF KurrentTypeOK
<1>8. Grows
  <2>1. ASSUME NEW t \in Streams
        PROVE  /\ Len(log'[t]) >= Len(log[t])
               /\ \A i \in 1..Len(log[t]) : log'[t][i] = log[t][i]
    <3>1. CASE t = s
      <4>1. Len(old) \in Nat /\ Len(tail) \in Nat
        OBVIOUS
      <4>2. QED BY <1>1, <1>4, <1>6, <3>1, <4>1
    <3>2. CASE t # s
      <4>1. log'[t] = log[t] /\ Len(log[t]) \in Nat
        BY <1>6, <3>2 DEF KurrentTypeOK
      <4>2. QED BY <4>1
    <3>3. QED BY <3>1, <3>2
  <2>2. QED BY <2>1 DEF Grows
<1>9. Len(log'[s]) = Len(log[s]) + Len(sent)
  BY ONLY <1>1, <1>2, <1>4, <1>6
<1>10. ASSUME NEW i \in 1..Len(sent)
       PROVE  /\ log'[s][Len(log[s]) + i].name = sent[i].name
              /\ log'[s][Len(log[s]) + i].payload = sent[i].payload
              /\ log'[s][Len(log[s]) + i].position = Len(log[s]) + i - 1
  <2>1. log'[s][Len(log[s]) + i] = tail[i]
    BY ONLY <1>1, <1>2, <1>4, <1>6, <1>10, i \in 1..Len(sent)
  <2>2. QED BY ONLY <1>2, <2>1, i \in 1..Len(sent)
<1>11. QED BY <1>6, <1>7, <1>8, <1>9, <1>10

LEMMA StaysGrows == ASSUME KurrentTypeOK, UNCHANGED log PROVE Grows
BY DEF KurrentTypeOK, Grows

\* What is read is the log or shorter, and each event of it legible.
LEMMA ReadsLog ==
    ASSUME StoreInv, NEW s \in Streams, KurrentFound(s), Readable(s)
    PROVE  LET raw == ReadEvents(s, 0, Everything)
           IN  /\ raw \in Seq(StreamEvents)
               /\ Len(raw) <= Len(log[s])
               /\ Len(raw) = Len(log[s]) =>
                     \A i \in 1..Len(raw) : raw[i].payload = log[s][i].payload
<1>1. PICK all \in Seq(RecordedEvents) : all = log[s]
  BY DEF StoreInv, KurrentTypeOK
<1>2. before[s] \in Nat /\ Len(all) \in Nat
  BY DEF StoreInv, KurrentTypeOK
<1>3. PICK shown \in Seq(RecordedEvents) :
          /\ shown = VisibleFrom(s, 0)
          /\ Len(shown) <= Len(all)
          /\ \A i \in 1..Len(shown) : \E j \in 1..Len(all) : shown[i] = all[j]
          /\ Len(shown) = Len(all) => \A i \in 1..Len(shown) : shown[i] = all[i]
  <2>1. PICK b \in Nat : b = IF 0 < before[s] THEN before[s] ELSE 0
    BY <1>2
  <2>2. VisibleFrom(s, 0) = SubSeq(all, b + 1, Len(all))
    BY <1>1, <2>1 DEF VisibleFrom
  <2>3. PICK q : q = SubSeq(all, b + 1, Len(all))
    OBVIOUS
  <2>4. /\ q \in Seq(RecordedEvents)
        /\ Len(q) = IF b + 1 <= Len(all) THEN Len(all) - (b + 1) + 1 ELSE 0
        /\ \A i \in 1..(Len(all) - (b + 1) + 1) : q[i] = all[b + 1 + i - 1]
    <3>1. \A i \in (b + 1)..Len(all) : all[i] \in RecordedEvents
      BY <1>2
    <3>2. QED BY <1>2, <2>3, <3>1, SubSeqProperties
  <2>5. Len(q) <= Len(all) /\ (Len(q) = Len(all) => b = 0 \/ Len(q) = 0)
    BY <1>2, <2>4
  <2>6. ASSUME NEW i \in 1..Len(q)
        PROVE  b + i \in 1..Len(all) /\ q[i] = all[b + i]
    <3>1. /\ i \in 1..(Len(all) - (b + 1) + 1) /\ b + 1 + i - 1 = b + i
          /\ b + i \in 1..Len(all)
      BY <1>2, <2>4, <2>6
    <3>2. QED BY <2>4, <3>1
  <2>7. Len(q) = Len(all) => \A i \in 1..Len(q) : q[i] = all[i]
    <3>1. CASE b = 0
      <4>1. \A i \in 1..Len(q) : b + i = i
        BY <3>1
      <4>2. QED BY <2>6, <4>1
    <3>2. CASE Len(q) = 0
      BY <3>2
    <3>3. QED BY <2>5, <3>1, <3>2
  <2>8. q = VisibleFrom(s, 0)
    BY <2>2, <2>3
  <2>9. QED BY <2>4, <2>5, <2>6, <2>7, <2>8
<1>4. PICK first \in Seq(RecordedEvents) :
          /\ first = Forwards(s, 0, Everything)
          /\ Len(first) <= Len(shown)
          /\ \A i \in 1..Len(first) : first[i] = shown[i]
  <2>1. PICK n \in 0..Len(shown) :
            n = IF Everything < Len(shown) THEN Everything ELSE Len(shown)
    BY DEF Everything
  <2>2. Forwards(s, 0, Everything) = SubSeq(shown, 1, n)
    BY <1>3, <2>1 DEF Forwards, FirstOf
  <2>3. /\ SubSeq(shown, 1, n) \in Seq(RecordedEvents) /\ Len(SubSeq(shown, 1, n)) = n
        /\ \A i \in 1..n : SubSeq(shown, 1, n)[i] = shown[i]
    BY ONLY shown \in Seq(RecordedEvents), n \in 0..Len(shown), PrefixProperties
  <2>4. n <= Len(shown)
    OBVIOUS
  <2>5. QED BY <2>2, <2>3, <2>4
<1>5. /\ Len(first) \in Nat /\ Len(shown) \in Nat
      /\ \A i \in 1..Len(first) : i \in 1..Len(shown) /\ first[i] \in RecordedEvents
  BY <1>4
<1>6. ASSUME NEW i \in 1..Len(first) PROVE Decoded(first[i]) = first[i].payload
  <2>1. PICK j \in 1..Len(all) : first[i] = all[j]
    BY <1>3, <1>4, <1>5
  <2>2. LegibleEvent(first[i])
    BY <1>1, <2>1 DEF StoreInv, Legible
  <2>3. fromName[first[i].name] # Unmapped
    BY <1>4 DEF Readable, CanDecode, HasInstance
  <2>4. QED BY <2>2, <2>3 DEF LegibleEvent, Decoded
<1> DEFINE raw == ReadEvents(s, 0, Everything)
<1>7. raw = [i \in 1..Len(first) |->
                [payload |-> first[i].payload, position |-> first[i].position,
                 global |-> first[i].global]]
  BY <1>4, <1>6 DEF ReadEvents, AsRead
<1> HIDE DEF raw
<1>8. raw \in [1..Len(first) -> StreamEvents]
  <2>1. ASSUME NEW i \in 1..Len(first)
        PROVE  [payload |-> first[i].payload, position |-> first[i].position,
                global |-> first[i].global] \in StreamEvents
    BY <1>5 DEF RecordedEvents, StreamEvents
  <2>2. QED BY <1>7, <2>1
<1>9. raw \in Seq(StreamEvents) /\ Len(raw) = Len(first)
  <2>1. \A S : \A n \in Nat : \A f \in [1..n -> S] : f \in Seq(S) /\ Len(f) = n
    OBVIOUS
  <2>2. QED BY <1>5, <1>8, <2>1
<1>10. \A i \in 1..Len(first) : raw[i].payload = first[i].payload
  BY <1>7
<1>11. Len(raw) <= Len(all)
  BY <1>2, <1>3, <1>4, <1>5, <1>9
<1>12. ASSUME Len(raw) = Len(all), NEW i \in 1..Len(raw)
       PROVE  raw[i].payload = all[i].payload
  <2>1. Len(shown) = Len(all)
    BY <1>2, <1>3, <1>4, <1>5, <1>9, <1>12
  <2>2. i \in 1..Len(first) /\ i \in 1..Len(shown)
    BY <1>5, <1>9, <1>12
  <2>3. raw[i].payload = first[i].payload
    BY <1>10, <2>2
  <2>4. first[i] = shown[i] /\ shown[i] = all[i]
    BY <1>3, <1>4, <2>1, <2>2
  <2>5. QED BY <2>3, <2>4
<1>13. QED BY <1>1, <1>9, <1>11, <1>12 DEF raw

-----------------------------------------------------------------------------
LEMMA StoreStays ==
    ASSUME StoreInv, UNCHANGED <<typeMapVars, log>>, KurrentTypeOK'
    PROVE  StoreInv' /\ Grows
<1>1. TypeMapTypeOK' /\ MapAgrees' /\ Legible'
  BY DEF StoreInv, TypeMapTypeOK, MapAgrees, Legible, LegibleEvent, typeMapVars
<1>2. Grows
  BY StaysGrows DEF StoreInv
<1>3. QED BY <1>1, <1>2 DEF StoreInv

\* What is sent under legible names is legible in the log.
LEMMA RecordKeeps ==
    ASSUME StoreInv, NEW s \in Streams, NEW sent \in Seq(Sent), Record(s, sent),
           UNCHANGED typeMapVars, \A i \in 1..Len(sent) : LegibleEvent(sent[i])
    PROVE  StoreInv' /\ Grows
<1>1. /\ KurrentTypeOK' /\ Grows
      /\ Len(log'[s]) = Len(log[s]) + Len(sent)
      /\ \A i \in 1..Len(sent) :
            /\ log'[s][Len(log[s]) + i].name = sent[i].name
            /\ log'[s][Len(log[s]) + i].payload = sent[i].payload
      /\ \A t \in Streams \ {s} : log'[t] = log[t]
  BY RecordGrows DEF StoreInv
<1>2. TypeMapTypeOK' /\ MapAgrees'
  BY DEF StoreInv, TypeMapTypeOK, MapAgrees, typeMapVars
<1>3. ASSUME NEW t \in Streams, NEW i \in 1..Len(log'[t]) PROVE LegibleEvent(log[t][i])'
  <2>0. Len(log[t]) \in Nat /\ Len(log[s]) \in Nat /\ Len(sent) \in Nat
    BY DEF StoreInv, KurrentTypeOK
  <2>1. CASE i <= Len(log[t])
    <3>1. i \in 1..Len(log[t])
      BY <2>0, <2>1
    <3>2. log'[t][i] = log[t][i] /\ LegibleEvent(log[t][i])
      BY <1>1, <3>1 DEF Grows, StoreInv, Legible
    <3>3. QED BY <3>2 DEF LegibleEvent, typeMapVars
  <2>2. CASE i > Len(log[t])
    <3>1. t = s
      BY <1>1, <2>2
    <3>2. PICK j \in 1..Len(sent) : i = Len(log[s]) + j
      <4>1. i - Len(log[s]) \in 1..Len(sent) /\ i = Len(log[s]) + (i - Len(log[s]))
        BY <1>1, <2>0, <2>2, <3>1
      <4>2. QED BY <4>1
    <3>3. /\ log'[s][i].name = sent[j].name /\ log'[s][i].payload = sent[j].payload
          /\ LegibleEvent(sent[j])
      BY <1>1, <3>2
    <3>4. QED BY <3>1, <3>3 DEF LegibleEvent, typeMapVars
  <2>3. QED BY <2>0, <2>1, <2>2
<1>4. QED BY <1>1, <1>2, <1>3 DEF StoreInv, Legible

LEMMA AppendKeeps ==
    ASSUME StoreInv, NEW s \in Streams, NEW v, NEW new \in Seq(Payloads),
           KurrentAppend(s, v, new), UNCHANGED typeMapVars
    PROVE  StoreInv' /\ Grows
<1>1. Len(new) \in Nat /\ \A i \in 1..Len(new) : new[i] \in Payloads
  OBVIOUS
<1>2. ASSUME NEW i \in 1..Len(new)
      PROVE  /\ toName[TypeOf(new[i])] \in Names
             /\ fromName[toName[TypeOf(new[i])]] = TypeOf(new[i])
  <2>1. TypeOf(new[i]) \in GoTypes /\ toName[TypeOf(new[i])] # Unmapped
    BY DEF KurrentAppend, CanEncode, HasTypeName
  <2>2. QED BY <2>1 DEF StoreInv, TypeMapTypeOK, MapAgrees
<1>3. PICK sent \in Seq(Sent) :
          /\ sent = Encoded(new)
          /\ \A i \in 1..Len(sent) : LegibleEvent(sent[i])
  <2>1. Encoded(new) \in [1..Len(new) -> Sent]
    BY <1>1, <1>2 DEF Encoded, Sent
  <2>2. Encoded(new) \in Seq(Sent) /\ Len(Encoded(new)) = Len(new)
    BY <1>1, <2>1
  <2>3. \A i \in 1..Len(new) : LegibleEvent(Encoded(new)[i])
    BY <1>2 DEF LegibleEvent, Encoded
  <2>4. QED BY <2>2, <2>3
<1>4. Record(s, sent)
  BY <1>3 DEF KurrentAppend
<1>5. QED BY <1>3, <1>4, RecordKeeps

\* A type or a name that is registered stays, and nobody takes the name of an event.
LEMMA RegisterKeeps ==
    ASSUME StoreInv, NEW t \in GoTypes, NEW n \in Names, Register(t, n),
           UNCHANGED kurrentVars
    PROVE  StoreInv' /\ Grows
<1>1. KurrentTypeOK' /\ UNCHANGED log
  BY DEF StoreInv, KurrentTypeOK, kurrentVars
<1>2. CASE UNCHANGED typeMapVars
  BY <1>1, <1>2, StoreStays
<1>3. CASE ~UNCHANGED typeMapVars
  <2>1. /\ toName[t] = Unmapped /\ fromName[n] = Unmapped
        /\ toName' = [toName EXCEPT ![t] = n] /\ fromName' = [fromName EXCEPT ![n] = t]
    BY <1>3 DEF Register
  <2>2. Unmapped \notin GoTypes /\ Unmapped \notin Names
    BY TypeMapAssumption
  <2>3. TypeMapTypeOK'
    BY <2>1 DEF StoreInv, TypeMapTypeOK
  <2>4. t \notin DOMAIN Initially
    BY <2>1, <2>2, KurrentAssumption DEF StoreInv, MapAgrees
  <2>5. MapAgrees'
    <3>1. ASSUME NEW u \in GoTypes, toName'[u] # Unmapped PROVE fromName'[toName'[u]] = u
      <4>1. CASE u = t
        BY <2>1, <4>1 DEF StoreInv, TypeMapTypeOK
      <4>2. CASE u # t
        <5>1. toName'[u] = toName[u] /\ toName[u] \in Names /\ fromName[toName[u]] = u
          BY <2>1, <3>1, <4>2 DEF StoreInv, TypeMapTypeOK, MapAgrees
        <5>2. toName[u] # n
          BY <2>1, <2>2, <5>1
        <5>3. QED BY <2>1, <5>1, <5>2 DEF StoreInv, TypeMapTypeOK
      <4>3. QED BY <4>1, <4>2
    <3>2. \A u \in DOMAIN Initially : toName'[u] = Initially[u]
      BY <2>1, <2>4, KurrentAssumption DEF StoreInv, TypeMapTypeOK, MapAgrees
    <3>3. ASSUME NEW m \in Names, fromName'[m] # Unmapped PROVE toName'[fromName'[m]] = m
      <4>1. CASE m = n
        BY <2>1, <4>1 DEF StoreInv, TypeMapTypeOK
      <4>2. CASE m # n
        <5>1. fromName'[m] = fromName[m] /\ fromName[m] \in GoTypes
              /\ toName[fromName[m]] = m
          BY <2>1, <3>3, <4>2 DEF StoreInv, TypeMapTypeOK, MapAgrees
        <5>2. fromName[m] # t
          BY <2>1, <2>2, <5>1
        <5>3. QED BY <2>1, <5>1, <5>2 DEF StoreInv, TypeMapTypeOK
      <4>3. QED BY <4>1, <4>2
    <3>4. QED BY <3>1, <3>2, <3>3 DEF MapAgrees
  <2>6. ASSUME NEW e \in RecordedEvents, LegibleEvent(e) PROVE LegibleEvent(e)'
    <3>1. e.name \in Names /\ e.payload \in Payloads
      BY DEF RecordedEvents
    <3>2. CASE e.name # n
      BY <2>1, <2>6, <3>1, <3>2 DEF LegibleEvent, StoreInv, TypeMapTypeOK
    <3>3. CASE e.name = n
      <4>1. [name |-> n, payload |-> e.payload] \in Foreign
        BY <2>1, <2>6, <3>1, <3>3, KurrentAssumption DEF LegibleEvent
      <4>2. CASE TypeOf(e.payload) \in DOMAIN Initially /\ Initially[TypeOf(e.payload)] = n
        <5>1. TypeOf(e.payload) \in GoTypes /\ toName[TypeOf(e.payload)] = n
          BY <4>2, KurrentAssumption DEF StoreInv, MapAgrees
        <5>2. fromName[n] = TypeOf(e.payload)
          BY <2>2, <5>1 DEF StoreInv, MapAgrees
        <5>3. QED BY <2>1, <2>2, <5>1, <5>2
      <4>3. CASE \A u \in GoTypes \ {TypeOf(e.payload)} :
                     u \in DOMAIN Initially /\ Initially[u] # n
        <5>1. t = TypeOf(e.payload)
          BY <2>4, <4>3
        <5>2. fromName'[n] = t
          BY <2>1 DEF StoreInv, TypeMapTypeOK
        <5>3. QED BY <3>3, <5>1, <5>2 DEF LegibleEvent
      <4>4. QED BY <4>1, <4>2, <4>3, ForeignAssumption
    <3>4. QED BY <3>2, <3>3
  <2>7. Legible'
    <3>1. \A s \in Streams : \A i \in 1..Len(log[s]) : log[s][i] \in RecordedEvents
      BY DEF StoreInv, KurrentTypeOK
    <3>2. \A s \in Streams : \A i \in 1..Len(log[s]) : LegibleEvent(log[s][i])'
      BY <1>1, <2>6, <3>1 DEF StoreInv, Legible
    <3>3. QED BY <1>1, <3>2 DEF Legible
  <2>8. QED BY <1>1, <2>3, <2>5, <2>7, StaysGrows DEF StoreInv
<1>4. QED BY <1>2, <1>3

-----------------------------------------------------------------------------
\* What was decided or read stays true while logs only grow.
LEMMA FoundedStays ==
    ASSUME KurrentTypeOK, KurrentTypeOK', Grows, NEW d \in Decisions, Founded(d)
    PROVE  Founded(d)'
<1>1. /\ d.stream \in Streams /\ d.at \in Nat /\ Len(d.seen) \in Nat
      /\ Len(log[d.stream]) \in Nat /\ Len(log'[d.stream]) \in Nat
  BY DEF Decisions, KurrentTypeOK
<1>2. Begins(d.stream, d.seen) => Begins(d.stream, d.seen)'
  BY <1>1 DEF Begins, Grows
<1>3. QED BY <1>1, <1>2 DEF Founded, Grows

LEMMA ReadStays ==
    ASSUME KurrentTypeOK, KurrentTypeOK', Grows, NEW s \in Streams,
           NEW p \in Seq(Payloads), NEW v, Read(s, p, v)
    PROVE  Read(s, p, v)'
<1>1. Len(p) \in Nat /\ Len(log[s]) \in Nat /\ Len(log'[s]) \in Nat
  BY DEF KurrentTypeOK
<1>2. Len(log'[s]) >= Len(log[s])
  BY DEF Grows
<1>3. Len(p) = Len(log'[s]) => Len(p) = Len(log[s])
  BY <1>1, <1>2 DEF Read
<1>4. Begins(s, p) => Begins(s, p)'
  BY <1>1 DEF Begins, Grows
<1>5. QED BY <1>1, <1>2, <1>3, <1>4 DEF Read

-----------------------------------------------------------------------------
\* A step that does not concern caller d.
Stays(d) ==
    /\ pc'[d] = pc[d] /\ cmd'[d] = cmd[d]
    /\ seen'[d] = seen[d] /\ version'[d] = version[d] /\ fresh'[d] = fresh[d]

LEMMA KnowsStays ==
    ASSUME KInv, StoreInv', Grows, NEW d \in Callers, Stays(d)
    PROVE  Knows(d)'
<1>1. d \in AllCallers /\ Knows(d) /\ seen[d] \in Seq(Payloads)
  BY DEF KInv, TypeOK, ServiceTypeOK, AllCallers
<1>2. CASE pc[d] \in {"decide", "append"}
  <2>1. CallStream(d) \in Streams
    BY <1>1, <1>2, HandlersAssumption DEF KInv, TypeOK, CallsTypeOK, CallStream, StreamOf
  <2>2. Read(CallStream(d), seen[d], version[d])
    BY <1>1, <1>2 DEF Knows
  <2>3. KurrentTypeOK /\ KurrentTypeOK'
    BY DEF KInv, TypeOK, StoreInv
  <2>4. Read(CallStream(d), seen[d], version[d])'
    <3>0. PICK v : v = version[d]
      OBVIOUS
    <3>1. PICK s \in Streams, p \in Seq(Payloads) :
              s = CallStream(d) /\ p = seen[d] /\ v = version[d]
      BY <1>1, <2>1, <3>0
    <3>2. Read(s, p, v)'
      BY <2>2, <2>3, <3>1, ReadStays
    <3>3. s = CallStream(d)' /\ p = seen'[d] /\ v = version'[d]
      BY <3>1 DEF Stays, CallStream
    <3>4. QED BY <3>2, <3>3
  <2>5. QED BY <1>1, <2>4 DEF Knows, Stays
<1>3. CASE pc[d] \notin {"decide", "append"}
  BY <1>3 DEF Knows, Stays
<1>4. QED BY <1>2, <1>3

\* What a step has to show for the invariant to hold after it.
LEMMA StepKeeps ==
    ASSUME KInv, StoreInv', Grows, CallsTypeOK', ServiceTypeOK', RestTypeOK',
           \A d \in Callers : Stays(d) \/ Knows(d)',
           \A d \in decisions' : d \in decisions \/ Founded(d)'
    PROVE  KInv'
<1>1. TypeOK' /\ MapAgrees' /\ Legible'
  BY DEF StoreInv, TypeOK, RestTypeOK
<1>2. \A c \in Callers : Knows(c)'
  BY KnowsStays
<1>3. ASSUME NEW d \in decisions' PROVE Founded(d)'
  <2>1. CASE d \in decisions
    <3>1. d \in Decisions /\ Founded(d) /\ KurrentTypeOK /\ KurrentTypeOK'
      BY <2>1 DEF KInv, TypeOK, StoreInv
    <3>2. QED BY <3>1, FoundedStays
  <2>2. CASE d \notin decisions
    BY <2>2
  <2>3. QED BY <2>1, <2>2
<1>4. QED BY <1>1, <1>2, <1>3 DEF KInv

LEMMA PartsOfKInv ==
    ASSUME KInv
    PROVE  /\ StoreInv /\ CallsTypeOK /\ ServiceTypeOK /\ RestTypeOK
           /\ KurrentTypeOK /\ TypeMapTypeOK
BY DEF KInv, StoreInv, TypeOK, RestTypeOK

\* A call that returns leaves nothing behind.
LEMMA CallEnds ==
    ASSUME KInv, NEW c \in Callers, NEW r \in Results, Return(c, r),
           Forget(c) \/ UNCHANGED serviceVars
    PROVE  /\ CallsTypeOK' /\ ServiceTypeOK'
           /\ \A d \in Callers : Stays(d) \/ Knows(d)'
<1>1. CallsTypeOK /\ ServiceTypeOK /\ c \in AllCallers
  BY PartsOfKInv DEF AllCallers
<1>2. /\ CallsTypeOK'
      /\ pc'[c] = "idle" /\ result'[c] = r /\ UNCHANGED cmd
      /\ \A d \in AllCallers \ {c} : pc'[d] = pc[d] /\ result'[d] = result[d]
  BY <1>1, CallReturns
<1>3. ServiceTypeOK'
      /\ \A d \in Callers \ {c} :
            seen'[d] = seen[d] /\ version'[d] = version[d] /\ fresh'[d] = fresh[d]
  <2>1. <<>> \in Seq(Payloads) /\ VersionNoStream \in Int
    BY DEF VersionNoStream
  <2>2. CASE Forget(c)
    BY <1>1, <2>1, <2>2 DEF Forget, ServiceTypeOK
  <2>3. CASE UNCHANGED serviceVars
    BY <1>1, <2>3 DEF serviceVars, ServiceTypeOK
  <2>4. QED BY <2>2, <2>3
<1>4. Knows(c)'
  BY <1>2 DEF Knows
<1>5. \A d \in Callers \ {c} : Stays(d)
  BY <1>2, <1>3 DEF Stays, AllCallers
<1>6. QED BY <1>2, <1>3, <1>4, <1>5

\* The error paths of Handle and what a read returns change no store.
LEMMA LocalStep ==
    ASSUME KInv, UNCHANGED <<typeMapVars, kurrentVars, upkeepVars, decisions>>,
           failures' \in 0..MaxFailures, since' \in [Callers -> Nat],
           CallsTypeOK', ServiceTypeOK',
           \A d \in Callers : Stays(d) \/ Knows(d)'
    PROVE  KInv'
<1>1. StoreInv /\ KurrentTypeOK /\ RestTypeOK
  BY PartsOfKInv
<1>2. KurrentTypeOK' /\ UNCHANGED log
  BY <1>1 DEF KurrentTypeOK, kurrentVars
<1>3. StoreInv' /\ Grows
  BY <1>1, <1>2, StoreStays
<1>4. RestTypeOK'
  BY <1>1 DEF RestTypeOK, upkeepVars
<1>5. QED BY <1>3, <1>4, StepKeeps

-----------------------------------------------------------------------------
LEMMA CallKeeps ==
    ASSUME KInv, NEW c \in Callers, NEW k \in Commands, ServiceCall(c, k)
    PROVE  KInv'
<1>1. /\ CallsTypeOK /\ ServiceTypeOK /\ RestTypeOK /\ KurrentTypeOK /\ c \in AllCallers
      /\ BeginCall(c, k) /\ UNCHANGED serviceVars
  BY PartsOfKInv DEF AllCallers, ServiceCall, Handle
<1>2. /\ CallsTypeOK'
      /\ pc'[c] \in {"load", "idle"}
      /\ \A d \in AllCallers \ {c} : pc'[d] = pc[d] /\ cmd'[d] = cmd[d]
  BY <1>1, CallBegins
<1>3. ServiceTypeOK'
  BY <1>1 DEF ServiceTypeOK, serviceVars
<1>4. Knows(c)' /\ \A d \in Callers \ {c} : Stays(d)
  BY <1>1, <1>2 DEF Knows, Stays, serviceVars, AllCallers
<1>5. since' \in [Callers -> Nat] /\ failures' \in 0..MaxFailures
  <2>1. CASE k \in DOMAIN Handlers
    <3>1. StreamOf(k) \in Streams
      BY <2>1, HandlersAssumption DEF StreamOf
    <3>2. Len(log[StreamOf(k)]) \in Nat
      BY <1>1, <3>1 DEF KurrentTypeOK
    <3>3. QED BY <1>1, <2>1, <3>2 DEF ServiceCall, RestTypeOK
  <2>2. CASE k \notin DOMAIN Handlers
    BY <1>1, <2>2 DEF ServiceCall, RestTypeOK
  <2>3. QED BY <2>1, <2>2
<1>6. UNCHANGED <<typeMapVars, kurrentVars, upkeepVars, decisions>>
  BY DEF ServiceCall
<1>7. QED BY <1>2, <1>3, <1>4, <1>5, <1>6, LocalStep

LEMMA LoadKeeps ==
    ASSUME KInv, NEW c \in Callers, ServiceLoad(c)
    PROVE  KInv'
<1>1. /\ CallsTypeOK /\ ServiceTypeOK /\ RestTypeOK /\ KurrentTypeOK /\ StoreInv
      /\ c \in AllCallers
  BY PartsOfKInv DEF AllCallers
<1>2. PICK s, raw, found, expected :
          /\ s = CallStream(c) /\ raw = ReadEvents(s, 0, Everything)
          /\ found = KurrentFound(s) /\ expected = ExpectedOf(cmd[c])
  OBVIOUS
<1>3. /\ pc[c] = "load" /\ (found => Readable(s))
      /\ Load(c, found, raw)
      /\ UNCHANGED <<typeMapVars, kurrentVars, upkeepVars, failures, historyVars>>
  BY <1>2 DEF ServiceLoad
<1>4. s \in Streams /\ expected \in ExpectedStates /\ found \in BOOLEAN
  <2>1. cmd[c] \in DOMAIN Handlers
    BY <1>1, <1>3 DEF CallsTypeOK
  <2>2. s \in Streams /\ expected \in ExpectedStates
    BY <1>2, <2>1, HandlersAssumption DEF CallStream, StreamOf, ExpectedOf
  <2>3. QED BY <1>2, <2>2 DEF KurrentFound
<1>5. found => /\ raw \in Seq(StreamEvents)
               /\ Len(raw) <= Len(log[s])
               /\ Len(raw) = Len(log[s]) =>
                     \A i \in 1..Len(raw) : raw[i].payload = log[s][i].payload
  <2>1. ASSUME found
        PROVE  /\ raw \in Seq(StreamEvents)
               /\ Len(raw) <= Len(log[s])
               /\ Len(raw) = Len(log[s]) =>
                     \A i \in 1..Len(raw) : raw[i].payload = log[s][i].payload
    <3>1. KurrentFound(s) /\ Readable(s)
      BY <1>2, <1>3, <2>1
    <3>2. QED BY <1>1, <1>2, <1>4, <3>1, ReadsLog
  <2>2. QED BY <1>4, <2>1
<1>6. PICK loaded : loaded = LoadState(found, raw, expected)
  OBVIOUS
<1>7. /\ loaded.err \in {"none", "streamNotFound", "streamExists"}
      /\ loaded.payloads \in Seq(Payloads)
      /\ loaded.version \in Int
      /\ loaded.version = Len(loaded.payloads) - 1
      /\ ~found => loaded.payloads = <<>>
      /\ found /\ loaded.err = "none" =>
            /\ Len(loaded.payloads) = Len(raw)
            /\ \A i \in 1..Len(raw) : loaded.payloads[i] = raw[i].payload
  BY ONLY <1>4, <1>5, <1>6, LoadStateAnswers
<1>8. UNCHANGED <<typeMapVars, kurrentVars, upkeepVars, decisions>>
      /\ failures' \in 0..MaxFailures /\ since' \in [Callers -> Nat]
  BY <1>1, <1>3 DEF RestTypeOK, historyVars
<1>9. CASE loaded.err = "none"
  <2>1. /\ Proceed(c, "decide")
        /\ seen' = [seen EXCEPT ![c] = loaded.payloads]
        /\ version' = [version EXCEPT ![c] = loaded.version]
        /\ UNCHANGED fresh
    BY <1>2, <1>3, <1>6, <1>9 DEF Load
  <2>2. /\ CallsTypeOK' /\ pc'[c] = "decide" /\ UNCHANGED <<cmd, result>>
        /\ \A d \in AllCallers \ {c} : pc'[d] = pc[d]
    <3>1. pc[c] # "idle"
      BY <1>3
    <3>2. QED BY <1>1, <2>1, <3>1, CallProceeds
  <2>3. ServiceTypeOK' /\ seen'[c] = loaded.payloads /\ version'[c] = loaded.version
        /\ \A d \in Callers \ {c} : Stays(d)
    BY <1>1, <1>7, <2>1, <2>2 DEF ServiceTypeOK, Stays, AllCallers
  <2>4. Read(s, loaded.payloads, loaded.version)'
    <3>1. UNCHANGED log
      BY <1>3 DEF kurrentVars
    <3>2. Len(log[s]) \in Nat
      BY <1>1, <1>4 DEF KurrentTypeOK
    <3>3. CASE found
      <4>1. Len(loaded.payloads) = Len(raw)
            /\ \A i \in 1..Len(raw) : loaded.payloads[i] = raw[i].payload
        BY <1>7, <1>9, <3>3
      <4>2. QED BY <1>5, <1>7, <3>1, <3>2, <3>3, <4>1 DEF Read, Begins
    <3>4. CASE ~found
      <4>1. loaded.payloads = <<>> /\ Len(loaded.payloads) = 0 /\ loaded.version = -1
        BY <1>7, <3>4
      <4>2. QED BY <3>1, <3>2, <4>1 DEF Read, Begins
    <3>5. QED BY <3>3, <3>4
  <2>5. Knows(c)'
    <3>1. CallStream(c)' = s
      BY <1>2, <2>2 DEF CallStream
    <3>2. QED BY <2>2, <2>3, <2>4, <3>1 DEF Knows
  <2>6. QED BY <1>8, <2>2, <2>3, <2>5, LocalStep
<1>10. CASE loaded.err # "none"
  <2>1. Return(c, Failure(loaded.err)) /\ UNCHANGED serviceVars
    BY <1>2, <1>3, <1>6, <1>10 DEF Load
  <2>2. Failure(loaded.err) \in Results
    <3>1. loaded.err \in Outcomes
      BY <1>7 DEF Outcomes
    <3>2. QED BY <3>1 DEF Failure, Results, VersionNoStream
  <2>3. QED BY <1>8, <2>1, <2>2, CallEnds, LocalStep
<1>11. QED BY <1>9, <1>10

\* A Failure is a result.
LEMMA FailureTyped == \A o \in Outcomes : Failure(o) \in Results
BY DEF Failure, Results, VersionNoStream

LEMMA LoadFailsKeeps ==
    ASSUME KInv, NEW c \in Callers, ServiceLoadFails(c)
    PROVE  KInv'
<1>1. /\ Return(c, Failure("storeFailed")) /\ UNCHANGED serviceVars
      /\ UNCHANGED <<typeMapVars, kurrentVars, upkeepVars, failures, historyVars>>
  BY DEF ServiceLoadFails
<1>2. Failure("storeFailed") \in Results
  BY FailureTyped DEF Outcomes
<1>3. failures' \in 0..MaxFailures /\ since' \in [Callers -> Nat]
      /\ UNCHANGED decisions
  BY <1>1, PartsOfKInv DEF RestTypeOK, historyVars
<1>4. QED BY <1>1, <1>2, <1>3, CallEnds, LocalStep

LEMMA EncodeFailsKeeps ==
    ASSUME KInv, NEW c \in Callers, ServiceEncodeFails(c)
    PROVE  KInv'
<1>1. /\ Return(c, Failure("typeUnknown")) /\ Forget(c)
      /\ UNCHANGED <<typeMapVars, kurrentVars, upkeepVars, failures, historyVars>>
  BY DEF ServiceEncodeFails
<1>2. Failure("typeUnknown") \in Results
  BY FailureTyped DEF Outcomes
<1>3. failures' \in 0..MaxFailures /\ since' \in [Callers -> Nat]
      /\ UNCHANGED decisions
  BY <1>1, PartsOfKInv DEF RestTypeOK, historyVars
<1>4. QED BY <1>1, <1>2, <1>3, CallEnds, LocalStep

LEMMA ConflictKeeps ==
    ASSUME KInv, NEW c \in Callers, ServiceConflict(c)
    PROVE  KInv'
<1>1. /\ Return(c, Failure("conflict")) /\ Forget(c)
      /\ UNCHANGED <<typeMapVars, kurrentVars, upkeepVars, failures, historyVars>>
  BY DEF ServiceConflict, Conflict, KurrentConflict
<1>2. Failure("conflict") \in Results
  BY FailureTyped DEF Outcomes
<1>3. failures' \in 0..MaxFailures /\ since' \in [Callers -> Nat]
      /\ UNCHANGED decisions
  BY <1>1, PartsOfKInv DEF RestTypeOK, historyVars
<1>4. QED BY <1>1, <1>2, <1>3, CallEnds, LocalStep

LEMMA DecideKeeps ==
    ASSUME KInv, NEW c \in Callers, ServiceDecide(c)
    PROVE  KInv'
<1>1. /\ CallsTypeOK /\ ServiceTypeOK /\ RestTypeOK /\ c \in AllCallers
      /\ pc[c] = "decide" /\ Knows(c)
      /\ UNCHANGED <<typeMapVars, kurrentVars, upkeepVars, failures, historyVars>>
  BY PartsOfKInv DEF AllCallers, ServiceDecide, Decide, KInv
<1>2. /\ UNCHANGED <<typeMapVars, kurrentVars, upkeepVars, decisions>>
      /\ failures' \in 0..MaxFailures /\ since' \in [Callers -> Nat]
  BY <1>1 DEF RestTypeOK, historyVars
<1>3. CASE Return(c, Failure("rejected")) /\ Forget(c)
  <2>1. Failure("rejected") \in Results
    BY FailureTyped DEF Outcomes
  <2>2. QED BY <1>2, <1>3, <2>1, CallEnds, LocalStep
<1>4. CASE Return(c, NoOp(seen[c], version[c])) /\ Forget(c)
  <2>1. NoOp(seen[c], version[c]) \in Results
    BY <1>1 DEF NoOp, Results, Outcomes, ServiceTypeOK
  <2>2. QED BY <1>2, <1>4, <2>1, CallEnds, LocalStep
<1>5. CASE \E new \in Batches :
              /\ new # <<>> /\ fresh' = [fresh EXCEPT ![c] = new]
              /\ Proceed(c, "append") /\ UNCHANGED <<seen, version>>
  <2>1. PICK new \in Batches :
              /\ new # <<>> /\ fresh' = [fresh EXCEPT ![c] = new]
              /\ Proceed(c, "append") /\ UNCHANGED <<seen, version>>
    BY <1>5
  <2>2. /\ CallsTypeOK' /\ pc'[c] = "append" /\ UNCHANGED <<cmd, result>>
        /\ \A d \in AllCallers \ {c} : pc'[d] = pc[d]
    BY <1>1, <2>1, CallProceeds
  <2>3. /\ ServiceTypeOK' /\ fresh'[c] # <<>>
        /\ \A d \in Callers \ {c} : Stays(d)
    BY <1>1, <2>1, <2>2 DEF ServiceTypeOK, Stays, AllCallers
  <2>4. Knows(c)'
    <3>1. Read(CallStream(c), seen[c], version[c])
      BY <1>1 DEF Knows
    <3>2. UNCHANGED log
      BY <1>1 DEF kurrentVars
    <3>3. Read(CallStream(c), seen[c], version[c])'
      BY <2>1, <2>2, <3>1, <3>2 DEF Read, Begins, CallStream
    <3>4. QED BY <2>2, <2>3, <3>3 DEF Knows
  <2>5. QED BY <1>2, <2>2, <2>3, <2>4, LocalStep
<1>6. QED BY <1>3, <1>4, <1>5 DEF ServiceDecide, Decide

-----------------------------------------------------------------------------
\* The argument: the revision that matches is the last one only if all events of the
\* stream were read.
LEMMA MatchesWhole ==
    ASSUME KurrentTypeOK, NEW s \in Streams, NEW p \in Seq(Payloads), NEW v,
           Read(s, p, v), Matches(s, v)
    PROVE  (Len(p) = Len(log[s]) /\ Begins(s, p)) \/ (s \in deleted /\ p = <<>>)
<1>1. Len(p) \in Nat /\ Len(log[s]) \in Nat /\ v = Len(p) - 1
  BY DEF KurrentTypeOK, Read
<1>2. CASE v = -1
  <2>1. MapExpectedVersion(v).kind = "NoStream"
    BY <1>2 DEF MapExpectedVersion, VersionNoStream, VersionAny
  <2>2. log[s] = <<>> \/ s \in deleted
    BY <2>1 DEF Matches, StateMatches
  <2>3. p = <<>> /\ Len(p) = 0
    BY <1>1, <1>2
  <2>4. log[s] = <<>> => Len(log[s]) = 0
    OBVIOUS
  <2>5. QED BY <2>2, <2>3, <2>4 DEF Read
<1>3. CASE v # -1
  <2>1. v \in Nat
    BY <1>1, <1>3
  <2>2. MapExpectedVersion(v) = [kind |-> "Revision", revision |-> v]
    BY <2>1 DEF MapExpectedVersion, VersionNoStream, VersionAny
  <2>3. v = Len(log[s]) - 1
    BY <2>2 DEF Matches, StateMatches, Revision
  <2>4. QED BY <1>1, <2>3 DEF Read
<1>4. QED BY <1>2, <1>3

LEMMA AcceptKeeps ==
    ASSUME KInv, NEW c \in Callers, pc[c] = "append", Accept(c), UNCHANGED typeMapVars
    PROVE  /\ StoreInv' /\ Grows /\ decisions' \subseteq Decisions
           /\ \A d \in decisions' : d \in decisions \/ Founded(d)'
<1>1. /\ StoreInv /\ KurrentTypeOK /\ CallsTypeOK /\ ServiceTypeOK /\ RestTypeOK
      /\ c \in AllCallers /\ Knows(c)
  BY PartsOfKInv DEF AllCallers, KInv
<1>2. PICK s \in Streams : s = CallStream(c)
  BY <1>1, HandlersAssumption DEF CallsTypeOK, CallStream, StreamOf
<1>3. seen[c] \in Seq(Payloads) /\ fresh[c] \in Seq(Payloads) /\ Len(log[s]) \in Nat
  <2>1. Len(log[s]) \in Nat
    BY <1>1, <1>2 DEF KurrentTypeOK
  <2>2. seen[c] \in Seq(Payloads) /\ fresh[c] \in Batches \union {<<>>}
    BY <1>1 DEF ServiceTypeOK
  <2>3. <<>> \in Seq(Payloads)
    OBVIOUS
  <2>4. QED BY <2>1, <2>2, <2>3, BatchesAssumption
<1>4. KurrentAppend(s, version[c], fresh[c])
  BY <1>2 DEF Accept
<1>5. StoreInv' /\ Grows
  BY <1>1, <1>3, <1>4, AppendKeeps
<1>6. PICK d : d = [stream |-> s, seen |-> seen[c], new |-> fresh[c],
                    at |-> Len(log[s]), anew |-> s \in deleted]
  OBVIOUS
<1>7. decisions' = decisions \union {d}
  BY <1>2, <1>6 DEF Accept
<1>8. d \in Decisions
  BY <1>3, <1>6 DEF Decisions
<1>9. Founded(d)
  <2>1. Read(s, seen[c], version[c]) /\ Matches(s, version[c])
    BY <1>1, <1>2, <1>4 DEF Knows, KurrentAppend
  <2>2. \/ Len(seen[c]) = Len(log[s]) /\ Begins(s, seen[c])
        \/ s \in deleted /\ seen[c] = <<>>
    BY <1>1, <1>3, <2>1, MatchesWhole
  <2>3. /\ d.stream = s /\ d.seen = seen[c] /\ d.at = Len(log[s])
        /\ s \in deleted => d.anew
    BY <1>6
  <2>4. d.at <= Len(log[d.stream])
    BY <1>3, <2>3
  <2>5. QED BY <2>2, <2>3, <2>4 DEF Founded
<1>10. Founded(d)'
  BY <1>1, <1>5, <1>8, <1>9, FoundedStays DEF StoreInv
<1>11. QED BY <1>1, <1>5, <1>7, <1>8, <1>10 DEF RestTypeOK

LEMMA AppendServiceKeeps ==
    ASSUME KInv, NEW c \in Callers, ServiceAppend(c)
    PROVE  KInv'
<1>1. /\ KurrentTypeOK /\ CallsTypeOK /\ ServiceTypeOK /\ RestTypeOK
      /\ c \in AllCallers /\ Knows(c)
      /\ pc[c] = "append" /\ Accept(c)
      /\ UNCHANGED <<typeMapVars, upkeepVars, failures, since>>
  BY PartsOfKInv DEF AllCallers, KInv, ServiceAppend, Appended
<1>2. /\ StoreInv' /\ Grows /\ decisions' \subseteq Decisions
      /\ \A d \in decisions' : d \in decisions \/ Founded(d)'
  BY <1>1, AcceptKeeps
<1>3. PICK r : r = AppendedResult(seen[c] \o fresh[c], fresh[c],
                     KurrentResult(CallStream(c), fresh[c]), KnownPayloads)
  OBVIOUS
<1>4. Return(c, r) /\ Forget(c)
  BY <1>3 DEF ServiceAppend, Appended
<1>5. r \in Results
  <2>1. CallStream(c) \in Streams
    BY <1>1, HandlersAssumption DEF CallsTypeOK, CallStream, StreamOf
  <2>2. /\ Len(log[CallStream(c)]) \in Nat /\ commits \in Nat
        /\ seen[c] \in Seq(Payloads) /\ fresh[c] \in Seq(Payloads)
        /\ fresh[c] # <<>>
    BY <1>1, <2>1, BatchesAssumption DEF ServiceTypeOK, KurrentTypeOK, Knows
  <2>3. Len(fresh[c]) \in Nat /\ Len(fresh[c]) # 0
    BY <2>2
  <2>4. KurrentResult(CallStream(c), fresh[c]) \in [version : Int, global : Nat]
    BY <2>2, <2>3 DEF KurrentResult, Revision
  <2>5. seen[c] \o fresh[c] \in Seq(Payloads)
    BY <2>2, Concatenation
  <2>6. "ok" \in Outcomes /\ 0 \in Int
    BY DEF Outcomes
  <2>7. QED BY <1>3, <2>2, <2>4, <2>5, <2>6, ResultsTyped
<1>6. /\ CallsTypeOK' /\ ServiceTypeOK'
      /\ \A d \in Callers : Stays(d) \/ Knows(d)'
  BY <1>4, <1>5, CallEnds
<1>7. RestTypeOK'
  BY <1>1, <1>2 DEF RestTypeOK, upkeepVars
<1>8. QED BY <1>2, <1>6, <1>7, StepKeeps

LEMMA FailsKeeps ==
    ASSUME KInv, NEW c \in Callers, ServiceFails(c)
    PROVE  KInv'
<1>1. /\ RestTypeOK /\ failures < MaxFailures /\ failures' = failures + 1
      /\ Return(c, Failure("storeFailed")) /\ Forget(c)
      /\ UNCHANGED <<typeMapVars, upkeepVars, since>>
  BY PartsOfKInv DEF ServiceFails
<1>2. Failure("storeFailed") \in Results
  BY FailureTyped DEF Outcomes
<1>3. /\ CallsTypeOK' /\ ServiceTypeOK'
      /\ \A d \in Callers : Stays(d) \/ Knows(d)'
  BY <1>1, <1>2, CallEnds
<1>4. failures' \in 0..MaxFailures
  <2>1. failures \in Nat /\ MaxFailures \in Nat
    BY <1>1, KurrentAssumption DEF RestTypeOK
  <2>2. QED BY <1>1, <2>1
<1>5. CASE UNCHANGED <<kurrentVars, decisions>>
  <2>1. since' \in [Callers -> Nat]
    BY <1>1 DEF RestTypeOK
  <2>2. QED BY <1>1, <1>3, <1>4, <1>5, <2>1, LocalStep
<1>6. CASE pc[c] = "append" /\ Accept(c)
  <2>1. /\ StoreInv' /\ Grows /\ decisions' \subseteq Decisions
        /\ \A d \in decisions' : d \in decisions \/ Founded(d)'
    BY <1>1, <1>6, AcceptKeeps
  <2>2. RestTypeOK'
    BY <1>1, <1>4, <2>1 DEF RestTypeOK, upkeepVars
  <2>3. QED BY <1>3, <2>1, <2>2, StepKeeps
<1>7. QED BY <1>5, <1>6 DEF ServiceFails

-----------------------------------------------------------------------------
\* Steps of others than the callers.
LEMMA OtherStep ==
    ASSUME KInv, StoreInv', Grows, UNCHANGED <<callVars, serviceVars, historyVars>>,
           truncating' \in [Maintainers -> Truncations \union {NoTruncation}],
           touched' \in [Streams -> Nat], failures' \in 0..MaxFailures
    PROVE  KInv'
<1>1. CallsTypeOK' /\ ServiceTypeOK' /\ UNCHANGED decisions
  BY PartsOfKInv DEF CallsTypeOK, ServiceTypeOK, callVars, serviceVars, historyVars
<1>2. RestTypeOK'
  BY PartsOfKInv DEF RestTypeOK, historyVars
<1>3. \A d \in Callers : Stays(d)
  BY DEF Stays, callVars, serviceVars
<1>4. QED BY <1>1, <1>2, <1>3, StepKeeps

LEMMA DeleteKeeps ==
    ASSUME KInv, NEW s \in Streams, NEW expected, Delete(s, expected)
    PROVE  KInv'
<1>1. StoreInv /\ KurrentTypeOK /\ RestTypeOK
  BY PartsOfKInv
<1>2. KurrentTypeOK' /\ UNCHANGED <<typeMapVars, log>>
  BY <1>1 DEF Delete, DeleteStream, KurrentTypeOK
<1>3. StoreInv' /\ Grows
  BY <1>1, <1>2, StoreStays
<1>4. QED BY <1>1, <1>3, OtherStep DEF Delete, Maintain, RestTypeOK

LEMMA CheckKeeps ==
    ASSUME KInv, NEW m \in Maintainers, NEW s \in Streams, NEW position \in Positions,
           NEW expected, CheckVersion(m, s, position, expected)
    PROVE  KInv'
<1>1. StoreInv /\ KurrentTypeOK /\ RestTypeOK
  BY PartsOfKInv
<1>2. KurrentTypeOK' /\ UNCHANGED <<typeMapVars, log>>
  BY <1>1 DEF CheckVersion, kurrentVars, KurrentTypeOK
<1>3. StoreInv' /\ Grows
  BY <1>1, <1>2, StoreStays
<1>4. failures' \in 0..MaxFailures
  BY <1>1, KurrentAssumption DEF CheckVersion, RestTypeOK
<1>5. truncating' \in [Maintainers -> Truncations \union {NoTruncation}]
  BY <1>1 DEF CheckVersion, RestTypeOK, Truncations
<1>6. QED BY <1>1, <1>3, <1>4, <1>5, OtherStep DEF CheckVersion, Maintain, RestTypeOK

LEMMA WriteKeeps ==
    ASSUME KInv, NEW m \in Maintainers, WriteMetadata(m)
    PROVE  KInv'
<1>1. StoreInv /\ KurrentTypeOK /\ RestTypeOK
  BY PartsOfKInv
<1>2. truncating[m].stream \in Streams /\ truncating[m].position \in Nat
  BY <1>1, KurrentAssumption DEF WriteMetadata, RestTypeOK, Truncations
<1>3. KurrentTypeOK' /\ UNCHANGED <<typeMapVars, log>>
  BY <1>1, <1>2 DEF WriteMetadata, SetTruncateBefore, KurrentTypeOK
<1>4. StoreInv' /\ Grows
  BY <1>1, <1>3, StoreStays
<1>5. QED BY <1>1, <1>4, OtherStep DEF WriteMetadata, RestTypeOK

\* Nobody's type but its own has the name of an event another program writes.
LEMMA ForeignLegible ==
    ASSUME StoreInv, NEW e \in Foreign
    PROVE  e \in Sent /\ LegibleEvent(e)
<1>1. /\ e \in Sent /\ e.name \in Names
      /\ e = [name |-> e.name, payload |-> e.payload]
  BY KurrentAssumption DEF Sent
<1>2. CASE TypeOf(e.payload) \in DOMAIN Initially /\ Initially[TypeOf(e.payload)] = e.name
  <2>1. TypeOf(e.payload) \in GoTypes /\ toName[TypeOf(e.payload)] = e.name
    BY <1>2, KurrentAssumption DEF StoreInv, MapAgrees
  <2>2. e.name # Unmapped
    BY <1>1, TypeMapAssumption
  <2>3. QED BY <1>1, <2>1, <2>2 DEF StoreInv, MapAgrees, LegibleEvent
<1>3. CASE \A t \in GoTypes \ {TypeOf(e.payload)} :
               t \in DOMAIN Initially /\ Initially[t] # e.name
  <2>1. CASE fromName[e.name] = Unmapped
    BY <1>1, <2>1 DEF LegibleEvent
  <2>2. CASE fromName[e.name] # Unmapped
    <3>1. fromName[e.name] \in GoTypes /\ toName[fromName[e.name]] = e.name
      BY <1>1, <2>2 DEF StoreInv, TypeMapTypeOK, MapAgrees
    <3>2. fromName[e.name] = TypeOf(e.payload)
      BY <1>3, <3>1 DEF StoreInv, MapAgrees
    <3>3. QED BY <1>1, <3>2 DEF LegibleEvent
  <2>3. QED BY <2>1, <2>2
<1>4. QED BY <1>2, <1>3, ForeignAssumption

LEMMA ForeignKeeps ==
    ASSUME KInv, NEW s \in Streams, ForeignAppend(s)
    PROVE  KInv'
<1>1. StoreInv /\ RestTypeOK
  BY PartsOfKInv
<1>2. PICK e \in Foreign : Record(s, <<e>>)
  BY DEF ForeignAppend
<1>3. PICK sent \in Seq(Sent) :
          sent = <<e>> /\ \A i \in 1..Len(sent) : LegibleEvent(sent[i])
  <2>1. e \in Sent /\ LegibleEvent(e)
    BY <1>1, ForeignLegible
  <2>2. <<e>> \in Seq(Sent) /\ Len(<<e>>) = 1 /\ <<e>>[1] = e
    BY <2>1
  <2>3. \A i \in 1..Len(<<e>>) : LegibleEvent(<<e>>[i])
    <3>1. \A i \in 1..Len(<<e>>) : <<e>>[i] = e
      BY <2>2
    <3>2. QED BY <2>1, <3>1
  <2>4. QED BY <2>2, <2>3
<1>4. StoreInv' /\ Grows
  BY <1>1, <1>2, <1>3, RecordKeeps DEF ForeignAppend
<1>5. QED BY <1>1, <1>4, OtherStep DEF ForeignAppend, RestTypeOK, upkeepVars

LEMMA RegisterTypeKeeps ==
    ASSUME KInv, NEW t \in GoTypes, NEW n \in Names, RegisterType(t, n)
    PROVE  KInv'
<1>1. StoreInv /\ RestTypeOK
  BY PartsOfKInv
<1>2. StoreInv' /\ Grows
  BY <1>1, RegisterKeeps DEF RegisterType
<1>3. QED BY <1>1, <1>2, OtherStep DEF RegisterType, RestTypeOK, upkeepVars

-----------------------------------------------------------------------------
LEMMA TypeMapStarts ==
    ASSUME TypeMapInit PROVE TypeMapTypeOK /\ MapAgrees
<1>1. ASSUME NEW t \in DOMAIN Initially
      PROVE  /\ t \in GoTypes /\ Initially[t] \in Names
             /\ toName[t] = Initially[t] /\ fromName[Initially[t]] = t
  <2>1. t \in GoTypes /\ Initially[t] \in Names /\ toName[t] = Initially[t]
    BY KurrentAssumption DEF TypeMapInit
  <2>2. fromName[Initially[t]] = CHOOSE u \in DOMAIN Initially : Initially[u] = Initially[t]
    BY <2>1 DEF TypeMapInit
  <2>3. \A u \in DOMAIN Initially : Initially[u] = Initially[t] => u = t
    BY KurrentAssumption
  <2>4. (CHOOSE u \in DOMAIN Initially : Initially[u] = Initially[t]) = t
    BY <2>3
  <2>5. QED BY <2>1, <2>2, <2>4
<1>2. ASSUME NEW n \in Names
      PROVE  \/ fromName[n] = Unmapped
             \/ \E t \in DOMAIN Initially : Initially[t] = n /\ fromName[n] = t
  <2>1. CASE \E t \in DOMAIN Initially : Initially[t] = n
    BY <1>1, <2>1
  <2>2. CASE ~\E t \in DOMAIN Initially : Initially[t] = n
    BY <2>2 DEF TypeMapInit
  <2>3. QED BY <2>1, <2>2
<1>3. TypeMapTypeOK
  <2>1. DOMAIN toName = GoTypes /\ DOMAIN fromName = Names
    BY DEF TypeMapInit
  <2>2. \A t \in GoTypes : toName[t] \in Names \union {Unmapped}
    BY <1>1 DEF TypeMapInit
  <2>3. \A n \in Names : fromName[n] \in GoTypes \union {Unmapped}
    BY <1>1, <1>2
  <2>4. toName = [t \in GoTypes |-> toName[t]] /\ fromName = [n \in Names |-> fromName[n]]
    BY DEF TypeMapInit
  <2>5. QED BY <2>2, <2>3, <2>4 DEF TypeMapTypeOK
<1>4. ASSUME NEW t \in GoTypes, toName[t] # Unmapped PROVE fromName[toName[t]] = t
  <2>1. t \in DOMAIN Initially
    BY <1>4 DEF TypeMapInit
  <2>2. QED BY <1>1, <2>1
<1>5. ASSUME NEW n \in Names, fromName[n] # Unmapped PROVE toName[fromName[n]] = n
  BY <1>1, <1>2, <1>5
<1>6. QED BY <1>1, <1>3, <1>4, <1>5 DEF MapAgrees

LEMMA Starts == Init => KInv
<1> SUFFICES ASSUME Init PROVE KInv
  OBVIOUS
<1>1. TypeMapTypeOK /\ MapAgrees
  BY TypeMapStarts DEF Init
<1>2. KurrentTypeOK /\ Legible
  <2>1. \A s \in Streams : log[s] = <<>> /\ Len(log[s]) = 0
    BY DEF Init, KurrentInit
  <2>2. KurrentTypeOK
    BY DEF Init, KurrentInit, KurrentTypeOK
  <2>3. QED BY <2>1, <2>2 DEF Legible
<1>3. CallsTypeOK
  <2>1. Failure("none") \in Results
    BY FailureTyped DEF Outcomes
  <2>2. QED BY <2>1 DEF Init, CallsInit, CallsTypeOK
<1>4. ServiceTypeOK
  <2>1. <<>> \in Seq(Payloads) /\ VersionNoStream \in Int
    BY DEF VersionNoStream
  <2>2. QED BY <2>1 DEF Init, ServiceInit, ServiceTypeOK
<1>5. RestTypeOK
  BY KurrentAssumption DEF Init, RestTypeOK
<1>6. \A c \in Callers : Knows(c)
  BY DEF Init, CallsInit, Knows, AllCallers
<1>7. \A d \in decisions : Founded(d)
  BY DEF Init
<1>8. QED BY <1>1, <1>2, <1>3, <1>4, <1>5, <1>6, <1>7 DEF KInv, TypeOK, RestTypeOK

LEMMA StutterKeeps == ASSUME KInv, UNCHANGED vars PROVE KInv'
<1>1. /\ UNCHANGED <<typeMapVars, kurrentVars, upkeepVars, decisions>>
      /\ UNCHANGED <<callVars, serviceVars, failures, since>>
  BY DEF vars, historyVars
<1>2. CallsTypeOK' /\ ServiceTypeOK'
  BY <1>1, PartsOfKInv DEF CallsTypeOK, ServiceTypeOK, callVars, serviceVars
<1>3. failures' \in 0..MaxFailures /\ since' \in [Callers -> Nat]
  BY <1>1, PartsOfKInv DEF RestTypeOK
<1>4. \A d \in Callers : Stays(d)
  BY <1>1 DEF Stays, callVars, serviceVars
<1>5. QED BY <1>1, <1>2, <1>3, <1>4, LocalStep

LEMMA Preserved == KInv /\ [Next]_vars => KInv'
<1> SUFFICES ASSUME KInv, [Next]_vars PROVE KInv'
  OBVIOUS
<1>1. CASE \E c \in Callers, k \in Commands : ServiceCall(c, k)
  BY <1>1, CallKeeps
<1>2. CASE \E c \in Callers : ServiceLocal(c)
  BY <1>2, LoadKeeps, LoadFailsKeeps, DecideKeeps, EncodeFailsKeeps DEF ServiceLocal
<1>3. CASE \E c \in Callers : ServiceStore(c)
  BY <1>3, AppendServiceKeeps, ConflictKeeps, FailsKeeps DEF ServiceStore
<1>4. CASE \E s \in Streams, expected \in Expectable : Delete(s, expected)
  BY <1>4, DeleteKeeps
<1>5. CASE \E s \in Streams, expected \in Expectable, m \in Maintainers,
              position \in Positions : CheckVersion(m, s, position, expected)
  BY <1>5, CheckKeeps
<1>6. CASE \E m \in Maintainers : WriteMetadata(m)
  BY <1>6, WriteKeeps
<1>7. CASE \E s \in Streams : ForeignAppend(s)
  BY <1>7, ForeignKeeps
<1>8. CASE \E t \in GoTypes, n \in Names : RegisterType(t, n)
  BY <1>8, RegisterTypeKeeps
<1>9. CASE UNCHANGED vars
  BY <1>9, StutterKeeps
<1>10. QED
  BY <1>1, <1>2, <1>3, <1>4, <1>5, <1>6, <1>7, <1>8, <1>9 DEF Next

\* The invariant the theorems follow from: types that agree on names, events that are
\* legible, and calls that know their stream whole once its revision matches.
THEOREM Inductive == Spec => []KInv
BY Starts, Preserved, PTL DEF Spec

\* The variables of the KurrentDB store, of its type map and of the calls over it keep
\* their types: no revision becomes negative, whatever is deleted or truncated.
THEOREM TypeCorrect == Spec => []TypeOK
<1>1. KInv => TypeOK
  BY DEF KInv
<1>2. QED BY <1>1, Inductive, PTL

LEMMA KInvDecided == KInv => DecidedOnWholeStream
<1> SUFFICES ASSUME KInv, NEW d \in decisions
             PROVE  \/ d.seen = PayloadsOf(SubSeq(log[d.stream], 1, d.at))
                    \/ d.anew /\ d.seen = <<>>
  BY DEF DecidedOnWholeStream
<1>1. Founded(d) /\ d \in Decisions
  BY DEF KInv, TypeOK
<1>2. PICK q \in Seq(RecordedEvents) : q = log[d.stream]
  BY <1>1 DEF KInv, TypeOK, KurrentTypeOK, Decisions
<1>3. d.seen \in Seq(Payloads) /\ d.at \in 0..Len(q) /\ Len(q) \in Nat
  BY <1>1, <1>2 DEF Decisions, Founded
<1>4. CASE d.anew /\ d.seen = <<>>
  BY <1>4
<1>5. CASE Len(d.seen) = d.at /\ Begins(d.stream, d.seen)
  <2>1. PICK first \in Seq(RecordedEvents) :
           /\ first = SubSeq(q, 1, d.at) /\ Len(first) = d.at
           /\ \A i \in 1..d.at : first[i] = q[i]
    <3>1. PICK n \in 0..Len(q) : n = d.at
      BY <1>3
    <3>2. /\ SubSeq(q, 1, n) \in Seq(RecordedEvents) /\ Len(SubSeq(q, 1, n)) = n
          /\ \A i \in 1..n : SubSeq(q, 1, n)[i] = q[i]
      BY PrefixProperties
    <3>3. QED BY <3>1, <3>2
  <2>2. \A i \in 1..d.at : d.seen[i] = first[i].payload
    BY <1>2, <1>5, <2>1 DEF Begins
  <2>3. d.seen = [i \in 1..d.at |-> d.seen[i]]
    <3>1. \A p \in Seq(Payloads) : p = [i \in 1..Len(p) |-> p[i]]
      OBVIOUS
    <3>2. QED BY <1>3, <1>5, <3>1
  <2>4. PayloadsOf(first) = [i \in 1..d.at |-> first[i].payload]
    BY <2>1 DEF PayloadsOf
  <2>5. d.seen = PayloadsOf(first)
    BY <2>2, <2>3, <2>4
  <2>6. QED BY <1>2, <2>1, <2>5
<1>6. QED BY <1>1, <1>4, <1>5 DEF Founded

\* No command is ever appended to a KurrentDB stream on a decision that missed events of
\* it, or took an event for one of another type, for any callers, maintainers, programs
\* and registrations; only a deleted stream is begun anew without them.
THEOREM NothingIsMissed == Spec => []DecidedOnWholeStream
BY Inductive, KInvDecided, PTL

-----------------------------------------------------------------------------
\* Nothing has happened to a stream that nobody deleted or truncated.
Untouched(s) ==
    /\ before[s] = 0 /\ s \notin deleted
    /\ \A m \in Maintainers : truncating[m] # NoTruncation => truncating[m].stream # s

Upkept ==
    /\ \A s \in Streams : touched[s] = 0 => Untouched(s)
    /\ \A s \in Streams : Len(log[s]) <= commits

\* A call knows at least the events its stream had when it began, unless somebody
\* deleted or truncated it.
Current(c) ==
    /\ pc[c] # "idle" => since[c] <= Len(log[CallStream(c)])
    /\ pc[c] \in {"decide", "append"} =>
          touched[CallStream(c)] > 0 \/ since[c] <= Len(seen[c])
    /\ result[c].outcome = "conflict" =>
          /\ cmd[c] \in DOMAIN Handlers
          /\ touched[CallStream(c)] > 0 \/ Len(log[CallStream(c)]) > since[c]

NInv == Upkept /\ (commits <= Everything => \A c \in Callers : Current(c))

\* What is sent to the server for events whose types all have a name.
LEMMA EncodedIsSent ==
    ASSUME StoreInv, NEW new \in Seq(Payloads), CanEncode(new)
    PROVE  Encoded(new) \in Seq(Sent) /\ Len(Encoded(new)) = Len(new)
<1>1. Len(new) \in Nat /\ \A i \in 1..Len(new) : new[i] \in Payloads
  OBVIOUS
<1>2. \A i \in 1..Len(new) : toName[TypeOf(new[i])] \in Names
  BY DEF CanEncode, HasTypeName, StoreInv, TypeMapTypeOK
<1>3. Encoded(new) \in [1..Len(new) -> Sent]
  BY <1>1, <1>2 DEF Encoded, Sent
<1>4. QED BY <1>1, <1>3

LEMMA AcceptRecords ==
    ASSUME KInv, NEW c \in Callers, pc[c] = "append", Accept(c)
    PROVE  \E sent \in Seq(Sent) :
              CallStream(c) \in Streams /\ Record(CallStream(c), sent)
<1>1. StoreInv /\ CallsTypeOK /\ ServiceTypeOK /\ c \in AllCallers
  BY PartsOfKInv DEF AllCallers
<1>2. CallStream(c) \in Streams
  BY <1>1, HandlersAssumption DEF CallsTypeOK, CallStream, StreamOf
<1>3. fresh[c] \in Seq(Payloads)
  <2>1. fresh[c] \in Batches \union {<<>>}
    BY <1>1 DEF ServiceTypeOK
  <2>2. <<>> \in Seq(Payloads)
    OBVIOUS
  <2>3. QED BY <2>1, <2>2, BatchesAssumption
<1>4. CanEncode(fresh[c]) /\ Record(CallStream(c), Encoded(fresh[c]))
  BY DEF Accept, KurrentAppend
<1>5. QED BY <1>1, <1>2, <1>3, <1>4, EncodedIsSent

\* The steps by what they do to the streams: nothing, an append, or upkeep.
LEMMA StepShapes ==
    ASSUME KInv, [Next]_vars
    PROVE  \/ UNCHANGED <<kurrentVars, upkeepVars>>
           \/ /\ \E s \in Streams, sent \in Seq(Sent) : Record(s, sent)
              /\ UNCHANGED upkeepVars
           \/ \E s \in Streams, expected \in Expectable : Delete(s, expected)
           \/ \E m \in Maintainers, s \in Streams, position \in Positions,
                 expected \in Expectable : CheckVersion(m, s, position, expected)
           \/ \E m \in Maintainers : WriteMetadata(m)
<1>1. CASE UNCHANGED vars
  BY <1>1 DEF vars
<1>2. ASSUME NEW c \in Callers,
             (\E k \in Commands : ServiceCall(c, k)) \/ ServiceLocal(c)
      PROVE  UNCHANGED <<kurrentVars, upkeepVars>>
  BY <1>2 DEF ServiceCall, ServiceLocal, ServiceLoad, ServiceLoadFails, ServiceDecide,
     ServiceEncodeFails
<1>3. ASSUME NEW c \in Callers, ServiceStore(c)
      PROVE  \/ UNCHANGED <<kurrentVars, upkeepVars>>
             \/ /\ \E s \in Streams, sent \in Seq(Sent) : Record(s, sent)
                /\ UNCHANGED upkeepVars
  <2>1. UNCHANGED upkeepVars
    BY <1>3 DEF ServiceStore, ServiceAppend, ServiceConflict, ServiceFails
  <2>2. UNCHANGED kurrentVars \/ (pc[c] = "append" /\ Accept(c))
    BY <1>3 DEF ServiceStore, ServiceAppend, Appended, ServiceConflict, KurrentConflict,
       ServiceFails
  <2>3. QED BY <2>1, <2>2, AcceptRecords
<1>4. ASSUME NEW s \in Streams, ForeignAppend(s)
      PROVE  /\ \E t \in Streams, sent \in Seq(Sent) : Record(t, sent)
             /\ UNCHANGED upkeepVars
  <2>1. PICK e \in Foreign : Record(s, <<e>>)
    BY <1>4 DEF ForeignAppend
  <2>2. e \in Sent
    BY KurrentAssumption DEF Sent
  <2>3. <<e>> \in Seq(Sent)
    BY <2>2
  <2>4. QED BY <1>4, <2>1, <2>3 DEF ForeignAppend
<1>5. ASSUME NEW t \in GoTypes, NEW n \in Names, RegisterType(t, n)
      PROVE  UNCHANGED <<kurrentVars, upkeepVars>>
  BY <1>5 DEF RegisterType
<1>6. QED BY <1>1, <1>2, <1>3, <1>4, <1>5 DEF Next

LEMMA RecordUpkeeps ==
    ASSUME KInv, Upkept, NEW s \in Streams, NEW sent \in Seq(Sent), Record(s, sent),
           UNCHANGED upkeepVars
    PROVE  Upkept' /\ Grows /\ commits' >= commits
<1>1. KurrentTypeOK /\ touched \in [Streams -> Nat]
  BY PartsOfKInv DEF RestTypeOK
<1>2. /\ KurrentTypeOK' /\ Grows
      /\ Len(log'[s]) = Len(log[s]) + Len(sent)
      /\ \A t \in Streams \ {s} : log'[t] = log[t]
  BY <1>1, RecordGrows
<1>3. commits' = commits + Len(sent) /\ commits \in Nat /\ Len(sent) \in Nat
      /\ commits' \in Nat
  BY <1>1 DEF Record, KurrentTypeOK
<1>4. ASSUME NEW t \in Streams PROVE Len(log'[t]) <= commits'
  <2>1. Len(log[t]) \in Nat /\ Len(log[t]) <= commits
    BY <1>1 DEF KurrentTypeOK, Upkept
  <2>2. CASE t = s
    BY <1>2, <1>3, <2>1, <2>2
  <2>3. CASE t # s
    <3>1. log'[t] = log[t]
      BY <1>2, <2>3
    <3>2. QED BY <1>3, <2>1, <3>1
  <2>4. QED BY <2>2, <2>3
<1>5. ASSUME NEW t \in Streams, touched'[t] = 0 PROVE Untouched(t)'
  <2>1. Untouched(t)
    BY <1>5 DEF Upkept, upkeepVars
  <2>2. before'[t] = before[t] /\ t \notin deleted'
    BY <1>1, <2>1 DEF Record, Untouched, KurrentTypeOK
  <2>3. QED BY <2>1, <2>2 DEF Untouched, upkeepVars
<1>6. QED BY <1>2, <1>3, <1>4, <1>5 DEF Upkept

LEMMA StepUpkeeps ==
    ASSUME KInv, Upkept, [Next]_vars
    PROVE  /\ Upkept' /\ Grows /\ commits' >= commits
           /\ \A s \in Streams : touched'[s] >= touched[s] /\ touched'[s] \in Nat
<1>1. KurrentTypeOK /\ touched \in [Streams -> Nat]
      /\ truncating \in [Maintainers -> Truncations \union {NoTruncation}]
  BY PartsOfKInv DEF RestTypeOK
<1>2. commits \in Nat
  BY <1>1 DEF KurrentTypeOK
<1>3. CASE UNCHANGED <<kurrentVars, upkeepVars>>
  <2>1. Upkept' /\ commits' = commits
    BY <1>3 DEF Upkept, Untouched, kurrentVars, upkeepVars
  <2>2. Grows
    BY <1>1, <1>3, StaysGrows DEF kurrentVars
  <2>3. QED BY <1>1, <1>2, <1>3, <2>1, <2>2 DEF upkeepVars
<1>4. CASE /\ \E s \in Streams, sent \in Seq(Sent) : Record(s, sent)
           /\ UNCHANGED upkeepVars
  BY <1>1, <1>4, RecordUpkeeps DEF upkeepVars
<1>5. ASSUME NEW s \in Streams, Maintain(s),
             UNCHANGED <<log, before, commits>>,
             \A t \in Streams \ {s} : t \in deleted' <=> t \in deleted,
             \A m \in Maintainers :
                \/ truncating'[m] = truncating[m]
                \/ truncating'[m] # NoTruncation /\ truncating'[m].stream = s
      PROVE  /\ Upkept' /\ Grows /\ commits' >= commits
             /\ \A t \in Streams : touched'[t] >= touched[t] /\ touched'[t] \in Nat
  <2>1. /\ touched'[s] = touched[s] + 1
        /\ \A t \in Streams \ {s} : touched'[t] = touched[t]
        /\ touched'[s] # 0
    BY <1>1, <1>5 DEF Maintain
  <2>2. ASSUME NEW t \in Streams, touched'[t] = 0 PROVE Untouched(t)'
    <3>1. t # s /\ Untouched(t)
      BY <2>1, <2>2 DEF Upkept
    <3>2. QED BY <1>5, <3>1 DEF Untouched
  <2>3. Grows
    BY <1>1, <1>5, StaysGrows
  <2>4. Upkept'
    BY <1>5, <2>2 DEF Upkept
  <2>5. \A t \in Streams : touched'[t] >= touched[t] /\ touched'[t] \in Nat
    BY <1>1, <2>1
  <2>6. QED BY <1>2, <1>5, <2>3, <2>4, <2>5
<1>6. ASSUME NEW s \in Streams, NEW expected, Delete(s, expected)
      PROVE  /\ Upkept' /\ Grows /\ commits' >= commits
             /\ \A t \in Streams : touched'[t] >= touched[t] /\ touched'[t] \in Nat
  BY <1>5, <1>6 DEF Delete, DeleteStream
<1>7. ASSUME NEW m \in Maintainers, NEW s \in Streams, NEW position \in Positions,
             NEW expected, CheckVersion(m, s, position, expected)
      PROVE  /\ Upkept' /\ Grows /\ commits' >= commits
             /\ \A t \in Streams : touched'[t] >= touched[t] /\ touched'[t] \in Nat
  <2>1. UNCHANGED <<log, before, commits, deleted>> /\ Maintain(s)
    BY <1>7 DEF CheckVersion, kurrentVars
  <2>2. \A n \in Maintainers :
           \/ truncating'[n] = truncating[n]
           \/ truncating'[n] # NoTruncation /\ truncating'[n].stream = s
    BY <1>1, <1>7 DEF CheckVersion, NoTruncation
  <2>3. QED BY <1>5, <2>1, <2>2
<1>8. ASSUME NEW m \in Maintainers, WriteMetadata(m)
      PROVE  /\ Upkept' /\ Grows /\ commits' >= commits
             /\ \A t \in Streams : touched'[t] >= touched[t] /\ touched'[t] \in Nat
  <2>1. PICK s : s = truncating[m].stream
    OBVIOUS
  <2>2. /\ truncating[m] # NoTruncation /\ UNCHANGED <<log, commits, touched>>
        /\ before' = [before EXCEPT ![s] = truncating[m].position]
        /\ deleted' = deleted \ {s}
        /\ truncating' = [truncating EXCEPT ![m] = NoTruncation]
    BY <1>8, <2>1 DEF WriteMetadata, SetTruncateBefore
  <2>3. ASSUME NEW t \in Streams, touched'[t] = 0 PROVE Untouched(t)'
    <3>1. Untouched(t) /\ t # s
      BY <2>1, <2>2, <2>3 DEF Upkept, Untouched
    <3>2. before'[t] = before[t]
      BY <1>1, <2>2, <3>1 DEF KurrentTypeOK
    <3>3. \A n \in Maintainers : truncating'[n] \in {truncating[n], NoTruncation}
      BY <1>1, <2>2
    <3>4. QED BY <2>2, <3>1, <3>2, <3>3 DEF Untouched
  <2>4. Grows
    BY <1>1, <2>2, StaysGrows
  <2>5. QED BY <1>1, <1>2, <2>2, <2>3, <2>4 DEF Upkept
<1>9. QED BY <1>3, <1>4, <1>6, <1>7, <1>8, StepShapes

\* A stream that is not truncated, and shorter than what is asked for, is read whole.
LEMMA ReadsWhole ==
    ASSUME KurrentTypeOK, NEW s \in Streams, before[s] = 0, Len(log[s]) <= Everything
    PROVE  Len(ReadEvents(s, 0, Everything)) = Len(log[s])
<1>1. PICK all \in Seq(RecordedEvents) : all = log[s]
  BY DEF KurrentTypeOK
<1>2. PICK n \in Nat : n = Len(all)
  OBVIOUS
<1>3. PICK shown \in Seq(RecordedEvents) : shown = SubSeq(all, 1, n) /\ Len(shown) = n
  <2>1. n \in 0..Len(all)
    BY <1>2
  <2>2. SubSeq(all, 1, n) \in Seq(RecordedEvents) /\ Len(SubSeq(all, 1, n)) = n
    BY ONLY all \in Seq(RecordedEvents), <2>1, PrefixProperties
  <2>3. QED BY <2>2
<1>4. VisibleFrom(s, 0) = shown
  BY <1>1, <1>2, <1>3 DEF VisibleFrom
<1>5. PICK first \in Seq(RecordedEvents) : first = SubSeq(shown, 1, n) /\ Len(first) = n
  <2>1. n \in 0..Len(shown)
    BY <1>3
  <2>2. SubSeq(shown, 1, n) \in Seq(RecordedEvents) /\ Len(SubSeq(shown, 1, n)) = n
    BY ONLY shown \in Seq(RecordedEvents), <2>1, PrefixProperties
  <2>3. QED BY <2>2
<1>6. Forwards(s, 0, Everything) = first
  <2>1. ~(Everything < n)
    BY <1>1, <1>2 DEF Everything
  <2>2. QED BY <1>3, <1>4, <1>5, <2>1 DEF Forwards, FirstOf
<1>7. Len(AsRead(first)) = n
  BY <1>5 DEF AsRead
<1>8. QED BY <1>1, <1>2, <1>6, <1>7 DEF ReadEvents

\* The server's answer to the expected versions that Handle passes.
LEMMA MatchesMeans ==
    ASSUME NEW s, NEW v
    PROVE  /\ v \in Nat => (Matches(s, v) <=> v = Len(log[s]) - 1)
           /\ v = VersionNoStream => (Matches(s, v) <=> log[s] = <<>> \/ s \in deleted)
           /\ v = VersionAny => Matches(s, v)
<1>1. PICK state : state = MapExpectedVersion(v)
  OBVIOUS
<1>2. ASSUME v \in Nat PROVE Matches(s, v) <=> v = Len(log[s]) - 1
  <2>1. state.kind = "Revision" /\ state.revision = v
    BY <1>1, <1>2 DEF MapExpectedVersion, VersionNoStream, VersionAny
  <2>2. StateMatches(s, state) <=> state.revision = Len(log[s]) - 1
    BY <2>1 DEF StateMatches, Revision
  <2>3. QED BY <1>1, <2>1, <2>2 DEF Matches
<1>3. ASSUME v = VersionNoStream PROVE Matches(s, v) <=> log[s] = <<>> \/ s \in deleted
  <2>1. state.kind = "NoStream"
    BY <1>1, <1>3 DEF MapExpectedVersion, VersionNoStream, VersionAny
  <2>2. QED BY <1>1, <2>1 DEF Matches, StateMatches
<1>4. ASSUME v = VersionAny PROVE Matches(s, v)
  <2>1. state.kind = "Any"
    BY <1>1, <1>4 DEF MapExpectedVersion, VersionNoStream, VersionAny
  <2>2. QED BY <1>1, <2>1 DEF Matches, StateMatches
<1>5. QED BY <1>2, <1>3, <1>4

\* What a call knows stays current while it waits and its stream grows.
LEMMA CurrentStays ==
    ASSUME KInv, KInv', Grows, NEW c \in Callers, Current(c), Stays(c),
           result'[c] = result[c], since'[c] = since[c],
           \A s \in Streams : touched'[s] >= touched[s] /\ touched'[s] \in Nat
    PROVE  Current(c)'
<1>1. CallStream(c)' = CallStream(c) /\ c \in AllCallers
  BY DEF Stays, CallStream, AllCallers
<1>2. ASSUME CallStream(c) \in Streams
      PROVE  /\ Len(log[CallStream(c)]) \in Nat /\ Len(log'[CallStream(c)]) \in Nat
             /\ Len(log'[CallStream(c)]) >= Len(log[CallStream(c)])
             /\ touched[CallStream(c)] \in Nat /\ touched'[CallStream(c)] \in Nat
             /\ touched'[CallStream(c)] >= touched[CallStream(c)]
  BY <1>2, PartsOfKInv DEF KInv, TypeOK, KurrentTypeOK, Grows, RestTypeOK
<1>3. since[c] \in Nat
  BY PartsOfKInv DEF RestTypeOK
<1>4. cmd[c] \in DOMAIN Handlers => CallStream(c) \in Streams
  BY HandlersAssumption DEF CallStream, StreamOf
<1>5. pc[c] # "idle" => cmd[c] \in DOMAIN Handlers
  BY <1>1, PartsOfKInv DEF CallsTypeOK
<1>6. pc'[c] # "idle" => since'[c] <= Len(log'[CallStream(c)'])
  BY <1>1, <1>2, <1>3, <1>4, <1>5 DEF Current, Stays
<1>7. pc'[c] \in {"decide", "append"} =>
         touched'[CallStream(c)'] > 0 \/ since'[c] <= Len(seen'[c])
  BY <1>1, <1>2, <1>4, <1>5 DEF Current, Stays
<1>8. result'[c].outcome = "conflict" =>
         /\ cmd'[c] \in DOMAIN Handlers
         /\ touched'[CallStream(c)'] > 0 \/ Len(log'[CallStream(c)']) > since'[c]
  BY <1>1, <1>2, <1>3, <1>4 DEF Current, Stays
<1>9. QED BY <1>6, <1>7, <1>8 DEF Current

LEMMA CallCurrent ==
    ASSUME KInv, NEW c \in Callers, NEW k \in Commands, ServiceCall(c, k) PROVE Current(c)'
<1>1. CallsTypeOK /\ c \in AllCallers /\ BeginCall(c, k) /\ UNCHANGED log
      /\ KurrentTypeOK /\ since \in [Callers -> Nat]
  BY PartsOfKInv DEF AllCallers, ServiceCall, Handle, kurrentVars, RestTypeOK
<1>2. /\ cmd'[c] = k
      /\ k \in DOMAIN Handlers => pc'[c] = "load" /\ result'[c].outcome = "pending"
      /\ k \notin DOMAIN Handlers =>
           pc'[c] = "idle" /\ result'[c].outcome = "handlerNotFound"
  BY <1>1, CallBegins
<1>3. CASE k \in DOMAIN Handlers
  <2>1. since'[c] = Len(log'[StreamOf(k)]) /\ StreamOf(k) \in Streams
    BY <1>1, <1>3, HandlersAssumption DEF ServiceCall, StreamOf
  <2>2. Len(log'[StreamOf(k)]) \in Nat
    BY <1>1, <2>1 DEF KurrentTypeOK
  <2>3. QED BY <1>2, <1>3, <2>1, <2>2 DEF Current, CallStream
<1>4. CASE k \notin DOMAIN Handlers
  BY <1>2, <1>4 DEF Current
<1>5. QED BY <1>3, <1>4

\* A call that ends with another outcome than a conflict has nothing to answer for.
LEMMA OtherEndCurrent ==
    ASSUME KInv, NEW c \in Callers, NEW r \in Results, Return(c, r), r.outcome # "conflict"
    PROVE  Current(c)'
<1>1. pc'[c] = "idle" /\ result'[c] = r
  BY PartsOfKInv, CallReturns DEF AllCallers
<1>2. QED BY <1>1 DEF Current

LEMMA LoadCurrent ==
    ASSUME KInv, Upkept, commits <= Everything, NEW c \in Callers, Current(c), ServiceLoad(c)
    PROVE  Current(c)'
<1>1. /\ CallsTypeOK /\ ServiceTypeOK /\ RestTypeOK /\ KurrentTypeOK /\ StoreInv
      /\ c \in AllCallers
  BY PartsOfKInv DEF AllCallers
<1>2. PICK s, raw, found, expected :
          /\ s = CallStream(c) /\ raw = ReadEvents(s, 0, Everything)
          /\ found = KurrentFound(s) /\ expected = ExpectedOf(cmd[c])
  OBVIOUS
<1>3. /\ pc[c] = "load" /\ (found => Readable(s)) /\ Load(c, found, raw)
      /\ UNCHANGED <<typeMapVars, kurrentVars, upkeepVars, failures, historyVars>>
  BY <1>2 DEF ServiceLoad
<1>4. s \in Streams /\ expected \in ExpectedStates /\ found \in BOOLEAN
  <2>1. cmd[c] \in DOMAIN Handlers
    BY <1>1, <1>3 DEF CallsTypeOK
  <2>2. s \in Streams /\ expected \in ExpectedStates
    BY <1>2, <2>1, HandlersAssumption DEF CallStream, StreamOf, ExpectedOf
  <2>3. QED BY <1>2, <2>2 DEF KurrentFound
<1>5. found => raw \in Seq(StreamEvents)
  BY <1>1, <1>2, <1>3, <1>4, ReadsLog
<1>6. PICK loaded : loaded = LoadState(found, raw, expected)
  OBVIOUS
<1>7. /\ loaded.err \in {"none", "streamNotFound", "streamExists"}
      /\ loaded.payloads \in Seq(Payloads)
      /\ ~found => loaded.payloads = <<>>
      /\ found /\ loaded.err = "none" => Len(loaded.payloads) = Len(raw)
  BY <1>4, <1>5, <1>6, LoadStateAnswers
<1>8. CASE loaded.err = "none"
  <2>1. /\ Proceed(c, "decide") /\ seen' = [seen EXCEPT ![c] = loaded.payloads]
    BY <1>2, <1>3, <1>6, <1>8 DEF Load
  <2>2. /\ pc'[c] = "decide" /\ seen'[c] = loaded.payloads
        /\ UNCHANGED <<cmd, result, since, touched, log>>
    BY <1>1, <1>3, <2>1 DEF Proceed, CallsTypeOK, ServiceTypeOK, historyVars, upkeepVars,
       kurrentVars
  <2>3. since[c] <= Len(log[s]) /\ since[c] \in Nat /\ touched[s] \in Nat
    BY <1>1, <1>2, <1>3, <1>4 DEF Current, RestTypeOK
  <2>4. touched[s] > 0 \/ since[c] <= Len(loaded.payloads)
    <3>1. SUFFICES ASSUME touched[s] = 0 PROVE since[c] <= Len(loaded.payloads)
      BY <2>3
    <3>2. before[s] = 0 /\ s \notin deleted /\ Len(log[s]) <= commits
      BY <1>4, <3>1 DEF Upkept, Untouched
    <3>3. Len(log[s]) <= Everything
      BY <1>1, <1>4, <3>2 DEF KurrentTypeOK, Everything
    <3>4. CASE found
      <4>1. Len(raw) = Len(log[s])
        BY <1>1, <1>2, <1>4, <3>2, <3>3, ReadsWhole
      <4>2. QED BY <1>7, <1>8, <2>3, <3>4, <4>1
    <3>5. CASE ~found
      <4>1. log[s] = <<>>
        BY <1>2, <3>2, <3>5 DEF KurrentFound
      <4>2. QED BY <1>7, <2>3, <3>5, <4>1
    <3>6. QED BY <1>4, <3>4, <3>5
  <2>5. CallStream(c)' = s
    BY <1>2, <2>2 DEF CallStream
  <2>6. result[c].outcome = "conflict" =>
           cmd[c] \in DOMAIN Handlers /\ (touched[s] > 0 \/ Len(log[s]) > since[c])
    BY <1>2 DEF Current
  <2>7. QED BY <2>2, <2>3, <2>4, <2>5, <2>6 DEF Current
<1>9. CASE loaded.err # "none"
  <2>1. Return(c, Failure(loaded.err))
    BY <1>2, <1>3, <1>6, <1>9 DEF Load
  <2>2. Failure(loaded.err) \in Results /\ Failure(loaded.err).outcome # "conflict"
    <3>1. loaded.err \in Outcomes
      BY <1>7 DEF Outcomes
    <3>2. QED BY <1>7, <3>1 DEF Failure, Results, VersionNoStream
  <2>3. QED BY <2>1, <2>2, OtherEndCurrent
<1>10. QED BY <1>8, <1>9

LEMMA DecideCurrent ==
    ASSUME KInv, NEW c \in Callers, Current(c), ServiceDecide(c) PROVE Current(c)'
<1>1. /\ CallsTypeOK /\ ServiceTypeOK /\ RestTypeOK /\ c \in AllCallers
      /\ pc[c] = "decide"
      /\ UNCHANGED <<typeMapVars, kurrentVars, upkeepVars, failures, historyVars>>
  BY PartsOfKInv DEF AllCallers, ServiceDecide, Decide
<1>2. CASE Return(c, Failure("rejected"))
  <2>1. Failure("rejected") \in Results /\ Failure("rejected").outcome # "conflict"
    BY DEF Failure, Results, VersionNoStream, Outcomes
  <2>2. QED BY <1>2, <2>1, OtherEndCurrent
<1>3. CASE Return(c, NoOp(seen[c], version[c]))
  <2>1. /\ NoOp(seen[c], version[c]) \in Results
        /\ NoOp(seen[c], version[c]).outcome # "conflict"
    BY <1>1 DEF NoOp, Results, Outcomes, ServiceTypeOK
  <2>2. QED BY <1>3, <2>1, OtherEndCurrent
<1>4. CASE Proceed(c, "append") /\ UNCHANGED <<seen, version>>
  <2>1. /\ pc'[c] = "append" /\ CallStream(c)' = CallStream(c)
        /\ UNCHANGED <<result, cmd, seen, log, touched, since>>
    BY <1>1, <1>4 DEF Proceed, CallsTypeOK, CallStream, kurrentVars, upkeepVars, historyVars
  <2>2. QED BY <1>1, <2>1 DEF Current
<1>5. QED BY <1>2, <1>3, <1>4 DEF ServiceDecide, Decide

\* The server refuses what was decided on all the events of the stream only if it has
\* received more.
LEMMA ConflictCurrent ==
    ASSUME KInv, Upkept, NEW c \in Callers, Current(c), ServiceConflict(c) PROVE Current(c)'
<1>1. /\ CallsTypeOK /\ ServiceTypeOK /\ RestTypeOK /\ KurrentTypeOK /\ c \in AllCallers
      /\ Knows(c) /\ pc[c] = "append" /\ Return(c, Failure("conflict"))
      /\ ~Matches(CallStream(c), version[c])
      /\ UNCHANGED <<log, touched, since>>
  BY PartsOfKInv DEF AllCallers, KInv, ServiceConflict, Conflict, KurrentConflict,
     kurrentVars, upkeepVars, historyVars
<1>2. PICK s \in Streams : s = CallStream(c) /\ cmd[c] \in DOMAIN Handlers
  BY <1>1, HandlersAssumption DEF CallsTypeOK, CallStream, StreamOf
<1>3. PICK v \in Int, n \in Nat, k \in Nat, l \in Nat :
         /\ v = version[c] /\ n = Len(seen[c]) /\ k = since[c] /\ l = Len(log[s])
         /\ v = n - 1 /\ n <= l
  <2>1. /\ Len(seen[c]) \in Nat /\ since[c] \in Nat /\ Len(log[s]) \in Nat
        /\ version[c] \in Int
    BY <1>1, <1>2 DEF ServiceTypeOK, RestTypeOK, KurrentTypeOK
  <2>2. version[c] = Len(seen[c]) - 1 /\ Len(seen[c]) <= Len(log[s])
    BY <1>1, <1>2 DEF Knows, Read
  <2>3. QED BY <2>1, <2>2
<1>4. touched[s] > 0 \/ l > k
  <2>1. SUFFICES ASSUME touched[s] = 0 PROVE l > k
    BY <1>1 DEF RestTypeOK
  <2>2. s \notin deleted /\ k <= n
    BY <1>1, <1>2, <1>3, <2>1 DEF Upkept, Untouched, Current
  <2>3. ~Matches(s, v)
    BY <1>1, <1>2, <1>3
  <2>4. n # l
    <3>1. CASE v = -1
      <4>1. log[s] # <<>>
        BY <2>3, <3>1, MatchesMeans DEF VersionNoStream
      <4>2. PICK q \in Seq(RecordedEvents) : q = log[s]
        BY <1>1 DEF KurrentTypeOK
      <4>3. QED BY <1>3, <3>1, <4>1, <4>2
    <3>2. CASE v # -1
      <4>1. v \in Nat
        BY <1>3, <3>2
      <4>2. v # l - 1
        BY <1>3, <2>3, <4>1, MatchesMeans
      <4>3. QED BY <1>3, <4>2
    <3>3. QED BY <3>1, <3>2
  <2>5. QED BY <1>3, <2>2, <2>4
<1>5. pc'[c] = "idle" /\ cmd' = cmd
  BY <1>1 DEF Return, CallsTypeOK
<1>6. CallStream(c)' = s
  BY <1>2, <1>5 DEF CallStream
<1>7. touched'[s] > 0 \/ Len(log'[s]) > since'[c]
  BY <1>1, <1>3, <1>4
<1>8. pc'[c] = "idle" /\ cmd'[c] \in DOMAIN Handlers
  BY <1>2, <1>5
<1>9. QED BY <1>6, <1>7, <1>8 DEF Current

LEMMA EndsCurrent ==
    ASSUME KInv, NEW c \in Callers,
           ServiceLoadFails(c) \/ ServiceEncodeFails(c) \/ ServiceFails(c)
           \/ ServiceAppend(c)
    PROVE  Current(c)'
<1>1. CASE ServiceLoadFails(c) \/ ServiceEncodeFails(c) \/ ServiceFails(c)
  <2>1. \A o \in {"storeFailed", "typeUnknown"} :
           Failure(o) \in Results /\ Failure(o).outcome # "conflict"
    BY DEF Failure, Results, VersionNoStream, Outcomes
  <2>2. \E o \in {"storeFailed", "typeUnknown"} : Return(c, Failure(o))
    BY <1>1 DEF ServiceLoadFails, ServiceEncodeFails, ServiceFails
  <2>3. QED BY <2>1, <2>2, OtherEndCurrent
<1>2. CASE ServiceAppend(c)
  <2>1. /\ KurrentTypeOK /\ CallsTypeOK /\ ServiceTypeOK /\ Knows(c)
        /\ pc[c] = "append" /\ c \in AllCallers
    BY <1>2, PartsOfKInv DEF AllCallers, KInv, ServiceAppend, Appended
  <2>2. pc'[c] = "idle" /\ result'[c].outcome \in {"ok", "typeUnknown"}
    BY <1>2, <2>1 DEF ServiceAppend, Appended, Return, AppendedResult, Success, Failure,
       CallsTypeOK
  <2>3. QED BY <2>2 DEF Current
<1>3. QED BY <1>1, <1>2

\* A step is one of a caller's, which leaves the other callers alone, or of nobody's.
LEMMA OthersStay ==
    ASSUME KInv, [Next]_vars
    PROVE  \/ \A d \in Callers :
                 Stays(d) /\ result'[d] = result[d] /\ since'[d] = since[d]
           \/ \E c \in Callers :
                 /\ (\E k \in Commands : ServiceCall(c, k)) \/ ServiceLocal(c)
                    \/ ServiceStore(c)
                 /\ \A d \in Callers \ {c} :
                       Stays(d) /\ result'[d] = result[d] /\ since'[d] = since[d]
<1>1. CallsTypeOK /\ ServiceTypeOK /\ since \in [Callers -> Nat]
      /\ Callers \subseteq AllCallers
  BY PartsOfKInv DEF RestTypeOK, AllCallers
<1>2. CASE UNCHANGED <<callVars, serviceVars, since>>
  BY <1>2 DEF Stays, callVars, serviceVars
<1>3. ASSUME NEW c \in Callers, NEW d \in Callers \ {c},
             (\E k \in Commands : ServiceCall(c, k)) \/ ServiceLocal(c) \/ ServiceStore(c)
      PROVE  Stays(d) /\ result'[d] = result[d] /\ since'[d] = since[d]
  <2>1. pc'[d] = pc[d] /\ cmd'[d] = cmd[d] /\ result'[d] = result[d]
    BY <1>1, <1>3 DEF ServiceCall, Handle, BeginCall, ServiceLocal, ServiceLoad, Load,
       ServiceLoadFails, ServiceDecide, Decide, ServiceEncodeFails, ServiceStore,
       ServiceAppend, Appended, ServiceConflict, Conflict, ServiceFails, Return, Proceed,
       CallsTypeOK
  <2>2. seen'[d] = seen[d] /\ version'[d] = version[d] /\ fresh'[d] = fresh[d]
    BY <1>1, <1>3 DEF ServiceCall, Handle, ServiceLocal, ServiceLoad, Load,
       ServiceLoadFails, ServiceDecide, Decide, ServiceEncodeFails, ServiceStore,
       ServiceAppend, Appended, ServiceConflict, Conflict, ServiceFails, Forget,
       ServiceTypeOK, serviceVars
  <2>3. since'[d] = since[d]
    BY <1>1, <1>3 DEF ServiceCall, ServiceLocal, ServiceLoad, ServiceLoadFails,
       ServiceDecide, ServiceEncodeFails, ServiceStore, ServiceAppend, ServiceConflict,
       ServiceFails, historyVars
  <2>4. QED BY <2>1, <2>2, <2>3 DEF Stays
<1>4. CASE \E c \in Callers :
              (\E k \in Commands : ServiceCall(c, k)) \/ ServiceLocal(c) \/ ServiceStore(c)
  BY <1>3, <1>4
<1>5. CASE \/ \E s \in Streams, expected \in Expectable :
                 \/ Delete(s, expected)
                 \/ \E m \in Maintainers, position \in Positions :
                       CheckVersion(m, s, position, expected)
           \/ \E m \in Maintainers : WriteMetadata(m)
           \/ \E s \in Streams : ForeignAppend(s)
           \/ \E t \in GoTypes, n \in Names : RegisterType(t, n)
           \/ UNCHANGED vars
  BY <1>2, <1>5 DEF Delete, CheckVersion, WriteMetadata, ForeignAppend, RegisterType,
     historyVars, vars
<1>6. QED BY <1>4, <1>5 DEF Next

LEMMA StepCurrent == KInv /\ KInv' /\ NInv /\ [Next]_vars => NInv'
<1> SUFFICES ASSUME KInv, KInv', NInv, [Next]_vars PROVE NInv'
  OBVIOUS
<1>1. /\ Upkept /\ Upkept' /\ Grows /\ commits' >= commits
      /\ \A s \in Streams : touched'[s] >= touched[s] /\ touched'[s] \in Nat
  BY StepUpkeeps DEF NInv
<1>2. SUFFICES ASSUME commits' <= Everything, NEW c \in Callers PROVE Current(c)'
  BY <1>1 DEF NInv
<1>3. commits <= Everything /\ Current(c)
  <2>1. commits \in Nat /\ commits' \in Nat
    BY DEF KInv, TypeOK, KurrentTypeOK
  <2>2. QED BY <1>1, <1>2, <2>1 DEF NInv, Everything
<1>4. CASE Stays(c) /\ result'[c] = result[c] /\ since'[c] = since[c]
  BY <1>1, <1>3, <1>4, CurrentStays
<1>5. CASE (\E k \in Commands : ServiceCall(c, k)) \/ ServiceLocal(c) \/ ServiceStore(c)
  BY <1>1, <1>3, <1>5, CallCurrent, LoadCurrent, DecideCurrent, ConflictCurrent, EndsCurrent
     DEF ServiceLocal, ServiceStore
<1>6. QED BY <1>4, <1>5, OthersStay

LEMMA NStarts == Init => NInv
<1> SUFFICES ASSUME Init PROVE NInv
  OBVIOUS
<1>1. \A s \in Streams : Untouched(s)
  BY DEF Init, KurrentInit, Untouched
<1>2. \A s \in Streams : log[s] = <<>> /\ Len(log[s]) = 0
  BY DEF Init, KurrentInit
<1>3. \A c \in Callers : pc[c] = "idle" /\ result[c].outcome = "none"
  BY DEF Init, CallsInit, AllCallers, Failure
<1>4. commits = 0
  BY DEF Init, KurrentInit
<1>5. QED BY <1>1, <1>2, <1>3, <1>4 DEF NInv, Upkept, Current

\* As long as the store holds no more events than LoadState asks for (math.MaxInt32), a
\* call is refused with ErrOptimisticConcurrency only when its stream received events
\* since it began, or was deleted or truncated.  Beyond that number the version it
\* loads is too small.
THEOREM KurrentConflictsAreReal ==
    Spec => [](commits <= Everything => NoSpuriousConflict)
<1>1. NInv => (commits <= Everything => NoSpuriousConflict)
  BY DEF NInv, Current, NoSpuriousConflict
<1>2. QED BY <1>1, NStarts, Inductive, StepCurrent, PTL DEF Spec

-----------------------------------------------------------------------------
\* The in-memory store beside it, StoresCompared.

\* Induction, over the set of the numbers a statement holds of.
LEMMA SetInduction ==
    ASSUME NEW T \in SUBSET Nat, 0 \in T, \A n \in T : n + 1 \in T
    PROVE  T = Nat
<1>1. SUFFICES ASSUME T # Nat PROVE FALSE
  OBVIOUS
<1> DEFINE R == {p \in Nat \X Nat : p[1] < p[2]}
           Others == Nat \ T
<1>2. IsWellFoundedOn(R, Nat)
  BY NatLessThanWellFounded DEF OpToRel
<1>3. Others \in SUBSET Nat /\ Others # {}
  BY <1>1
<1>4. PICK n \in Others : \A m \in Others : ~(<<m, n>> \in R)
  <2> HIDE DEF R, Others
  <2>1. QED BY <1>2, <1>3, WFMin
<1>5. n # 0 /\ n - 1 \in Nat /\ <<n - 1, n>> \in R
  BY <1>3, <1>4
<1>6. n - 1 \in T
  BY <1>4, <1>5
<1>7. n \in T
  <2>1. (n - 1) + 1 = n
    BY <1>5
  <2>2. QED BY <1>6, <2>1
<1>8. QED BY <1>4, <1>7

\* The recursion of Kept: what is kept of the first events.
LEMMA KeptRuns ==
    ASSUME NEW events \in Seq(StreamEvents), NEW position \in Nat
    PROVE  \E f \in [0..Len(events) -> Seq(StreamEvents)] :
              /\ f[0] = <<>> /\ f[Len(events)] = Mem!Kept(events, position)
              /\ \A i \in 1..Len(events) :
                    f[i] = IF events[i].position >= position
                           THEN Append(f[i - 1], events[i]) ELSE f[i - 1]
<1>1. PICK n \in Nat : n = Len(events)
  OBVIOUS
<1> DEFINE D == Seq(StreamEvents)
           Step(i, q) == IF events[i].position >= position
                         THEN Append(q, events[i]) ELSE q
           Is(k, h) == h = [i \in 0..k |-> IF i = 0 THEN <<>> ELSE Step(i, h[i - 1])]
           Runs(k) == \E h \in [0..k -> D] : Is(k, h)
<1>2. <<>> \in D
  OBVIOUS
<1>3. \A i \in 1..n : events[i] \in StreamEvents
  BY <1>1
<1>4. \A i \in 1..n, q \in D : Step(i, q) \in D
  BY <1>3
<1>5. \A k \in 0..n : Runs(k)
  <2> DEFINE T == {k \in Nat : k <= n => Runs(k)}
  <2>1. Runs(0)
    <3> HIDE DEF Step, D
    <3>1. [i \in 0..0 |-> <<>>] \in [0..0 -> D] /\ Is(0, [i \in 0..0 |-> <<>>])
      BY <1>2
    <3>2. QED BY <3>1
  <2>2. ASSUME NEW k \in Nat, k + 1 <= n, Runs(k) PROVE Runs(k + 1)
    <3>1. k \in 0..n /\ k + 1 \in 1..n
      BY <2>2
    <3>2. PICK f \in [0..k -> D] : Is(k, f)
      <4> HIDE DEF Is, D
      <4>1. QED BY <2>2
    <3> HIDE DEF Step, D
    <3>3. PICK d \in D : d = Step(k + 1, f[k])
      BY <1>4, <3>1
    <3>4. PICK g : g = [i \in 0..(k + 1) |-> IF i = k + 1 THEN d ELSE f[i]]
      OBVIOUS
    <3>5. g \in [0..(k + 1) -> D] /\ g[0] = <<>>
      BY <3>1, <3>2, <3>4
    <3>6. ASSUME NEW i \in 1..(k + 1) PROVE g[i] = Step(i, g[i - 1])
      <4>1. CASE i = k + 1
        <5>1. g[i] = d /\ i - 1 = k /\ g[k] = f[k]
          BY <3>1, <3>4, <4>1
        <5>2. QED BY <3>3, <4>1, <5>1
      <4>2. CASE i # k + 1
        <5>1. i \in 1..k /\ g[i] = f[i] /\ g[i - 1] = f[i - 1]
          BY <3>1, <3>4, <4>2
        <5>2. f[i] = Step(i, f[i - 1])
          BY <3>2, <5>1
        <5>3. QED BY <5>1, <5>2
      <4>3. QED BY <4>1, <4>2
    <3>7. Is(k + 1, g)
      BY <3>5, <3>6
    <3>8. QED BY <3>5, <3>7
  <2>3. T \in SUBSET Nat /\ 0 \in T /\ \A k \in T : k + 1 \in T
    <3> HIDE DEF Runs
    <3>1. QED BY <1>1, <2>1, <2>2
  <2>4. T = Nat
    <3> HIDE DEF T
    <3>1. QED BY <2>3, SetInduction
  <2>5. QED
    <3> HIDE DEF Runs
    <3>1. \A k \in 0..n : k \in T
      <4> HIDE DEF T
      <4>1. QED BY <2>4
    <3>2. QED BY <3>1
<1>6. PICK h \in [0..n -> D] : Is(n, h)
  <2>1. Runs(n)
    <3> HIDE DEF Runs
    <3>1. QED BY <1>1, <1>5
  <2> HIDE DEF Is, D
  <2>2. QED BY <2>1
<1>7. PICK f : f = CHOOSE g : Is(n, g)
  OBVIOUS
<1>8. Is(n, f)
  <2> HIDE DEF Is
  <2>1. QED BY <1>6, <1>7
<1>9. \A i \in 0..n : f[i] = h[i]
  <2> DEFINE T == {i \in Nat : i <= n => f[i] = h[i]}
  <2>1. 0 \in T
    <3> HIDE DEF Step, D
    <3>1. QED BY <1>6, <1>8
  <2>2. ASSUME NEW i \in T, i + 1 <= n PROVE f[i + 1] = h[i + 1]
    <3> HIDE DEF Step, D
    <3>1. i + 1 \in 1..n /\ (i + 1) - 1 = i /\ f[i] = h[i]
      BY <2>2
    <3>2. f[i + 1] = Step(i + 1, f[i]) /\ h[i + 1] = Step(i + 1, h[i])
      BY <1>6, <1>8, <3>1
    <3>3. QED BY <3>1, <3>2
  <2>3. T \in SUBSET Nat /\ \A i \in T : i + 1 \in T
    BY <2>2
  <2>4. T = Nat
    <3> HIDE DEF T
    <3>1. QED BY <2>1, <2>3, SetInduction
  <2>5. ASSUME NEW i \in 0..n PROVE f[i] = h[i]
    <3>1. i \in Nat
      OBVIOUS
    <3>2. i \in T
      <4> HIDE DEF T
      <4>1. QED BY <2>4, <3>1
    <3>3. QED BY <3>2
  <2>6. QED BY <2>5
<1>10. Mem!Kept(events, position) = f[n]
  BY <1>1, <1>7 DEF Mem!Kept
<1>11. /\ h[0] = <<>> /\ h[n] = Mem!Kept(events, position)
       /\ \A i \in 1..n : h[i] = Step(i, h[i - 1])
  <2> HIDE DEF Step, D
  <2>1. QED BY <1>6, <1>9, <1>10
<1>12. QED BY <1>1, <1>6, <1>11

LEMMA KeptIsSuffix ==
    ASSUME NEW events \in Seq(StreamEvents), NEW p \in 0..Len(events),
           \A i \in 1..Len(events) : events[i].position = i - 1
    PROVE  /\ Len(Mem!Kept(events, p)) = Len(events) - p
           /\ \A j \in 1..(Len(events) - p) : Mem!Kept(events, p)[j] = events[p + j]
<1>1. PICK n \in Nat : n = Len(events)
  OBVIOUS
<1>2. PICK f \in [0..n -> Seq(StreamEvents)] :
          /\ f[0] = <<>> /\ f[n] = Mem!Kept(events, p)
          /\ \A i \in 1..n : f[i] = IF events[i].position >= p
                                     THEN Append(f[i - 1], events[i]) ELSE f[i - 1]
  <2>1. p \in Nat
    OBVIOUS
  <2>2. QED BY <1>1, <2>1, KeptRuns
<1> DEFINE Has(k) ==
              /\ Len(f[k]) = IF k <= p THEN 0 ELSE k - p
              /\ \A j \in 1..Len(f[k]) : f[k][j] = events[p + j]
           T == {k \in Nat : k <= n => Has(k)}
<1>3. Has(0)
  BY <1>2
<1>4. ASSUME NEW k \in Nat, k + 1 <= n, Has(k) PROVE Has(k + 1)
  <2>1. /\ k + 1 \in 1..n /\ (k + 1) - 1 = k /\ f[k] \in Seq(StreamEvents)
        /\ events[k + 1] \in StreamEvents /\ events[k + 1].position = k
    <3>1. k + 1 \in 1..n /\ (k + 1) - 1 = k /\ k \in 0..n
      BY <1>4
    <3>2. events[k + 1] \in StreamEvents /\ events[k + 1].position = k
      BY <1>1, <3>1
    <3>3. QED BY <1>2, <3>1, <3>2
  <2>2. f[k + 1] = IF k >= p THEN Append(f[k], events[k + 1]) ELSE f[k]
    BY <1>2, <2>1
  <2>3. CASE k >= p
    <3>1. PICK q \in Seq(StreamEvents) : q = f[k]
      BY <2>1
    <3>2. PICK e \in StreamEvents : e = events[k + 1]
      BY <2>1
    <3>3. Len(q) = k - p /\ \A j \in 1..(k - p) : q[j] = events[p + j]
      <4>1. k <= p => k - p = 0
        BY <2>3
      <4>2. Len(q) = k - p
        BY <1>4, <3>1, <4>1
      <4>3. QED BY <1>4, <3>1, <4>2
    <3>4. /\ Len(Append(q, e)) = Len(q) + 1
          /\ \A j \in 1..Len(q) : Append(q, e)[j] = q[j]
          /\ Append(q, e)[Len(q) + 1] = e
      OBVIOUS
    <3>5. Len(f[k + 1]) = (k + 1) - p
      BY <2>2, <2>3, <3>1, <3>2, <3>3, <3>4
    <3>6. ASSUME NEW j \in 1..((k + 1) - p) PROVE f[k + 1][j] = events[p + j]
      <4>1. CASE j \in 1..(k - p)
        BY <2>2, <2>3, <3>1, <3>2, <3>3, <3>4, <4>1
      <4>2. CASE j = Len(q) + 1
        <5>1. p + j = k + 1
          BY <3>3, <4>2
        <5>2. QED BY <2>2, <2>3, <3>1, <3>2, <3>4, <4>2, <5>1
      <4>3. QED BY <2>3, <3>3, <4>1, <4>2
    <3>7. ~(k + 1 <= p)
      BY <2>3
    <3>8. QED BY <3>5, <3>6, <3>7
  <2>4. CASE ~(k >= p)
    <3>1. f[k + 1] = f[k] /\ k <= p /\ k + 1 <= p
      BY <2>2, <2>4
    <3>2. QED BY <1>4, <3>1
  <2>5. QED BY <2>3, <2>4
<1>5. T = Nat
  <2>1. T \in SUBSET Nat /\ 0 \in T /\ \A k \in T : k + 1 \in T
    <3> HIDE DEF Has
    <3>1. QED BY <1>3, <1>4
  <2> HIDE DEF T
  <2>2. QED BY <2>1, SetInduction
<1>6. Has(n)
  <2> HIDE DEF Has
  <2>1. n \in T
    <3> HIDE DEF T
    <3>1. QED BY <1>5
  <2>2. QED BY <2>1
<1>7. Len(f[n]) = n - p
  BY <1>1, <1>6
<1>8. QED BY <1>1, <1>2, <1>6, <1>7

LEMMA MemTyped ==
    Mem!StoreTypeOK <=> streams \in [Streams -> Seq(StreamEvents)] /\ globalPosition \in Nat
BY DEF Mem!StoreTypeOK, Mem!StreamEvents, StreamEvents

LEMMA MemTypedThen ==
    Mem!StoreTypeOK' <=> streams' \in [Streams -> Seq(StreamEvents)] /\ globalPosition' \in Nat
BY DEF Mem!StoreTypeOK, Mem!StreamEvents, StreamEvents

LEMMA StampedTyped ==
    ASSUME Mem!StoreTypeOK, NEW s \in Streams, NEW new \in Seq(Payloads)
    PROVE  \E tail \in Seq(StreamEvents) :
              /\ tail = Mem!Stamped(s, new) /\ Len(tail) = Len(new)
              /\ \A i \in 1..Len(new) :
                    tail[i].payload = new[i] /\ tail[i].position = Len(streams[s]) + i - 1
<1>1. Len(streams[s]) \in Nat /\ globalPosition \in Nat /\ Len(new) \in Nat
  <2>1. streams[s] \in Seq(StreamEvents)
    BY MemTyped
  <2>2. QED BY <2>1, MemTyped
<1>2. \A i \in 1..Len(new) : new[i] \in Payloads
  OBVIOUS
<1>3. \A i \in 1..Len(new) :
         Len(streams[s]) + i - 1 \in Nat /\ globalPosition + i - 1 \in Nat
  BY <1>1
<1>4. Mem!Stamped(s, new) \in [1..Len(new) -> StreamEvents]
  BY <1>2, <1>3 DEF Mem!Stamped, StreamEvents
<1>5. Mem!Stamped(s, new) \in Seq(StreamEvents) /\ Len(Mem!Stamped(s, new)) = Len(new)
  BY <1>1, <1>4
<1>6. \A i \in 1..Len(new) :
         /\ Mem!Stamped(s, new)[i].payload = new[i]
         /\ Mem!Stamped(s, new)[i].position = Len(streams[s]) + i - 1
  BY Zenon DEF Mem!Stamped
<1>7. QED BY <1>5, <1>6

LEMMA MemAppends ==
    ASSUME Mem!StoreTypeOK, NEW s \in Streams, NEW new \in Seq(Payloads), NEW v,
           Mem!AppendEvents(s, v, new)
    PROVE  /\ Mem!StoreTypeOK'
           /\ Len(streams'[s]) = Len(streams[s]) + Len(new)
           /\ \A i \in 1..Len(streams[s]) : streams'[s][i] = streams[s][i]
           /\ \A i \in 1..Len(new) :
                 /\ streams'[s][Len(streams[s]) + i].payload = new[i]
                 /\ streams'[s][Len(streams[s]) + i].position = Len(streams[s]) + i - 1
           /\ \A t \in Streams \ {s} : streams'[t] = streams[t]
<1>1. PICK old \in Seq(StreamEvents) : old = streams[s]
  BY MemTyped
<1>2. PICK tail \in Seq(StreamEvents) :
          /\ tail = Mem!Stamped(s, new) /\ Len(tail) = Len(new)
          /\ \A i \in 1..Len(new) :
                tail[i].payload = new[i] /\ tail[i].position = Len(streams[s]) + i - 1
  BY StampedTyped
<1>3. PICK joined : joined = old \o tail
  OBVIOUS
<1>4. /\ joined \in Seq(StreamEvents)
      /\ Len(joined) = Len(old) + Len(tail)
      /\ \A i \in 1..Len(old) : joined[i] = old[i]
      /\ \A i \in 1..Len(tail) : joined[Len(old) + i] = tail[i]
  BY ONLY old \in Seq(StreamEvents), tail \in Seq(StreamEvents), <1>3, Concatenation
<1>5. streams' = [streams EXCEPT ![s] = joined]
  BY <1>1, <1>2, <1>3, MemTyped DEF Mem!AppendEvents
<1>6. streams'[s] = joined /\ \A t \in Streams \ {s} : streams'[t] = streams[t]
  BY <1>5, MemTyped
<1>7. Mem!StoreTypeOK'
  <2>1. streams' \in [Streams -> Seq(StreamEvents)]
    BY <1>4, <1>5, MemTyped
  <2>2. globalPosition' = globalPosition + Len(new) /\ Len(new) \in Nat
    BY DEF Mem!AppendEvents
  <2>3. globalPosition' \in Nat
    BY <2>2, MemTyped
  <2>4. QED BY <2>1, <2>3, MemTypedThen
<1>8. QED BY <1>1, <1>2, <1>4, <1>6, <1>7

LEMMA KeptTyped ==
    ASSUME NEW events \in Seq(StreamEvents), NEW position \in Nat
    PROVE  Mem!Kept(events, position) \in Seq(StreamEvents)
<1>1. PICK f \in [0..Len(events) -> Seq(StreamEvents)] :
          f[Len(events)] = Mem!Kept(events, position)
  BY KeptRuns
<1>2. Len(events) \in 0..Len(events)
  OBVIOUS
<1>3. QED BY <1>1, <1>2

LEMMA ComparedIsNext == [ComparedNext]_comparedVars => [Next]_vars
<1>1. ASSUME OneSteps PROVE Next
  BY <1>1 DEF OneSteps, Next
<1>2. ASSUME NEW c \in Callers, BothAppend(c) PROVE Next
  BY <1>2 DEF BothAppend, Next
<1>3. ASSUME NEW s \in Streams, NEW expected \in Expectable, BothDelete(s, expected)
      PROVE  Next
  BY <1>3 DEF BothDelete, Next
<1>4. ASSUME NEW s \in Streams, NEW expected \in Expectable, NEW m \in Maintainers,
             NEW position \in Positions, BothTruncate(m, s, position, expected)
      PROVE  Next
  BY <1>4 DEF BothTruncate, Next
<1>5. ASSUME NEW s \in Streams, OneAppends(s) PROVE Next
  BY <1>5 DEF OneAppends, Next
<1>6. UNCHANGED comparedVars => UNCHANGED vars
  BY DEF comparedVars
<1>7. QED BY <1>1, <1>2, <1>3, <1>4, <1>5, <1>6 DEF ComparedNext

\* What a stream of the two stores has in common.  Its events decode,
Decodes(s) ==
    \A i \in 1..Len(log[s]) : fromName[log[s][i].name] = TypeOf(log[s][i].payload)

\* the in-memory store has the payloads from a revision on,
ShowsFrom(s, b) ==
    /\ Len(streams[s]) = Len(log[s]) - b
    /\ \A j \in 1..Len(streams[s]) : streams[s][j].payload = log[s][b + j].payload

Truncates(m, s) == truncating[m] # NoTruncation /\ truncating[m].stream = s

\* which is the one from which the KurrentDB store shows its events, or will once a
\* truncation that it has let through is written.
Alike(s) ==
    \E b \in 0..Len(log[s]) :
        /\ ShowsFrom(s, b)
        /\ \/ Settled(s) /\ s \notin deleted /\ before[s] = b
           \/ Settled(s) /\ s \in deleted /\ b = Len(log[s])
           \/ /\ s \notin deleted /\ before[s] = 0
              /\ \E m \in Maintainers :
                    /\ Truncates(m, s) /\ truncating[m].position = b
                    /\ \A n \in Maintainers : Truncates(n, s) => n = m

Placed(s) == \A i \in 1..Len(log[s]) : log[s][i].position = i - 1

Numbered(s) == \A j \in 1..Len(streams[s]) : streams[s][j].position = j - 1

SameHistory(s) ==
    /\ s \notin apart /\ touched[s] <= 1 => Decodes(s) /\ Alike(s)
    /\ s \notin apart /\ touched[s] = 0 => Numbered(s)

CInv ==
    /\ ComparedTypeOK
    /\ \A s \in Streams : Placed(s) /\ SameHistory(s)

-----------------------------------------------------------------------------
\* The steps by what they do to a stream of the two stores: nothing,
Quiet(s) ==
    /\ log'[s] = log[s] /\ before'[s] = before[s] /\ (s \in deleted' <=> s \in deleted)
    /\ streams'[s] = streams[s]
    /\ \A m \in Maintainers :
          truncating'[m] = truncating[m] \/ (~Truncates(m, s) /\ ~Truncates(m, s)')
    /\ touched'[s] = touched[s]
    /\ \A n \in Names : fromName[n] # Unmapped => fromName'[n] = fromName[n]

\* a change that both make,
Taken(s) ==
    /\ \E new \in Seq(Payloads), v \in Int :
          /\ CanEncode(new) /\ Record(s, Encoded(new))
          /\ Mem!AppendEvents(s, v, new)
    /\ UNCHANGED <<typeMapVars, upkeepVars>>

Removed(s) ==
    /\ \E v \in Int : DeleteStream(s, v) /\ Mem!DeleteStream(s, v)
    /\ touched'[s] = touched[s] + 1
    /\ UNCHANGED <<typeMapVars, truncating>>

Cut(s) ==
    /\ \E m \in Maintainers, position \in Positions, v \in Int :
          /\ truncating[m] = NoTruncation
          /\ truncating' = [truncating EXCEPT ![m] =
                                [at |-> "write", stream |-> s, position |-> position]]
          /\ position <= Len(log[s])
          /\ Mem!TruncateStream(s, position, v)
    /\ touched'[s] = touched[s] + 1
    /\ UNCHANGED <<typeMapVars, kurrentVars>>

\* or the second step of a truncation.
Written(s) ==
    /\ \E m \in Maintainers : Truncates(m, s) /\ WriteMetadata(m)
    /\ streams'[s] = streams[s]

Shape(s) == Quiet(s) \/ Taken(s) \/ Removed(s) \/ Cut(s) \/ Written(s)

LEMMA QuietAppend ==
    ASSUME KurrentTypeOK, NEW s \in Streams, NEW sent \in Seq(Sent), Record(s, sent),
           NEW t \in Streams, t # s,
           UNCHANGED <<typeMapVars, upkeepVars>>, streams'[t] = streams[t]
    PROVE  Quiet(t)
<1>1. log'[t] = log[t]
  BY RecordGrows
<1>2. before'[t] = before[t] /\ (t \in deleted' <=> t \in deleted)
  BY DEF Record, KurrentTypeOK
<1>3. QED BY <1>1, <1>2 DEF Quiet, typeMapVars, upkeepVars

LEMMA StoreShape ==
    ASSUME KInv, ComparedTypeOK, NEW c \in Callers, BothAppend(c), NEW s \in Streams,
           s \notin apart'
    PROVE  Shape(s)
<1>1. /\ StoreInv /\ CallsTypeOK /\ ServiceTypeOK /\ c \in AllCallers
      /\ failures \in Nat /\ KurrentTypeOK
  BY PartsOfKInv, KurrentAssumption DEF AllCallers, RestTypeOK, StoreInv
<1>2. Mem!StoreTypeOK /\ streams \in [Streams -> Seq(StreamEvents)]
  BY MemTyped DEF ComparedTypeOK
<1>3. /\ UNCHANGED <<typeMapVars, upkeepVars>>
      /\ \/ UNCHANGED kurrentVars
         \/ pc[c] = "append" /\ Accept(c)
  BY DEF BothAppend, ServiceStore, ServiceAppend, Appended, ServiceConflict,
     KurrentConflict, ServiceFails
<1>4. CASE UNCHANGED kurrentVars
  <2>1. log' = log
    BY <1>4 DEF kurrentVars
  <2>2. ASSUME streams'[s] = streams[s] PROVE Quiet(s)
    BY <1>3, <1>4, <2>2 DEF Quiet, kurrentVars, typeMapVars, upkeepVars
  <2>3. CASE UNCHANGED memVars
    BY <2>2, <2>3 DEF memVars, Shape
  <2>4. CASE pc[c] = "append" /\ Answers(CallStream(c), version[c], log' # log)
             /\ \/ Mem!AppendEvents(CallStream(c), version[c], fresh[c])
                \/ Mem!AppendConflict(CallStream(c), version[c])
    <3>1. CASE CallStream(c) = s
      <4>1. ~Mem!VersionMatches(s, version[c])
        BY <2>1, <2>4, <3>1 DEF Answers
      <4>2. streams' = streams
        BY <2>4, <3>1, <4>1 DEF Mem!AppendEvents, Mem!AppendConflict, Mem!storeVars
      <4>3. QED BY <2>2, <4>2 DEF Shape
    <3>2. CASE CallStream(c) # s
      <4>1. streams'[s] = streams[s]
        BY <1>2, <2>4, <3>2 DEF Mem!AppendEvents, Mem!AppendConflict, Mem!storeVars
      <4>2. QED BY <2>2, <4>1 DEF Shape
    <3>3. QED BY <3>1, <3>2
  <2>5. QED BY <2>3, <2>4 DEF BothAppend
<1>5. CASE pc[c] = "append" /\ Accept(c)
  <2>1. PICK a \in Streams : a = CallStream(c)
    BY <1>1, <1>5, HandlersAssumption DEF CallsTypeOK, CallStream, StreamOf
  <2>2. PICK new \in Seq(Payloads) : new = fresh[c]
    <3>1. fresh[c] \in Batches \union {<<>>}
      BY <1>1 DEF ServiceTypeOK
    <3>2. <<>> \in Seq(Payloads)
      OBVIOUS
    <3>3. QED BY <3>1, <3>2, BatchesAssumption
  <2>3. CanEncode(new) /\ Record(a, Encoded(new))
    BY <1>5, <2>1, <2>2 DEF Accept, KurrentAppend
  <2>4. PICK sent \in Seq(Sent) : sent = Encoded(new) /\ Len(sent) = Len(new)
    BY <1>1, <2>3, EncodedIsSent
  <2>5. new # <<>>
    BY <1>5, <2>2 DEF KInv, Knows
  <2>6. log' # log
    <3>1. Len(log'[a]) = Len(log[a]) + Len(sent)
      BY <1>1, <2>3, <2>4, RecordGrows
    <3>2. Len(sent) \in Nat /\ Len(sent) > 0 /\ Len(log[a]) \in Nat
      BY <1>1, <2>4, <2>5 DEF KurrentTypeOK
    <3>3. QED BY <3>1, <3>2
  <2>7. /\ Answers(a, version[c], log' # log)
        /\ Mem!AppendEvents(a, version[c], new) \/ Mem!AppendConflict(a, version[c])
    BY <1>5, <2>1, <2>2, <2>6 DEF BothAppend
  <2>8. CASE s = a
    <3>1. Mem!AppendEvents(s, version[c], new)
      BY <2>6, <2>7, <2>8 DEF Answers, Mem!AppendConflict
    <3>2. version[c] \in Int
      BY <1>1 DEF ServiceTypeOK
    <3>3. Taken(s)
      BY <1>3, <2>3, <2>8, <3>1, <3>2 DEF Taken
    <3>4. QED BY <3>3 DEF Shape
  <2>9. CASE s # a
    <3>1. streams'[s] = streams[s]
      BY <1>2, <2>7, <2>9 DEF Mem!AppendEvents, Mem!AppendConflict, Mem!storeVars
    <3>2. Quiet(s)
      BY <1>1, <1>3, <2>3, <2>4, <2>9, <3>1, QuietAppend
    <3>3. QED BY <3>2 DEF Shape
  <2>10. QED BY <2>8, <2>9
<1>6. QED BY <1>3, <1>4, <1>5

LEMMA OneShape ==
    ASSUME KInv, ComparedTypeOK, OneSteps, NEW s \in Streams PROVE Shape(s)
<1>1. /\ truncating \in [Maintainers -> Truncations \union {NoTruncation}]
      /\ touched \in [Streams -> Nat] /\ KurrentTypeOK /\ TypeMapTypeOK
  BY PartsOfKInv DEF RestTypeOK
<1>2. streams'[s] = streams[s]
  BY DEF OneSteps, memVars
<1>3. ASSUME UNCHANGED <<kurrentVars, upkeepVars>>,
             \A n \in Names : fromName[n] # Unmapped => fromName'[n] = fromName[n]
      PROVE  Quiet(s)
  BY <1>2, <1>3 DEF Quiet, kurrentVars, upkeepVars
<1>4. ASSUME NEW c \in Callers, ServiceLocal(c) \/ \E k \in Commands : ServiceCall(c, k)
      PROVE  Quiet(s)
  <2>1. UNCHANGED <<kurrentVars, upkeepVars, typeMapVars>>
    BY <1>4 DEF ServiceCall, ServiceLocal, ServiceLoad, ServiceLoadFails, ServiceDecide,
       ServiceEncodeFails
  <2>2. QED BY <1>3, <2>1 DEF typeMapVars
<1>5. ASSUME NEW t \in GoTypes, NEW n \in Names, RegisterType(t, n) PROVE Quiet(s)
  <2>1. UNCHANGED <<kurrentVars, upkeepVars>> /\ Register(t, n)
    BY <1>5 DEF RegisterType
  <2>2. \A o \in Names : fromName[o] # Unmapped => fromName'[o] = fromName[o]
    BY <1>1, <2>1 DEF Register, TypeMapTypeOK, typeMapVars
  <2>3. QED BY <1>3, <2>1, <2>2
<1>6. ASSUME NEW m \in Maintainers, WriteMetadata(m) PROVE Written(s) \/ Quiet(s)
  <2>1. CASE Truncates(m, s)
    BY <1>2, <1>6, <2>1 DEF Written
  <2>2. CASE ~Truncates(m, s)
    <3>1. PICK o : o = truncating[m].stream
      OBVIOUS
    <3>2. /\ o \in Streams /\ o # s
          /\ before' = [before EXCEPT ![o] = truncating[m].position]
          /\ deleted' = deleted \ {o} /\ UNCHANGED <<log, touched, typeMapVars>>
          /\ truncating' = [truncating EXCEPT ![m] = NoTruncation]
      <4>1. truncating[m] \in Truncations /\ truncating[m].stream # s
        BY <1>1, <1>6, <2>2 DEF WriteMetadata, Truncates
      <4>2. o \in Streams /\ o # s
        BY <3>1, <4>1 DEF Truncations
      <4>3. QED BY <1>6, <3>1, <4>2 DEF WriteMetadata, SetTruncateBefore
    <3>3. /\ log'[s] = log[s] /\ before'[s] = before[s]
          /\ (s \in deleted' <=> s \in deleted)
          /\ touched'[s] = touched[s] /\ fromName' = fromName
      BY <1>1, <3>2 DEF KurrentTypeOK, typeMapVars
    <3>4. ASSUME NEW n \in Maintainers
          PROVE  truncating'[n] = truncating[n] \/ (~Truncates(n, s) /\ ~Truncates(n, s)')
      <4>1. CASE n = m
        <5>1. truncating'[n] = NoTruncation
          BY <1>1, <3>2, <4>1
        <5>2. QED BY <2>2, <4>1, <5>1 DEF Truncates
      <4>2. CASE n # m
        BY <1>1, <3>2, <4>2
      <4>3. QED BY <4>1, <4>2
    <3>5. QED BY <1>2, <3>3, <3>4 DEF Quiet
  <2>3. QED BY <2>1, <2>2
<1>7. QED BY <1>4, <1>5, <1>6 DEF OneSteps, Shape

LEMMA ExpectableIsInt == Expectable \subseteq Int
BY KurrentAssumption DEF Expectable, VersionAny, VersionNoStream

LEMMA DeleteShape ==
    ASSUME KInv, ComparedTypeOK, NEW a \in Streams, NEW expected \in Expectable,
           BothDelete(a, expected), NEW s \in Streams, s \notin apart'
    PROVE  Shape(s)
<1>1. touched \in [Streams -> Nat] /\ KurrentTypeOK
  BY PartsOfKInv DEF RestTypeOK
<1>2. streams \in [Streams -> Seq(StreamEvents)]
  BY MemTyped DEF ComparedTypeOK
<1>3. /\ DeleteStream(a, expected) /\ touched' = [touched EXCEPT ![a] = @ + 1]
      /\ UNCHANGED <<typeMapVars, truncating>>
      /\ Answers(a, expected, TRUE)
      /\ Mem!DeleteStream(a, expected) \/ Mem!AppendConflict(a, expected)
  BY DEF BothDelete, Delete, Maintain
<1>4. CASE s = a
  <2>1. Mem!DeleteStream(s, expected)
    BY <1>3, <1>4 DEF Answers, Mem!AppendConflict
  <2>2. touched'[s] = touched[s] + 1 /\ expected \in Int
    BY <1>1, <1>3, <1>4, ExpectableIsInt
  <2>3. Removed(s)
    BY <1>3, <1>4, <2>1, <2>2 DEF Removed
  <2>4. QED BY <2>3 DEF Shape
<1>5. CASE s # a
  <2>1. log'[s] = log[s] /\ before'[s] = before[s] /\ (s \in deleted' <=> s \in deleted)
    BY <1>3, <1>5 DEF DeleteStream
  <2>2. touched'[s] = touched[s] /\ truncating' = truncating /\ fromName' = fromName
    BY <1>1, <1>3, <1>5 DEF typeMapVars
  <2>3. streams'[s] = streams[s]
    BY <1>2, <1>3, <1>5 DEF Mem!DeleteStream, Mem!AppendConflict, Mem!storeVars
  <2>4. QED BY <2>1, <2>2, <2>3 DEF Shape, Quiet
<1>6. QED BY <1>4, <1>5

LEMMA TruncateShape ==
    ASSUME KInv, ComparedTypeOK, NEW m \in Maintainers, NEW a \in Streams,
           NEW position \in Positions, NEW expected \in Expectable,
           BothTruncate(m, a, position, expected), NEW s \in Streams, s \notin apart'
    PROVE  Shape(s)
<1>1. /\ touched \in [Streams -> Nat] /\ KurrentTypeOK
      /\ truncating \in [Maintainers -> Truncations \union {NoTruncation}]
  BY PartsOfKInv DEF RestTypeOK
<1>2. streams \in [Streams -> Seq(StreamEvents)]
  BY MemTyped DEF ComparedTypeOK
<1>3. /\ truncating[m] = NoTruncation
      /\ truncating' = [truncating EXCEPT ![m] =
                            [at |-> "write", stream |-> a, position |-> position]]
      /\ touched' = [touched EXCEPT ![a] = @ + 1]
      /\ UNCHANGED <<typeMapVars, kurrentVars>>
      /\ a \notin apart' => Mem!VersionMatches(a, expected) /\ position <= Len(log[a])
      /\ Mem!TruncateStream(a, position, expected) \/ Mem!AppendConflict(a, expected)
  BY DEF BothTruncate, CheckVersion, Maintain
<1>4. CASE s = a
  <2>1. Mem!TruncateStream(s, position, expected)
    BY <1>3, <1>4 DEF Mem!AppendConflict
  <2>2. touched'[s] = touched[s] + 1 /\ expected \in Int
    BY <1>1, <1>3, <1>4, ExpectableIsInt
  <2>3. Cut(s)
    BY <1>3, <1>4, <2>1, <2>2 DEF Cut
  <2>4. QED BY <2>3 DEF Shape
<1>5. CASE s # a
  <2>1. log'[s] = log[s] /\ before'[s] = before[s] /\ (s \in deleted' <=> s \in deleted)
    BY <1>3 DEF kurrentVars
  <2>2. touched'[s] = touched[s] /\ fromName' = fromName
    BY <1>1, <1>3, <1>5 DEF typeMapVars
  <2>3. streams'[s] = streams[s]
    BY <1>2, <1>3, <1>5 DEF Mem!TruncateStream, Mem!AppendConflict, Mem!storeVars
  <2>4. ASSUME NEW n \in Maintainers
        PROVE  truncating'[n] = truncating[n] \/ (~Truncates(n, s) /\ ~Truncates(n, s)')
    <3>1. CASE n = m
      <4>1. truncating[n] = NoTruncation /\ truncating'[n].stream = a
        BY <1>1, <1>3, <3>1
      <4>2. QED BY <1>5, <4>1 DEF Truncates
    <3>2. CASE n # m
      BY <1>1, <1>3, <3>2
    <3>3. QED BY <3>1, <3>2
  <2>5. QED BY <2>1, <2>2, <2>3, <2>4 DEF Shape, Quiet
<1>6. QED BY <1>4, <1>5

LEMMA ForeignShape ==
    ASSUME KInv, ComparedTypeOK, NEW a \in Streams, OneAppends(a), NEW s \in Streams,
           s \notin apart'
    PROVE  Shape(s)
<1>1. PICK e \in Foreign : Record(a, <<e>>)
  BY DEF OneAppends, ForeignAppend
<1>2. e \in Sent
  BY KurrentAssumption DEF Sent
<1>3. PICK sent \in Seq(Sent) : sent = <<e>>
  <2>1. <<e>> \in Seq(Sent)
    BY <1>2
  <2>2. QED BY <2>1
<1>4. /\ s # a /\ KurrentTypeOK /\ streams'[s] = streams[s]
      /\ UNCHANGED <<typeMapVars, upkeepVars>>
  BY PartsOfKInv DEF OneAppends, ForeignAppend
<1>5. Quiet(s)
  BY <1>1, <1>3, <1>4, QuietAppend
<1>6. QED BY <1>5 DEF Shape

LEMMA Shapes ==
    ASSUME KInv, ComparedTypeOK, [ComparedNext]_comparedVars, NEW s \in Streams,
           s \notin apart'
    PROVE  Shape(s)
<1>1. CASE UNCHANGED comparedVars
  BY <1>1 DEF comparedVars, vars, memVars, kurrentVars, upkeepVars, typeMapVars, Shape, Quiet
<1>2. CASE ComparedNext
  BY <1>2, OneShape, StoreShape, DeleteShape, TruncateShape, ForeignShape DEF ComparedNext
<1>3. QED BY <1>1, <1>2

LEMMA QuietKeeps ==
    ASSUME KInv, NEW s \in Streams, SameHistory(s), Quiet(s), apart \subseteq apart'
    PROVE  SameHistory(s)'
<1>1. KurrentTypeOK /\ log[s] \in Seq(RecordedEvents)
  BY PartsOfKInv DEF KurrentTypeOK
<1>2. ASSUME Decodes(s) PROVE Decodes(s)'
  <2>1. ASSUME NEW i \in 1..Len(log[s])
        PROVE  fromName'[log[s][i].name] = TypeOf(log[s][i].payload)
    <3>1. log[s][i].name \in Names /\ log[s][i].payload \in Payloads
      <4>1. log[s][i] \in RecordedEvents
        BY <1>1
      <4>2. QED BY <4>1 DEF RecordedEvents
    <3>2. fromName[log[s][i].name] = TypeOf(log[s][i].payload)
      BY <1>2 DEF Decodes
    <3>3. TypeOf(log[s][i].payload) # Unmapped
      BY <3>1, KurrentAssumption
    <3>4. QED BY <3>1, <3>2, <3>3 DEF Quiet
  <2>2. log'[s] = log[s]
    BY DEF Quiet
  <2>3. QED BY <2>1, <2>2 DEF Decodes
<1>3. ASSUME Alike(s) PROVE Alike(s)'
  <2>1. \A b : ShowsFrom(s, b)' <=> ShowsFrom(s, b)
    BY DEF Quiet, ShowsFrom
  <2>2. \A m \in Maintainers :
           /\ Truncates(m, s)' <=> Truncates(m, s)
           /\ Truncates(m, s) => truncating'[m] = truncating[m]
    BY DEF Quiet, Truncates
  <2>3. Settled(s) => Settled(s)'
    BY <2>2 DEF Settled, Truncates
  <2>4. PICK b \in 0..Len(log[s]) :
        /\ ShowsFrom(s, b)
        /\ \/ Settled(s) /\ s \notin deleted /\ before[s] = b
           \/ Settled(s) /\ s \in deleted /\ b = Len(log[s])
           \/ /\ s \notin deleted /\ before[s] = 0
              /\ \E m \in Maintainers :
                    /\ Truncates(m, s) /\ truncating[m].position = b
                    /\ \A n \in Maintainers : Truncates(n, s) => n = m
    BY <1>3 DEF Alike
  <2>5. \/ Settled(s)' /\ s \notin deleted' /\ before'[s] = b
        \/ Settled(s)' /\ s \in deleted' /\ b = Len(log'[s])
        \/ /\ s \notin deleted' /\ before'[s] = 0
           /\ \E m \in Maintainers :
                 /\ Truncates(m, s)' /\ truncating'[m].position = b
                 /\ \A n \in Maintainers : Truncates(n, s)' => n = m
    BY <2>2, <2>3, <2>4 DEF Quiet
  <2>6. ShowsFrom(s, b)' /\ b \in 0..Len(log'[s])
    BY <2>1, <2>4 DEF Quiet
  <2>7. QED BY <2>5, <2>6 DEF Alike
<1>4. Numbered(s) => Numbered(s)'
  BY DEF Numbered, Quiet
<1>5. QED BY <1>2, <1>3, <1>4 DEF SameHistory, Quiet

LEMMA TakenKeeps ==
    ASSUME KInv, Mem!StoreTypeOK, NEW s \in Streams, SameHistory(s), Taken(s),
           apart \subseteq apart'
    PROVE  SameHistory(s)'
<1>1. PICK new \in Seq(Payloads), v \in Int :
          /\ CanEncode(new) /\ Record(s, Encoded(new))
          /\ Mem!AppendEvents(s, v, new)
  BY DEF Taken
<1>2. StoreInv /\ KurrentTypeOK /\ UNCHANGED <<toName, fromName, truncating, touched>>
  BY PartsOfKInv DEF Taken, typeMapVars, upkeepVars
<1>3. PICK sent \in Seq(Sent) : sent = Encoded(new) /\ Len(sent) = Len(new)
  BY <1>1, <1>2, EncodedIsSent
<1>4. PICK k \in Nat, x \in Nat, y \in Nat :
          k = Len(new) /\ x = Len(log[s]) /\ y = Len(streams[s])
  <2>1. Len(new) \in Nat /\ Len(log[s]) \in Nat /\ Len(streams[s]) \in Nat
    BY <1>2, MemTyped DEF KurrentTypeOK
  <2>2. QED BY <2>1
<1>5. /\ Len(log'[s]) = x + k
      /\ \A i \in 1..x : log'[s][i] = log[s][i]
      /\ \A i \in 1..k : /\ log'[s][x + i].name = sent[i].name
                         /\ log'[s][x + i].payload = sent[i].payload
  <2>1. Record(s, sent)
    BY <1>1, <1>3
  <2>2. /\ Grows /\ Len(log'[s]) = Len(log[s]) + Len(sent)
        /\ \A i \in 1..Len(sent) :
              /\ log'[s][Len(log[s]) + i].name = sent[i].name
              /\ log'[s][Len(log[s]) + i].payload = sent[i].payload
    BY <1>2, <2>1, RecordGrows
  <2>3. QED BY <1>3, <1>4, <2>2 DEF Grows
<1>6. /\ Len(streams'[s]) = y + k
      /\ \A i \in 1..y : streams'[s][i] = streams[s][i]
      /\ \A i \in 1..k : /\ streams'[s][y + i].payload = new[i]
                         /\ streams'[s][y + i].position = y + i - 1
  BY <1>1, <1>4, MemAppends
<1>7. \A i \in 1..k : /\ sent[i].name = toName[TypeOf(new[i])]
                      /\ sent[i].payload = new[i]
  BY <1>3, <1>4 DEF Encoded
<1>8. ASSUME Decodes(s) PROVE Decodes(s)'
  <2>1. ASSUME NEW i \in 1..Len(log'[s])
        PROVE  fromName'[log'[s][i].name] = TypeOf(log'[s][i].payload)
    <3>1. CASE i \in 1..x
      BY <1>2, <1>4, <1>5, <1>8, <3>1 DEF Decodes
    <3>2. CASE i \notin 1..x
      <4>1. PICK j \in 1..k : i = x + j
        <5>1. i - x \in 1..k /\ i = x + (i - x)
          BY <1>5, <2>1, <3>2
        <5>2. QED BY <5>1
      <4>2. log'[s][i].name = toName[TypeOf(new[j])] /\ log'[s][i].payload = new[j]
        BY <1>5, <1>7, <4>1
      <4>3. TypeOf(new[j]) \in GoTypes /\ toName[TypeOf(new[j])] # Unmapped
        BY <1>1, <1>4 DEF CanEncode, HasTypeName
      <4>4. fromName[toName[TypeOf(new[j])]] = TypeOf(new[j])
        BY <1>2, <4>3 DEF StoreInv, MapAgrees
      <4>5. QED BY <1>2, <4>2, <4>4
    <3>3. QED BY <3>1, <3>2
  <2>2. QED BY <2>1 DEF Decodes
<1>9. ASSUME Alike(s) PROVE Alike(s)'
  <2>1. PICK b \in 0..Len(log[s]) :
        /\ ShowsFrom(s, b)
        /\ \/ Settled(s) /\ s \notin deleted /\ before[s] = b
           \/ Settled(s) /\ s \in deleted /\ b = Len(log[s])
           \/ /\ s \notin deleted /\ before[s] = 0
              /\ \E m \in Maintainers :
                    /\ Truncates(m, s) /\ truncating[m].position = b
                    /\ \A n \in Maintainers : Truncates(n, s) => n = m
    BY <1>9 DEF Alike
  <2>2. b \in 0..x /\ y = x - b
    BY <1>4, <2>1 DEF ShowsFrom
  <2>3. ShowsFrom(s, b)'
    <3>1. Len(streams'[s]) = Len(log'[s]) - b
      BY <1>5, <1>6, <2>2
    <3>2. ASSUME NEW j \in 1..Len(streams'[s])
          PROVE  streams'[s][j].payload = log'[s][b + j].payload
      <4>1. CASE j \in 1..y
        <5>1. b + j \in 1..x
          BY <2>2, <4>1
        <5>2. streams[s][j].payload = log[s][b + j].payload
          BY <1>4, <2>1, <4>1 DEF ShowsFrom
        <5>3. QED BY <1>5, <1>6, <4>1, <5>1, <5>2
      <4>2. CASE j \notin 1..y
        <5>1. PICK i \in 1..k : j = y + i
          <6>1. j - y \in 1..k /\ j = y + (j - y)
            BY <1>6, <3>2, <4>2
          <6>2. QED BY <6>1
        <5>2. b + j = x + i
          BY <2>2, <5>1
        <5>3. streams'[s][y + i].payload = new[i] /\ log'[s][x + i].payload = new[i]
          BY <1>5, <1>6, <1>7
        <5>4. QED BY <5>1, <5>2, <5>3
      <4>3. QED BY <4>1, <4>2
    <3>3. QED BY <3>1, <3>2 DEF ShowsFrom
  <2>4. b \in 0..Len(log'[s])
    BY <1>5, <2>2
  <2>5. /\ s \notin deleted'
        /\ before'[s] = IF s \in deleted THEN Len(log[s]) ELSE before[s]
    BY <1>1, <1>2 DEF Record, KurrentTypeOK
  <2>6. /\ Settled(s)' <=> Settled(s)
        /\ \A m \in Maintainers : Truncates(m, s)' <=> Truncates(m, s)
    BY <1>2 DEF Settled, Truncates
  <2>7. \/ Settled(s)' /\ s \notin deleted' /\ before'[s] = b
        \/ Settled(s)' /\ s \in deleted' /\ b = Len(log'[s])
        \/ /\ s \notin deleted' /\ before'[s] = 0
           /\ \E m \in Maintainers :
                 /\ Truncates(m, s)' /\ truncating'[m].position = b
                 /\ \A n \in Maintainers : Truncates(n, s)' => n = m
    BY <1>2, <2>1, <2>5, <2>6
  <2>8. QED BY <2>3, <2>4, <2>7 DEF Alike
<1>10. ASSUME Numbered(s) PROVE Numbered(s)'
  <2>1. ASSUME NEW j \in 1..Len(streams'[s]) PROVE streams'[s][j].position = j - 1
    <3>1. CASE j \in 1..y
      BY <1>4, <1>6, <1>10, <3>1 DEF Numbered
    <3>2. CASE j \notin 1..y
      <4>1. PICK i \in 1..k : j = y + i
        <5>1. j - y \in 1..k /\ j = y + (j - y)
          BY <1>6, <2>1, <3>2
        <5>2. QED BY <5>1
      <4>2. streams'[s][y + i].position = y + i - 1
        BY <1>6
      <4>3. QED BY <4>1, <4>2
    <3>3. QED BY <3>1, <3>2
  <2>2. QED BY <2>1 DEF Numbered
<1>11. QED BY <1>2, <1>8, <1>9, <1>10 DEF SameHistory

\* What was never deleted or truncated is shown from the first event.
LEMMA UntouchedShows ==
    ASSUME KInv, Upkept, NEW s \in Streams, touched[s] = 0, Alike(s)
    PROVE  /\ Settled(s) /\ s \notin deleted /\ before[s] = 0 /\ ShowsFrom(s, 0)
           /\ \A m \in Maintainers : ~Truncates(m, s)
<1>1. Untouched(s)
  BY DEF Upkept
<1>2. /\ Settled(s) /\ s \notin deleted /\ before[s] = 0
      /\ \A m \in Maintainers : ~Truncates(m, s)
  BY <1>1 DEF Untouched, Settled, Truncates
<1>3. \E b \in 0..Len(log[s]) : ShowsFrom(s, b) /\ b = 0
  BY <1>2 DEF Alike
<1>4. QED BY <1>2, <1>3

LEMMA RemovedKeeps ==
    ASSUME KInv, Upkept, NEW s \in Streams, SameHistory(s), Removed(s),
           Mem!StoreTypeOK, apart \subseteq apart'
    PROVE  SameHistory(s)'
<1>1. PICK v \in Int : DeleteStream(s, v) /\ Mem!DeleteStream(s, v)
  BY DEF Removed
<1>2. /\ touched[s] \in Nat /\ touched'[s] = touched[s] + 1 /\ Len(log[s]) \in Nat
      /\ streams \in [Streams -> Seq(StreamEvents)]
      /\ UNCHANGED <<fromName, truncating>>
  BY PartsOfKInv, MemTyped DEF RestTypeOK, KurrentTypeOK, Removed, typeMapVars
<1>3. /\ log' = log /\ s \in deleted' /\ streams'[s] = <<>>
  BY <1>1, <1>2 DEF DeleteStream, Mem!DeleteStream
<1>4. ASSUME s \notin apart', touched'[s] <= 1 PROVE Decodes(s)' /\ Alike(s)'
  <2>1. touched[s] = 0 /\ Decodes(s) /\ Alike(s)
    BY <1>2, <1>4 DEF SameHistory
  <2>2. Settled(s)'
    BY <1>2, <2>1, UntouchedShows DEF Settled
  <2>3. PICK b \in 0..Len(log[s]) : b = Len(log[s])
    BY <1>2
  <2>4. ShowsFrom(s, b)'
    <3>1. Len(streams'[s]) = 0 /\ Len(log'[s]) - b = 0
      BY <1>2, <1>3, <2>3
    <3>2. QED BY <3>1 DEF ShowsFrom
  <2>5. Alike(s)'
    BY <1>3, <2>2, <2>3, <2>4 DEF Alike
  <2>6. Decodes(s)'
    BY <1>2, <1>3, <2>1 DEF Decodes
  <2>7. QED BY <2>5, <2>6
<1>5. touched'[s] # 0
  BY <1>2
<1>6. QED BY <1>4, <1>5 DEF SameHistory

LEMMA CutKeeps ==
    ASSUME KInv, Upkept, NEW s \in Streams, SameHistory(s), Cut(s),
           Mem!StoreTypeOK, apart \subseteq apart'
    PROVE  SameHistory(s)'
<1>1. PICK m \in Maintainers, position \in Positions, v \in Int :
          /\ truncating[m] = NoTruncation
          /\ truncating' = [truncating EXCEPT ![m] =
                                [at |-> "write", stream |-> s, position |-> position]]
          /\ position <= Len(log[s])
          /\ Mem!TruncateStream(s, position, v)
  BY DEF Cut
<1>2. /\ touched[s] \in Nat /\ touched'[s] = touched[s] + 1
      /\ streams \in [Streams -> Seq(StreamEvents)]
      /\ truncating \in [Maintainers -> Truncations \union {NoTruncation}]
      /\ log' = log /\ before' = before /\ deleted' = deleted /\ fromName' = fromName
  BY PartsOfKInv, MemTyped DEF RestTypeOK, Cut, typeMapVars, kurrentVars
<1>3. PICK events \in Seq(StreamEvents), x \in Nat : events = streams[s] /\ x = Len(log[s])
  <2>1. Len(log[s]) \in Nat
    BY PartsOfKInv DEF KurrentTypeOK
  <2>2. QED BY <1>2, <2>1
<1>4. streams'[s] = Mem!Kept(events, position)
  BY <1>1, <1>2, <1>3 DEF Mem!TruncateStream
<1>5. ASSUME s \notin apart', touched'[s] <= 1 PROVE Decodes(s)' /\ Alike(s)'
  <2>1. touched[s] = 0 /\ Decodes(s) /\ Alike(s) /\ Numbered(s)
    BY <1>2, <1>5 DEF SameHistory
  <2>2. /\ s \notin deleted /\ before[s] = 0 /\ ShowsFrom(s, 0)
        /\ \A n \in Maintainers : ~Truncates(n, s)
    BY <2>1, UntouchedShows
  <2>3. /\ Len(events) = x
        /\ \A j \in 1..x : events[j].payload = log[s][j].payload
        /\ \A j \in 1..x : events[j].position = j - 1
    <3>1. /\ Len(events) = x - 0
          /\ \A j \in 1..Len(events) : events[j].payload = log[s][0 + j].payload
      BY <1>3, <2>2 DEF ShowsFrom
    <3>2. Len(events) = x /\ \A j \in 1..x : 0 + j = j
      BY <3>1
    <3>3. QED BY <1>3, <2>1, <3>1, <3>2 DEF Numbered
  <2>4. PICK p \in 0..x : p = position
    BY <1>1, <1>3, KurrentAssumption
  <2>5. /\ Len(Mem!Kept(events, p)) = x - p
        /\ \A j \in 1..(x - p) : Mem!Kept(events, p)[j] = events[p + j]
    BY <2>3, <2>4, KeptIsSuffix
  <2>6. ShowsFrom(s, p)'
    <3>1. Len(streams'[s]) = x - p /\ Len(log'[s]) = x
      BY <1>2, <1>3, <1>4, <2>4, <2>5
    <3>2. ASSUME NEW j \in 1..(x - p) PROVE streams'[s][j].payload = log'[s][p + j].payload
      <4>1. p + j \in 1..x
        BY <2>4
      <4>2. streams'[s][j] = events[p + j]
        BY <1>4, <2>4, <2>5
      <4>3. QED BY <1>2, <2>3, <4>1, <4>2
    <3>3. QED BY <3>1, <3>2 DEF ShowsFrom
  <2>7. /\ Truncates(m, s)' /\ truncating'[m].position = p
        /\ \A n \in Maintainers : Truncates(n, s)' => n = m
    <3>1. truncating'[m] = [at |-> "write", stream |-> s, position |-> position]
      BY <1>1, <1>2
    <3>2. truncating'[m] # NoTruncation
      BY <3>1 DEF NoTruncation
    <3>3. \A n \in Maintainers : n # m => truncating'[n] = truncating[n]
      BY <1>1, <1>2
    <3>4. QED BY <2>2, <2>4, <3>1, <3>2, <3>3 DEF Truncates
  <2>8. p \in 0..Len(log'[s]) /\ s \notin deleted' /\ before'[s] = 0
    BY <1>2, <1>3, <2>2
  <2>9. Alike(s)'
    BY <2>6, <2>7, <2>8 DEF Alike
  <2>10. Decodes(s)'
    BY <1>2, <2>1 DEF Decodes
  <2>11. QED BY <2>9, <2>10
<1>6. touched'[s] # 0
  BY <1>2
<1>7. QED BY <1>5, <1>6 DEF SameHistory

LEMMA WrittenKeeps ==
    ASSUME KInv, Upkept, NEW s \in Streams, SameHistory(s), Written(s),
           apart \subseteq apart'
    PROVE  SameHistory(s)'
<1>1. PICK m \in Maintainers : Truncates(m, s) /\ WriteMetadata(m)
  BY DEF Written
<1>2. /\ truncating \in [Maintainers -> Truncations \union {NoTruncation}]
      /\ before \in [Streams -> Nat] /\ touched[s] \in Nat
  BY PartsOfKInv DEF RestTypeOK, KurrentTypeOK
<1>3. /\ before'[s] = truncating[m].position /\ s \notin deleted'
      /\ UNCHANGED <<log, touched, fromName>> /\ streams'[s] = streams[s]
      /\ truncating' = [truncating EXCEPT ![m] = NoTruncation]
  BY <1>1, <1>2 DEF WriteMetadata, SetTruncateBefore, Truncates, typeMapVars, Written
<1>4. touched[s] # 0
  BY <1>1 DEF Upkept, Untouched, Truncates
<1>5. ASSUME s \notin apart', touched'[s] <= 1 PROVE Decodes(s)' /\ Alike(s)'
  <2>1. Decodes(s) /\ Alike(s)
    BY <1>3, <1>5 DEF SameHistory
  <2>2. ~Settled(s)
    BY <1>1 DEF Settled, Truncates
  <2>3. PICK b \in 0..Len(log[s]) :
          /\ ShowsFrom(s, b)
          /\ \E o \in Maintainers :
                /\ Truncates(o, s) /\ truncating[o].position = b
                /\ \A n \in Maintainers : Truncates(n, s) => n = o
    BY <2>1, <2>2 DEF Alike
  <2>4. truncating[m].position = b /\ \A n \in Maintainers : Truncates(n, s) => n = m
    BY <1>1, <2>3
  <2>5. ASSUME NEW n \in Maintainers PROVE ~Truncates(n, s)'
    <3>1. CASE n = m
      BY <1>2, <1>3, <3>1 DEF Truncates
    <3>2. CASE n # m
      <4>1. truncating'[n] = truncating[n]
        BY <1>2, <1>3, <3>2
      <4>2. QED BY <2>4, <3>2, <4>1 DEF Truncates
    <3>3. QED BY <3>1, <3>2
  <2>6. Settled(s)'
    BY <2>5 DEF Settled, Truncates
  <2>7. ShowsFrom(s, b)' /\ b \in 0..Len(log'[s])
    BY <1>3, <2>3 DEF ShowsFrom
  <2>8. Alike(s)'
    BY <1>3, <2>4, <2>6, <2>7 DEF Alike
  <2>9. Decodes(s)'
    BY <1>3, <2>1 DEF Decodes
  <2>10. QED BY <2>8, <2>9
<1>6. touched'[s] # 0
  BY <1>3, <1>4
<1>7. QED BY <1>5, <1>6 DEF SameHistory

\* The call the in-memory store takes beside an append.
LEMMA AppendCalls ==
    ASSUME KInv, NEW c \in Callers, pc[c] = "append"
    PROVE  CallStream(c) \in Streams /\ fresh[c] \in Seq(Payloads)
<1>1. CallsTypeOK /\ ServiceTypeOK /\ c \in AllCallers
  BY PartsOfKInv DEF AllCallers
<1>2. CallStream(c) \in Streams
  BY <1>1, HandlersAssumption DEF CallsTypeOK, CallStream, StreamOf
<1>3. fresh[c] \in Batches \union {<<>>}
  BY <1>1 DEF ServiceTypeOK
<1>4. <<>> \in Seq(Payloads)
  OBVIOUS
<1>5. QED BY <1>2, <1>3, <1>4, BatchesAssumption

\* The two stores never come to agree again about what they have differed about, and
\* the in-memory store keeps its type.
LEMMA MemSteps ==
    ASSUME KInv, ComparedTypeOK, [ComparedNext]_comparedVars
    PROVE  Mem!StoreTypeOK' /\ apart \subseteq apart' /\ apart' \subseteq Streams
<1>1. Mem!StoreTypeOK /\ apart \subseteq Streams
  BY DEF ComparedTypeOK
<1>2. streams \in [Streams -> Seq(StreamEvents)] /\ globalPosition \in Nat
  BY <1>1, MemTyped
<1>3. CASE UNCHANGED memVars
  <2>1. UNCHANGED <<streams, globalPosition, apart>>
    BY <1>3 DEF memVars
  <2>2. QED BY <1>1, <1>2, <2>1, MemTypedThen
<1>4. ASSUME NEW s \in Streams, NEW v, Mem!AppendConflict(s, v) PROVE Mem!StoreTypeOK'
  BY <1>2, <1>4, MemTypedThen DEF Mem!AppendConflict, Mem!storeVars
<1>5. ASSUME NEW s \in Streams, NEW v, NEW taken, Answers(s, v, taken)
      PROVE  apart \subseteq apart' /\ apart' \subseteq Streams
  BY <1>1, <1>5 DEF Answers
<1>6. ASSUME NEW c \in Callers, BothAppend(c), ~UNCHANGED memVars
      PROVE  Mem!StoreTypeOK' /\ apart \subseteq apart' /\ apart' \subseteq Streams
  <2>1. /\ pc[c] = "append"
        /\ Answers(CallStream(c), version[c], log' # log)
        /\ \/ Mem!AppendEvents(CallStream(c), version[c], fresh[c])
           \/ Mem!AppendConflict(CallStream(c), version[c])
    BY <1>6 DEF BothAppend
  <2>2. PICK s \in Streams, new \in Seq(Payloads) : s = CallStream(c) /\ new = fresh[c]
    BY <2>1, AppendCalls
  <2>3. ASSUME Mem!AppendEvents(s, version[c], new) PROVE Mem!StoreTypeOK'
    BY <1>1, <2>3, MemAppends
  <2>4. QED BY <1>4, <1>5, <2>1, <2>2, <2>3
<1>7. ASSUME NEW s \in Streams, NEW expected \in Expectable, BothDelete(s, expected)
      PROVE  Mem!StoreTypeOK' /\ apart \subseteq apart' /\ apart' \subseteq Streams
  <2>1. ASSUME Mem!DeleteStream(s, expected) PROVE Mem!StoreTypeOK'
    <3>1. <<>> \in Seq(StreamEvents)
      OBVIOUS
    <3>2. streams' = [streams EXCEPT ![s] = <<>>] /\ globalPosition' = globalPosition
      BY <2>1 DEF Mem!DeleteStream
    <3>3. QED BY <1>2, <3>1, <3>2, MemTypedThen
  <2>2. QED BY <1>4, <1>5, <1>7, <2>1 DEF BothDelete
<1>8. ASSUME NEW s \in Streams, NEW expected \in Expectable, NEW m \in Maintainers,
             NEW position \in Positions, BothTruncate(m, s, position, expected)
      PROVE  Mem!StoreTypeOK' /\ apart \subseteq apart' /\ apart' \subseteq Streams
  <2>1. ASSUME Mem!TruncateStream(s, position, expected) PROVE Mem!StoreTypeOK'
    <3>1. PICK kept \in Seq(StreamEvents) : kept = Mem!Kept(streams[s], position)
      BY <1>2, KeptTyped, KurrentAssumption
    <3>2. streams' = [streams EXCEPT ![s] = kept] /\ globalPosition' = globalPosition
      BY <1>2, <2>1, <3>1 DEF Mem!TruncateStream
    <3>3. QED BY <1>2, <3>2, MemTypedThen
  <2>2. apart' = apart \/ apart' = apart \union {s}
    BY <1>8 DEF BothTruncate
  <2>3. QED BY <1>1, <1>4, <1>8, <2>1, <2>2 DEF BothTruncate
<1>9. ASSUME NEW s \in Streams, OneAppends(s)
      PROVE  Mem!StoreTypeOK' /\ apart \subseteq apart' /\ apart' \subseteq Streams
  <2>1. apart' = apart \union {s} /\ UNCHANGED <<streams, globalPosition>>
    BY <1>9 DEF OneAppends
  <2>2. QED BY <1>1, <1>2, <2>1, MemTypedThen
<1>10. OneSteps \/ UNCHANGED comparedVars => UNCHANGED memVars
  BY DEF OneSteps, comparedVars
<1>11. QED BY <1>3, <1>6, <1>7, <1>8, <1>9, <1>10 DEF ComparedNext

\* Revisions are given out one after the other.
LEMMA PlacedStays ==
    ASSUME KInv, [Next]_vars, NEW s \in Streams, Placed(s) PROVE Placed(s)'
<1>1. KurrentTypeOK
  BY PartsOfKInv
<1>2. CASE log' = log
  BY <1>2 DEF Placed
<1>3. ASSUME NEW a \in Streams, NEW sent \in Seq(Sent), Record(a, sent) PROVE Placed(s)'
  <2>1. CASE s = a
    <3>1. PICK x \in Nat, k \in Nat : x = Len(log[s]) /\ k = Len(sent)
      <4>1. Len(log[s]) \in Nat /\ Len(sent) \in Nat
        BY <1>1 DEF KurrentTypeOK
      <4>2. QED BY <4>1
    <3>2. /\ Grows /\ Len(log'[a]) = Len(log[a]) + Len(sent)
          /\ \A i \in 1..Len(sent) :
                log'[a][Len(log[a]) + i].position = Len(log[a]) + i - 1
      BY <1>1, <1>3, RecordGrows
    <3>3. /\ Len(log'[s]) = x + k
          /\ \A i \in 1..x : log'[s][i] = log[s][i]
          /\ \A i \in 1..k : log'[s][x + i].position = x + i - 1
      BY <2>1, <3>1, <3>2 DEF Grows
    <3>4. ASSUME NEW i \in 1..Len(log'[s]) PROVE log'[s][i].position = i - 1
      <4>1. CASE i \in 1..x
        BY <3>1, <3>3, <4>1 DEF Placed
      <4>2. CASE i \notin 1..x
        <5>1. PICK j \in 1..k : i = x + j
          <6>1. i - x \in 1..k /\ i = x + (i - x)
            BY <3>3, <3>4, <4>2
          <6>2. QED BY <6>1
        <5>2. log'[s][x + j].position = x + j - 1
          BY <3>3
        <5>3. QED BY <5>1, <5>2
      <4>3. QED BY <4>1, <4>2
    <3>5. QED BY <3>4 DEF Placed
  <2>2. CASE s # a
    <3>1. log'[s] = log[s]
      BY <1>1, <1>3, <2>2, RecordGrows
    <3>2. QED BY <3>1 DEF Placed
  <2>3. QED BY <2>1, <2>2
<1>4. \/ log' = log
      \/ \E a \in Streams, sent \in Seq(Sent) : Record(a, sent)
  <2>1. UNCHANGED kurrentVars => log' = log
    BY DEF kurrentVars
  <2>2. QED BY <2>1, StepShapes DEF Delete, DeleteStream, CheckVersion, WriteMetadata,
           SetTruncateBefore, kurrentVars
<1>5. QED BY <1>2, <1>3, <1>4

LEMMA StepCompared ==
    KInv /\ KInv' /\ NInv /\ CInv /\ [ComparedNext]_comparedVars => CInv'
<1> SUFFICES ASSUME KInv, KInv', NInv, CInv, [ComparedNext]_comparedVars PROVE CInv'
  OBVIOUS
<1>1. [Next]_vars /\ ComparedTypeOK /\ Upkept
  BY ComparedIsNext DEF CInv, NInv
<1>2. Mem!StoreTypeOK /\ Mem!StoreTypeOK' /\ apart \subseteq apart' /\ apart' \subseteq Streams
  BY <1>1, MemSteps DEF ComparedTypeOK
<1>3. ComparedTypeOK'
  BY <1>2 DEF ComparedTypeOK, KInv
<1>4. ASSUME NEW s \in Streams PROVE Placed(s)' /\ SameHistory(s)'
  <2>1. Placed(s) /\ SameHistory(s)
    BY DEF CInv
  <2>2. Placed(s)'
    BY <1>1, <2>1, PlacedStays
  <2>3. CASE s \in apart'
    BY <2>2, <2>3 DEF SameHistory
  <2>4. CASE s \notin apart'
    <3>1. Quiet(s) \/ Taken(s) \/ Removed(s) \/ Cut(s) \/ Written(s)
      BY <1>1, <2>4, Shapes DEF Shape
    <3>2. SameHistory(s)'
      BY <1>1, <1>2, <2>1, <3>1, QuietKeeps, TakenKeeps, RemovedKeeps, CutKeeps,
         WrittenKeeps
    <3>3. QED BY <2>2, <3>2
  <2>5. QED BY <2>3, <2>4
<1>5. QED BY <1>3, <1>4 DEF CInv

LEMMA ComparedStarts == ComparedInit => CInv
<1> SUFFICES ASSUME ComparedInit PROVE CInv
  OBVIOUS
<1>1. KInv /\ NInv /\ Init
  BY Starts, NStarts DEF ComparedInit
<1>2. streams = [s \in Streams |-> <<>>] /\ globalPosition = 0 /\ apart = {}
  BY DEF ComparedInit, Mem!StoreInit
<1>3. ComparedTypeOK
  <2>1. streams \in [Streams -> Seq(StreamEvents)]
    <3>1. <<>> \in Seq(StreamEvents)
      OBVIOUS
    <3>2. QED BY <1>2, <3>1
  <2>2. QED BY <1>1, <1>2, <2>1, MemTyped DEF ComparedTypeOK, KInv
<1>4. ASSUME NEW s \in Streams PROVE Placed(s) /\ SameHistory(s)
  <2>1. /\ log[s] = <<>> /\ streams[s] = <<>> /\ before[s] = 0 /\ s \notin deleted
        /\ \A m \in Maintainers : truncating[m] = NoTruncation
    BY <1>1, <1>2 DEF Init, KurrentInit
  <2>2. Len(log[s]) = 0 /\ Len(streams[s]) = 0
    BY <2>1
  <2>3. ShowsFrom(s, 0) /\ 0 \in 0..Len(log[s])
    BY <2>2 DEF ShowsFrom
  <2>4. Settled(s)
    BY <2>1 DEF Settled
  <2>5. Alike(s)
    BY <2>1, <2>3, <2>4 DEF Alike
  <2>6. Placed(s) /\ Decodes(s) /\ Numbered(s)
    BY <2>2 DEF Placed, Decodes, Numbered
  <2>7. QED BY <2>5, <2>6 DEF SameHistory
<1>5. QED BY <1>3, <1>4 DEF CInv

\* What the two stores have in common stays, whatever is done to a stream: the invariant
\* the comparison follows from, beside those of KurrentCommands.
THEOREM ComparedInductive == ComparedSpec => [](KInv /\ NInv /\ CInv)
<1>1. ComparedInit => KInv /\ NInv /\ CInv
  BY Starts, NStarts, ComparedStarts DEF ComparedInit
<1>2. KInv /\ NInv /\ CInv /\ [ComparedNext]_comparedVars => (KInv /\ NInv /\ CInv)'
  BY ComparedIsNext, Preserved, StepCurrent, StepCompared
<1>3. QED BY <1>1, <1>2, PTL DEF ComparedSpec

\* The in-memory store keeps its type beside the KurrentDB store, truncated and continued
\* as it may be.
THEOREM ComparedTypeCorrect == ComparedSpec => []ComparedTypeOK
<1>1. CInv => ComparedTypeOK
  BY DEF CInv
<1>2. QED BY <1>1, ComparedInductive, PTL

\* Where a read forwards begins, and how many of the events from there it is shown.
Begin(s, start) == IF start < before[s] THEN before[s] ELSE start

Least(m, n) == IF m < n THEN m ELSE n
Rest(x, b) == IF b < x THEN x - b ELSE 0

LEMMA RestTyped ==
    ASSUME NEW x \in Nat, NEW b \in Nat
    PROVE  Rest(x, b) \in Nat /\ (b <= x => Rest(x, b) = x - b)
<1>1. CASE b < x
  <2>1. Rest(x, b) = x - b
    BY <1>1 DEF Rest
  <2>2. QED BY <1>1, <2>1
<1>2. CASE ~(b < x)
  <2>1. Rest(x, b) = 0
    BY <1>2 DEF Rest
  <2>2. QED BY <1>2, <2>1
<1>3. QED BY <1>1, <1>2

LEMMA ForwardsShows ==
    ASSUME KurrentTypeOK, NEW s \in Streams, NEW start \in Nat, NEW count \in Nat
    PROVE  /\ Begin(s, start) \in Nat
           /\ VisibleFrom(s, start) \in Seq(RecordedEvents)
           /\ Len(VisibleFrom(s, start)) = Rest(Len(log[s]), Begin(s, start))
           /\ Forwards(s, start, count) \in Seq(RecordedEvents)
           /\ Len(Forwards(s, start, count)) =
                 Least(count, Rest(Len(log[s]), Begin(s, start)))
           /\ \A i \in 1..Len(Forwards(s, start, count)) :
                 /\ Begin(s, start) + i \in 1..Len(log[s])
                 /\ Forwards(s, start, count)[i] = log[s][Begin(s, start) + i]
<1>1. PICK all \in Seq(RecordedEvents) : all = log[s]
  BY DEF KurrentTypeOK
<1>2. PICK x \in Nat : x = Len(all)
  OBVIOUS
<1>3. PICK b \in Nat : b = Begin(s, start)
  BY DEF KurrentTypeOK, Begin
<1>4. PICK rest \in Nat : rest = Rest(x, b) /\ rest = IF b < x THEN x - b ELSE 0
  BY <1>2, <1>3, RestTyped DEF Rest
<1>5. PICK a \in Int : a = b + 1
  OBVIOUS
<1>6. PICK q : q = SubSeq(all, a, x)
  OBVIOUS
<1>7. VisibleFrom(s, start) = q
  <2>1. VisibleFrom(s, start) = SubSeq(log[s], b + 1, Len(log[s]))
    BY <1>3 DEF VisibleFrom, Begin
  <2>2. QED BY <1>1, <1>2, <1>5, <1>6, <2>1
<1>8. /\ q \in Seq(RecordedEvents)
      /\ Len(q) = IF a <= x THEN x - a + 1 ELSE 0
      /\ \A i \in 1..(x - a + 1) : q[i] = all[a + i - 1]
  <2>1. x \in Int /\ \A i \in a..x : all[i] \in RecordedEvents
    BY <1>2, <1>5
  <2>2. QED BY ONLY <1>6, <2>1, a \in Int, SubSeqProperties
<1>9. Len(q) = rest
  <2>1. rest = IF a <= x THEN x - a + 1 ELSE 0
    BY <1>2, <1>4, <1>5
  <2>2. QED BY <1>8, <2>1
<1>10. PICK n \in 0..rest : n = Least(count, rest) /\ n = IF count < rest THEN count ELSE rest
  <2>1. PICK n \in Nat : n = Least(count, rest) /\ n = IF count < rest THEN count ELSE rest
    BY <1>4 DEF Least
  <2>2. n \in 0..rest
    BY <1>4, <2>1
  <2>3. QED BY <2>1, <2>2
<1>11. PICK first : first = SubSeq(q, 1, n)
  OBVIOUS
<1>12. Forwards(s, start, count) = first
  BY <1>7, <1>9, <1>10, <1>11 DEF Forwards, FirstOf
<1>13. first \in Seq(RecordedEvents) /\ Len(first) = n /\ \A i \in 1..n : first[i] = q[i]
  BY ONLY <1>8, <1>9, <1>10, <1>11, PrefixProperties
<1>14. ASSUME NEW i \in 1..n PROVE b + i \in 1..x /\ first[i] = all[b + i]
  <2>1. i \in Nat /\ 1 <= i /\ i <= rest /\ rest > 0
    BY <1>4, <1>10, <1>14
  <2>2. b < x /\ rest = x - b
    BY <1>2, <1>3, <1>4, <2>1
  <2>3. b + i \in 1..x /\ i \in 1..(x - a + 1) /\ a + i - 1 = b + i
    <3>1. i <= x - b
      BY <2>1, <2>2
    <3>2. x \in Nat /\ b \in Nat /\ a = b + 1
      BY <1>2, <1>3, <1>5
    <3>3. QED BY ONLY <2>1, <3>1, <3>2
  <2>4. QED BY <1>8, <1>13, <2>3
<1>15. QED BY <1>1, <1>2, <1>3, <1>4, <1>7, <1>8, <1>9, <1>10, <1>12, <1>13, <1>14

\* Events that decode are read with the payloads they were written with.
LEMMA ReadAsWritten ==
    ASSUME NEW events \in Seq(RecordedEvents),
           \A i \in 1..Len(events) : fromName[events[i].name] = TypeOf(events[i].payload)
    PROVE  PayloadsOf(AsRead(events)) = [i \in 1..Len(events) |-> events[i].payload]
<1>1. PICK n \in Nat : n = Len(events)
  OBVIOUS
<1>2. \A i \in 1..n : Decoded(events[i]) = events[i].payload
  BY <1>1 DEF Decoded
<1>3. PICK read : read = AsRead(events)
  OBVIOUS
<1>4. Len(read) = n /\ \A i \in 1..n : read[i].payload = events[i].payload
  <2>1. read = [i \in 1..n |-> [payload |-> Decoded(events[i]),
                                position |-> events[i].position,
                                global |-> events[i].global]]
    BY <1>1, <1>3 DEF AsRead
  <2>2. Len(read) = n
    BY <2>1
  <2>3. QED BY <1>2, <2>1, <2>2
<1>5. PayloadsOf(read) = [i \in 1..n |-> read[i].payload]
  BY <1>4 DEF PayloadsOf
<1>6. QED BY <1>1, <1>3, <1>4, <1>5

\* The payloads a read of either store returns.
LEMMA KurrentPayloads ==
    ASSUME KurrentTypeOK, NEW s \in Streams, Decodes(s), NEW start \in Nat, NEW count \in Nat
    PROVE  PayloadsOf(ReadEvents(s, start, count)) =
               [i \in 1..Least(count, Rest(Len(log[s]), Begin(s, start))) |->
                   log[s][Begin(s, start) + i].payload]
<1>1. PICK shown \in Seq(RecordedEvents) : shown = Forwards(s, start, count)
  BY ForwardsShows
<1>2. /\ Len(shown) = Least(count, Rest(Len(log[s]), Begin(s, start)))
      /\ \A i \in 1..Len(shown) :
            /\ Begin(s, start) + i \in 1..Len(log[s])
            /\ shown[i] = log[s][Begin(s, start) + i]
  BY <1>1, ForwardsShows
<1>3. \A i \in 1..Len(shown) : fromName[shown[i].name] = TypeOf(shown[i].payload)
  BY <1>2 DEF Decodes
<1>4. PayloadsOf(AsRead(shown)) = [i \in 1..Len(shown) |-> shown[i].payload]
  BY <1>3, ReadAsWritten
<1>5. QED BY <1>1, <1>2, <1>4 DEF ReadEvents

LEMMA MemPayloads ==
    ASSUME streams \in [Streams -> Seq(StreamEvents)], NEW s \in Streams,
           NEW start \in Nat, NEW count \in Nat
    PROVE  PayloadsOf(Mem!ReadEvents(s, start, count)) =
               [i \in 1..Least(count, Rest(Len(streams[s]), start)) |->
                   streams[s][start + i].payload]
<1>1. PICK all \in Seq(StreamEvents) : all = streams[s]
  OBVIOUS
<1>2. PICK x \in Nat : x = Len(all)
  OBVIOUS
<1> PICK rest \in Nat : rest = Rest(x, start) /\ rest = IF start < x THEN x - start ELSE 0
  BY <1>2, RestTyped DEF Rest
<1> PICK n \in Nat : n = Least(count, rest) /\ n = IF count < rest THEN count ELSE rest
  BY DEF Least
<1>3. PICK a \in Int, z \in Int :
          a = start + 1 /\ z = IF start + count < x THEN start + count ELSE x
  <2>1. PICK c \in Int : c = start + count
    OBVIOUS
  <2>2. Least(c, x) \in Int
    BY <1>2, <2>1 DEF Least
  <2>3. PICK z \in Int : z = Least(c, x)
    BY <2>2
  <2>4. PICK a \in Int : a = start + 1
    OBVIOUS
  <2>5. QED BY <2>1, <2>3, <2>4 DEF Least
<1>4. PICK q : q = SubSeq(all, a, z)
  OBVIOUS
<1>5. Mem!ReadEvents(s, start, count) = q
  BY <1>1, <1>2, <1>3, <1>4 DEF Mem!ReadEvents
<1>6. /\ q \in Seq(StreamEvents) /\ Len(q) = IF a <= z THEN z - a + 1 ELSE 0
      /\ \A i \in 1..(z - a + 1) : q[i] = all[a + i - 1]
  <2>1. \A i \in a..z : all[i] \in StreamEvents
    BY <1>2, <1>3
  <2>2. QED BY ONLY <1>4, <2>1, a \in Int, z \in Int, SubSeqProperties
<1>7. Len(q) = n
  <2>1. n = IF a <= z THEN z - a + 1 ELSE 0
    BY <1>2, <1>3
  <2>2. QED BY <1>6, <2>1
<1>8. ASSUME NEW i \in 1..n PROVE q[i] = all[start + i]
  <2>1. n = z - a + 1 /\ a + i - 1 = start + i
    BY <1>3, <1>6, <1>7, <1>8
  <2>2. QED BY <1>6, <1>8, <2>1
<1>9. PayloadsOf(q) = [i \in 1..n |-> q[i].payload]
  BY <1>7 DEF PayloadsOf
<1>10. PayloadsOf(Mem!ReadEvents(s, start, count)) =
           [i \in 1..n |-> streams[s][start + i].payload]
  BY <1>1, <1>5, <1>8, <1>9
<1>11. QED BY <1>1, <1>2, <1>10

\* The same, backwards from an event that is there.
LEMMA KurrentPayloadsBack ==
    ASSUME KurrentTypeOK, NEW s \in Streams, Decodes(s), before[s] = 0,
           NEW start \in Nat, NEW count \in Nat, start < Len(log[s])
    PROVE  PayloadsOf(ReadEventsBackwards(s, start, count)) =
               [i \in 1..Least(count, start + 1) |-> log[s][start + 2 - i].payload]
<1> PICK n \in Nat :
        n = Least(count, start + 1) /\ n = IF count < start + 1 THEN count ELSE start + 1
  BY DEF Least
<1>1. PICK all \in Seq(RecordedEvents) : all = log[s]
  BY DEF KurrentTypeOK
<1>2. PICK x \in Nat : x = Len(all)
  OBVIOUS
<1>3. PICK a \in 0..x : a = start + 1
  BY <1>1, <1>2
<1>4. PICK q \in Seq(RecordedEvents) :
          q = VisibleUpTo(s, start) /\ Len(q) = a /\ \A i \in 1..a : q[i] = all[i]
  <2>1. VisibleUpTo(s, start) = SubSeq(all, 1, a)
    BY <1>1, <1>2, <1>3 DEF VisibleUpTo
  <2>2. /\ SubSeq(all, 1, a) \in Seq(RecordedEvents) /\ Len(SubSeq(all, 1, a)) = a
        /\ \A i \in 1..a : SubSeq(all, 1, a)[i] = all[i]
    BY ONLY all \in Seq(RecordedEvents), a \in 0..x, <1>2, PrefixProperties
  <2>3. QED BY <2>1, <2>2
<1>5. PICK turned \in Seq(RecordedEvents) :
          turned = Backwards(q) /\ Len(turned) = a /\ \A i \in 1..a : turned[i] = q[a + 1 - i]
  <2>1. Backwards(q) = [i \in 1..a |-> q[a + 1 - i]]
    BY <1>4 DEF Backwards
  <2>2. \A i \in 1..a : a + 1 - i \in 1..a
    OBVIOUS
  <2>3. Backwards(q) \in [1..a -> RecordedEvents]
    <3>1. ASSUME NEW i \in 1..a PROVE q[a + 1 - i] \in RecordedEvents
      <4>1. a + 1 - i \in 1..a
        BY <2>2
      <4>2. QED BY <1>4, <4>1
    <3>2. QED BY <2>1, <3>1
  <2>4. Backwards(q) \in Seq(RecordedEvents) /\ Len(Backwards(q)) = a
    BY <1>3, <2>3
  <2>5. QED BY <2>1, <2>4
<1>6. PICK first \in Seq(RecordedEvents) :
          /\ first = FirstOf(turned, count) /\ Len(first) = n
          /\ \A i \in 1..n : first[i] = turned[i]
  <2>1. n \in 0..Len(turned) /\ n = IF count < Len(turned) THEN count ELSE Len(turned)
    BY <1>3, <1>5
  <2>2. FirstOf(turned, count) = SubSeq(turned, 1, n)
    BY <2>1 DEF FirstOf
  <2>3. /\ SubSeq(turned, 1, n) \in Seq(RecordedEvents) /\ Len(SubSeq(turned, 1, n)) = n
        /\ \A i \in 1..n : SubSeq(turned, 1, n)[i] = turned[i]
    BY ONLY turned \in Seq(RecordedEvents), <2>1, PrefixProperties
  <2>4. QED BY <2>2, <2>3
<1>7. ASSUME NEW i \in 1..n PROVE start + 2 - i \in 1..x /\ first[i] = all[start + 2 - i]
  <2>1. i \in 1..a /\ a + 1 - i \in 1..a /\ a + 1 - i = start + 2 - i /\ a <= x
    BY <1>3
  <2>2. QED BY <1>4, <1>5, <1>6, <2>1
<1>8. \A i \in 1..n : fromName[first[i].name] = TypeOf(first[i].payload)
  <2>1. \A j \in 1..x : fromName[all[j].name] = TypeOf(all[j].payload)
    BY <1>1, <1>2 DEF Decodes
  <2>2. ASSUME NEW i \in 1..n
        PROVE  fromName[first[i].name] = TypeOf(first[i].payload)
    <3>1. PICK j \in 1..x : first[i] = all[j]
      BY <1>7
    <3>2. QED BY <2>1, <3>1
  <2>3. QED BY <2>2
<1>9. PayloadsOf(AsRead(first)) = [i \in 1..n |-> first[i].payload]
  BY <1>6, <1>8, ReadAsWritten
<1>10. ReadEventsBackwards(s, start, count) = AsRead(first)
  BY <1>4, <1>5, <1>6 DEF ReadEventsBackwards
<1>11. QED BY <1>1, <1>7, <1>9, <1>10

LEMMA MemPayloadsBack ==
    ASSUME streams \in [Streams -> Seq(StreamEvents)], NEW s \in Streams,
           NEW start \in Nat, NEW count \in Nat, start < Len(streams[s])
    PROVE  PayloadsOf(Mem!ReadEventsBackwards(s, start, count)) =
               [i \in 1..Least(count, start + 1) |-> streams[s][start + 2 - i].payload]
<1> PICK n \in Nat :
        n = Least(count, start + 1) /\ n = IF count < start + 1 THEN count ELSE start + 1
  BY DEF Least
<1>1. PICK x \in Nat : x = Len(streams[s])
  OBVIOUS
<1>2. PICK q : q = [i \in 1..n |-> streams[s][start + 1 + 1 - i]]
  OBVIOUS
<1>3. Mem!ReadEventsBackwards(s, start, count) = q
  <2>1. ~(start >= Len(streams[s]))
    BY <1>1
  <2>2. QED BY <1>2, <2>1 DEF Mem!ReadEventsBackwards
<1>4. Len(q) = n /\ \A i \in 1..n : q[i] = streams[s][start + 2 - i]
  <2>1. \A i \in 1..n : start + 1 + 1 - i = start + 2 - i
    OBVIOUS
  <2>2. QED BY <1>2, <2>1
<1>5. PayloadsOf(q) = [i \in 1..n |-> q[i].payload]
  BY <1>4 DEF PayloadsOf
<1>6. QED BY <1>3, <1>4, <1>5

\* A stream that nobody deleted or truncated is the same in both.
SameStream(s) ==
    /\ AsRead(log[s]) = [i \in 1..Len(streams[s]) |->
                            [streams[s][i] EXCEPT !.global = log[s][i].global]]
    /\ \A v \in Expectable : Matches(s, v) <=> Mem!VersionMatches(s, v)
    /\ \A v \in Expectable : TruncateAllowed(s, v) <=> Mem!VersionMatches(s, v)
    /\ \A new \in Batches :
          KurrentResult(s, new).version = Mem!AppendResult(s, new).version
    /\ KurrentFound(s) <=> Mem!StreamFound(s)
    /\ \A start, count \in 0..MaxEvents :
          /\ PayloadsOf(ReadEvents(s, start, count)) =
                PayloadsOf(Mem!ReadEvents(s, start, count))
          /\ start < Len(log[s]) =>
                PayloadsOf(ReadEventsBackwards(s, start, count)) =
                    PayloadsOf(Mem!ReadEventsBackwards(s, start, count))

LEMMA VisibleShows ==
    ASSUME KurrentTypeOK, NEW s \in Streams
    PROVE  /\ Visible(s) \in Seq(RecordedEvents)
           /\ Len(Visible(s)) = Rest(Len(log[s]), Begin(s, 0))
<1>1. /\ VisibleFrom(s, 0) \in Seq(RecordedEvents)
      /\ Len(VisibleFrom(s, 0)) = Rest(Len(log[s]), Begin(s, 0))
      /\ Forwards(s, 0, 0) \in Seq(RecordedEvents)
  BY ForwardsShows
<1>2. QED BY <1>1 DEF Visible

LEMMA UntouchedSame ==
    ASSUME KInv, CInv, Upkept, NEW s \in Streams, touched[s] = 0, s \notin apart
    PROVE  SameStream(s)
<1>1. KurrentTypeOK /\ streams \in [Streams -> Seq(StreamEvents)]
  BY PartsOfKInv, MemTyped DEF CInv, ComparedTypeOK
<1>2. Decodes(s) /\ Placed(s) /\ Numbered(s) /\ Alike(s)
  BY DEF CInv, SameHistory
<1>3. s \notin deleted /\ before[s] = 0 /\ ShowsFrom(s, 0)
  BY <1>2, UntouchedShows
<1>4. PICK kept \in Seq(RecordedEvents), held \in Seq(StreamEvents), x \in Nat :
          kept = log[s] /\ held = streams[s] /\ x = Len(kept)
  <2>1. log[s] \in Seq(RecordedEvents) /\ streams[s] \in Seq(StreamEvents)
    BY <1>1 DEF KurrentTypeOK
  <2>2. Len(log[s]) \in Nat
    BY <2>1
  <2>3. QED BY <2>1, <2>2
<1>5. /\ Len(held) = x
      /\ \A i \in 1..x : held[i].payload = kept[i].payload
      /\ \A i \in 1..x : held[i].position = i - 1 /\ kept[i].position = i - 1
  <2>1. Len(held) = x - 0 /\ \A i \in 1..Len(held) : held[i].payload = kept[0 + i].payload
    BY <1>3, <1>4 DEF ShowsFrom
  <2>2. Len(held) = x /\ \A i \in 1..x : 0 + i = i
    BY <1>4, <2>1
  <2>3. QED BY <1>2, <1>4, <2>1, <2>2 DEF Placed, Numbered
<1>6. AsRead(log[s]) = [i \in 1..Len(streams[s]) |->
                           [streams[s][i] EXCEPT !.global = log[s][i].global]]
  <2>1. ASSUME NEW i \in 1..x
        PROVE  [payload |-> Decoded(kept[i]), position |-> kept[i].position,
                global |-> kept[i].global] =
                   [held[i] EXCEPT !.global = kept[i].global]
    <3>1. Decoded(kept[i]) = kept[i].payload
      BY <1>2, <1>4 DEF Decodes, Decoded
    <3>2. held[i] \in StreamEvents
      BY <1>5
    <3>3. held[i] = [payload |-> held[i].payload, position |-> held[i].position,
                     global |-> held[i].global]
      BY <3>2 DEF StreamEvents
    <3>4. QED BY <1>5, <3>1, <3>3
  <2>2. AsRead(kept) = [i \in 1..x |->
            [payload |-> Decoded(kept[i]), position |-> kept[i].position,
             global |-> kept[i].global]]
    BY <1>4 DEF AsRead
  <2>3. QED BY <1>4, <1>5, <2>1, <2>2
<1>7. /\ log[s] = <<>> <=> x = 0
      /\ Len(log[s]) = x /\ Len(streams[s]) = x
  BY <1>4, <1>5
<1>8. ASSUME NEW v \in Expectable PROVE v = VersionAny \/ v = VersionNoStream \/ v \in Nat
  BY KurrentAssumption DEF Expectable
<1>9. \A v \in Expectable : Mem!VersionMatches(s, v) <=> v = VersionAny \/ v = x - 1
  <2>1. Mem!VersionAny = VersionAny
    BY DEF Mem!VersionAny, VersionAny
  <2>2. QED BY <1>7, <2>1 DEF Mem!VersionMatches, Mem!CurrentVersion
<1>10. ASSUME NEW v \in Expectable PROVE Matches(s, v) <=> Mem!VersionMatches(s, v)
  <2>1. Matches(s, v) <=> v = VersionAny \/ v = x - 1
    <3>1. CASE v = VersionAny
      BY <3>1, MatchesMeans
    <3>2. CASE v = VersionNoStream
      <4>1. Matches(s, v) <=> x = 0
        BY <1>3, <1>7, <3>2, MatchesMeans
      <4>2. QED BY <3>2, <4>1 DEF VersionAny, VersionNoStream
    <3>3. CASE v \in Nat
      <4>1. Matches(s, v) <=> v = x - 1
        BY <1>7, <3>3, MatchesMeans
      <4>2. QED BY <3>3, <4>1 DEF VersionAny
    <3>4. QED BY <1>8, <3>1, <3>2, <3>3
  <2>2. QED BY <1>9, <2>1
<1>11. Visible(s) = <<>> <=> x = 0
  <2>1. Visible(s) \in Seq(RecordedEvents) /\ Len(Visible(s)) = Rest(x, Begin(s, 0))
    BY <1>1, <1>7, VisibleShows
  <2>2. Begin(s, 0) = 0
    BY <1>3 DEF Begin
  <2>3. Rest(x, 0) = x
    <3>1. CASE 0 < x
      <4>1. Rest(x, 0) = x - 0
        BY <3>1 DEF Rest
      <4>2. QED BY <1>4, <4>1
    <3>2. CASE ~(0 < x)
      <4>1. Rest(x, 0) = 0
        BY <3>2 DEF Rest
      <4>2. QED BY <1>4, <3>2, <4>1
    <3>3. QED BY <3>1, <3>2
  <2>4. PICK q \in Seq(RecordedEvents) : q = Visible(s) /\ Len(q) = x
    BY <2>1, <2>2, <2>3
  <2>5. QED BY <2>4
<1>12. KurrentFound(s) <=> x # 0
  BY <1>3, <1>7 DEF KurrentFound
<1>13. ASSUME NEW v \in Expectable PROVE TruncateAllowed(s, v) <=> Mem!VersionMatches(s, v)
  <2>1. TruncateAllowed(s, v) <=>
           v = VersionAny \/ (x = 0 /\ v = VersionNoStream) \/ (x # 0 /\ v = x - 1)
    BY <1>7, <1>11, <1>12 DEF TruncateAllowed, Revision
  <2>2. TruncateAllowed(s, v) <=> v = VersionAny \/ v = x - 1
    BY <1>4, <1>8, <2>1 DEF VersionAny, VersionNoStream
  <2>3. QED BY <1>9, <2>2
<1>14. ASSUME NEW new \in Batches
       PROVE  KurrentResult(s, new).version = Mem!AppendResult(s, new).version
  <2>1. PICK q \in Seq(Payloads), k \in Nat : q = new /\ k = Len(q)
    <3>1. new \in Seq(Payloads)
      BY BatchesAssumption
    <3>2. Len(new) \in Nat
      BY <3>1
    <3>3. QED BY <3>1, <3>2
  <2>2. PICK tail \in Seq(StreamEvents) : tail = Mem!Stamped(s, new) /\ Len(tail) = k
    BY <1>1, <2>1, StampedTyped, MemTyped DEF CInv, ComparedTypeOK
  <2>3. Len(held \o tail) = x + k
    <3>1. Len(held \o tail) = Len(held) + Len(tail)
      BY ONLY held \in Seq(StreamEvents), tail \in Seq(StreamEvents), Concatenation
    <3>2. QED BY <1>5, <2>2, <3>1
  <2>4. Mem!AppendResult(s, new).version = x + k - 1
    BY <1>4, <2>2, <2>3 DEF Mem!AppendResult
  <2>5. KurrentResult(s, new).version = x - 1 + k
    BY <1>7, <2>1 DEF KurrentResult, Revision
  <2>6. QED BY <1>4, <2>1, <2>4, <2>5
<1>15. KurrentFound(s) <=> Mem!StreamFound(s)
  BY <1>4, <1>7, <1>12 DEF Mem!StreamFound
<1>16. ASSUME NEW start \in 0..MaxEvents, NEW count \in 0..MaxEvents
       PROVE  PayloadsOf(ReadEvents(s, start, count)) =
                  PayloadsOf(Mem!ReadEvents(s, start, count))
  <2>1. start \in Nat /\ count \in Nat /\ Begin(s, start) = start
    BY <1>3 DEF Begin
  <2>2. PICK n \in Nat : n = Least(count, Rest(x, start)) /\ (n > 0 => start + n <= x)
    <3>1. Rest(x, start) \in Nat /\ (start <= x => Rest(x, start) = x - start)
          /\ (~(start < x) => Rest(x, start) = 0)
      BY <1>4, <2>1, RestTyped DEF Rest
    <3>2. PICK r \in Nat : r = Rest(x, start)
      BY <3>1
    <3>3. PICK n \in Nat : n = Least(count, r) /\ n <= r
      BY <2>1, <3>2 DEF Least
    <3>4. QED BY <1>4, <2>1, <3>1, <3>2, <3>3
  <2>3. PayloadsOf(ReadEvents(s, start, count)) = [i \in 1..n |-> log[s][start + i].payload]
    <3>1. PayloadsOf(ReadEvents(s, start, count)) =
             [i \in 1..Least(count, Rest(Len(log[s]), Begin(s, start))) |->
                 log[s][Begin(s, start) + i].payload]
      BY ONLY <1>1, <1>2, <2>1, s \in Streams, KurrentPayloads
    <3>2. QED BY <1>7, <2>1, <2>2, <3>1
  <2>4. PayloadsOf(Mem!ReadEvents(s, start, count)) =
           [i \in 1..n |-> streams[s][start + i].payload]
    <3>1. PayloadsOf(Mem!ReadEvents(s, start, count)) =
             [i \in 1..Least(count, Rest(Len(streams[s]), start)) |->
                 streams[s][start + i].payload]
      BY ONLY <1>1, <2>1, s \in Streams, MemPayloads
    <3>2. QED BY <1>7, <2>2, <3>1
  <2>5. ASSUME NEW i \in 1..n PROVE log[s][start + i].payload = streams[s][start + i].payload
    <3>1. start + i \in 1..x
      BY <1>4, <2>1, <2>2
    <3>2. QED BY <1>4, <1>5, <3>1
  <2>6. QED BY <2>3, <2>4, <2>5
<1>17. ASSUME NEW start \in 0..MaxEvents, NEW count \in 0..MaxEvents, start < Len(log[s])
       PROVE  PayloadsOf(ReadEventsBackwards(s, start, count)) =
                  PayloadsOf(Mem!ReadEventsBackwards(s, start, count))
  <2>1. start \in Nat /\ count \in Nat /\ start < x
    BY <1>7, <1>17
  <2>2. PICK n \in Nat : n = Least(count, start + 1) /\ n <= start + 1
    BY <2>1 DEF Least
  <2>3. PayloadsOf(ReadEventsBackwards(s, start, count)) =
           [i \in 1..n |-> log[s][start + 2 - i].payload]
    BY <1>1, <1>2, <1>3, <1>7, <2>1, <2>2, KurrentPayloadsBack
  <2>4. PayloadsOf(Mem!ReadEventsBackwards(s, start, count)) =
           [i \in 1..n |-> streams[s][start + 2 - i].payload]
    BY <1>1, <1>7, <2>1, <2>2, MemPayloadsBack
  <2>5. ASSUME NEW i \in 1..n
        PROVE  log[s][start + 2 - i].payload = streams[s][start + 2 - i].payload
    <3>1. start + 2 - i \in 1..x
      BY <1>4, <2>1, <2>2
    <3>2. QED BY <1>4, <1>5, <3>1
  <2>6. QED BY <2>3, <2>4, <2>5
<1>18. QED BY <1>6, <1>10, <1>13, <1>14, <1>15, <1>16, <1>17 DEF SameStream

\* Once it was, both show the same payloads of it.
LEMMA SettledSame ==
    ASSUME KInv, CInv, Upkept, commits <= Everything, NEW s \in Streams, touched[s] <= 1,
           s \notin apart, Settled(s)
    PROVE  /\ StreamExists(s) <=> Mem!StreamExists(s)
           /\ StreamExists(s) =>
                 PayloadsOf(ReadEvents(s, 0, Everything)) = PayloadsOf(streams[s])
<1>1. KurrentTypeOK /\ streams \in [Streams -> Seq(StreamEvents)]
  BY PartsOfKInv, MemTyped DEF CInv, ComparedTypeOK
<1>2. Decodes(s) /\ Alike(s)
  BY DEF CInv, SameHistory
<1>3. PICK b \in 0..Len(log[s]) :
          /\ ShowsFrom(s, b)
          /\ \/ s \notin deleted /\ before[s] = b
             \/ s \in deleted /\ b = Len(log[s])
  BY <1>2 DEF Alike, Settled, Truncates
<1>4. PICK x \in Nat, y \in Nat : x = Len(log[s]) /\ y = Len(streams[s])
  <2>1. Len(log[s]) \in Nat /\ Len(streams[s]) \in Nat
    BY <1>1 DEF KurrentTypeOK
  <2>2. QED BY <2>1
<1>5. b \in 0..x /\ y = x - b
  BY <1>3, <1>4 DEF ShowsFrom
<1>6. Mem!StreamExists(s) <=> y > 0
  BY <1>4 DEF Mem!StreamExists, Mem!StreamFound
<1>7. CASE s \in deleted
  BY <1>3, <1>4, <1>5, <1>6, <1>7 DEF StreamExists, KurrentFound
<1>8. CASE s \notin deleted
  <2>1. before[s] = b /\ Begin(s, 0) = b /\ Rest(x, b) = y
    <3>1. before[s] = b
      BY <1>3, <1>8
    <3>2. b \in Nat /\ b <= x
      BY <1>4, <1>5
    <3>3. Begin(s, 0) = b
      BY <3>1, <3>2 DEF Begin
    <3>4. Rest(x, b) = x - b
      BY <1>4, <3>2, RestTyped
    <3>5. QED BY <1>5, <3>1, <3>3, <3>4
  <2>2. Visible(s) \in Seq(RecordedEvents) /\ Len(Visible(s)) = y
    BY <1>1, <1>4, <2>1, VisibleShows
  <2>3. log[s] \in Seq(RecordedEvents)
    BY <1>1 DEF KurrentTypeOK
  <2>4. StreamExists(s) <=> y > 0
    <3>1. Visible(s) # <<>> <=> y > 0
      BY <1>4, <2>2
    <3>2. y > 0 => log[s] # <<>>
      BY <1>4, <1>5, <2>3
    <3>3. QED BY <1>8, <3>1, <3>2 DEF StreamExists, KurrentFound
  <2>5. Least(Everything, y) = y
    <3>1. x <= commits /\ commits \in Nat
      BY <1>1, <1>4 DEF Upkept, KurrentTypeOK
    <3>2. ~(Everything < y)
      BY <1>4, <1>5, <3>1 DEF Everything
    <3>3. QED BY <3>2 DEF Least
  <2>6. PayloadsOf(ReadEvents(s, 0, Everything)) = [i \in 1..y |-> log[s][b + i].payload]
    <3>1. Everything \in Nat
      BY DEF Everything
    <3>2. QED BY <1>1, <1>2, <1>4, <2>1, <2>5, <3>1, KurrentPayloads
  <2>7. PayloadsOf(streams[s]) = [i \in 1..y |-> streams[s][i].payload]
    BY <1>4 DEF PayloadsOf
  <2>8. \A i \in 1..y : streams[s][i].payload = log[s][b + i].payload
    BY <1>3, <1>4 DEF ShowsFrom
  <2>9. QED BY <1>6, <2>4, <2>6, <2>7, <2>8
<1>9. QED BY <1>7, <1>8

\* As long as the store holds no more events than LoadState asks for (math.MaxInt32), the
\* in-memory store stands in for KurrentDB, whatever callers, maintainers and other
\* programs do: what the tests of the core see of a stream is what KurrentDB shows.
THEOREM MemoryStandsIn == ComparedSpec => [](commits <= Everything => StandsIn)
<1>1. KInv /\ NInv /\ CInv => (commits <= Everything => StandsIn)
  <2> SUFFICES ASSUME KInv, NInv, CInv, commits <= Everything PROVE StandsIn
    OBVIOUS
  <2>1. Upkept
    BY DEF NInv
  <2>2. \A s \in Streams : touched[s] = 0 /\ s \notin apart => SameStream(s)
    BY <2>1, UntouchedSame
  <2>3. QED BY <2>1, <2>2, SettledSame DEF StandsIn, SameStream
<1>2. QED BY <1>1, ComparedInductive, PTL
=============================================================================

------------------------ MODULE PartitioningProofs ------------------------
(***************************************************************************)
(* WithPartitioning handles the events of one caller and key in their      *)
(* order, each once.  The invariant says where every event is that a       *)
(* channel has accepted, and that the events of one caller in a channel    *)
(* are in the order of their calls, after all that were taken out of it.   *)
(***************************************************************************)
EXTENDS Partitioning, TLAPS

CallsOwn ==
    \A c \in Callers : ~Calling(c, "none") =>
        call[c].work.caller = c /\ call[c].work.number = number[c]

\* A call that has not been accepted is later than all that have been.
CallsGrow ==
    \A w \in accepted :
        /\ w.number <= number[w.caller]
        /\ Calling(w.caller, "send") => w.number < number[w.caller]

Queued(p) == {channel[p][i] : i \in 1..Len(channel[p])}

\* What was accepted is done, being handled or in its channel, and nothing else is.
Located ==
    /\ \A w \in accepted :
          w \in Done \/ w = working[ChannelOf(w)] \/ w \in Queued(ChannelOf(w))
    /\ \A p \in Partitions : \A w \in Queued(p) : w \in accepted /\ ChannelOf(w) = p
    /\ \A p \in Partitions : working[p] # None =>
          working[p] \in accepted /\ ChannelOf(working[p]) = p /\ working[p] \notin Done
    /\ Done \subseteq accepted

InOrder ==
    /\ \A p \in Partitions : \A i, j \in 1..Len(channel[p]) :
          i < j /\ channel[p][i].caller = channel[p][j].caller =>
             channel[p][i].number < channel[p][j].number
    /\ \A w \in Begun : \A v \in Queued(ChannelOf(w)) :
          w.caller = v.caller => w.number < v.number

\* KeyOrder, for all the keys of a partition.
PartitionOrder ==
    \A v \in accepted, w \in Begun :
        /\ v.caller = w.caller /\ ChannelOf(v) = ChannelOf(w) /\ v.number < w.number
        => v \in Done

PartitioningInv ==
    TypeOK /\ CallsOwn /\ CallsGrow /\ Located /\ InOrder /\ PartitionOrder
    /\ AnswerIsOfHandler /\ HandledOnce

\* What TypeOK says of single values.
LEMMA Typed ==
    ASSUME TypeOK
    PROVE  /\ \A w \in accepted : w \in Works /\ w.number \in Nat /\ w.caller \in Callers
                                  /\ ChannelOf(w) \in Partitions
           /\ \A p \in Partitions :
                 /\ channel[p] \in Seq(Works) /\ Len(channel[p]) \in Nat
                 /\ \A i \in 1..Len(channel[p]) : channel[p][i] \in Works
                 /\ working[p] \in Works \union {None}
           /\ \A c \in Callers : ~Calling(c, "none") =>
                 /\ call[c] \in [at : {"send", "wait"}, work : Works]
                 /\ call[c].work \in Works /\ ChannelOf(call[c].work) \in Partitions
           /\ None \notin Works /\ NoCall.at = "none"
<1>1. \A w \in Works : w.number \in Nat /\ w.caller \in Callers /\ ChannelOf(w) \in Partitions
  BY PartitioningAssumption DEF Works, ChannelOf, Partitions
<1>2. \A w \in accepted : w \in Works
  BY DEF TypeOK
<1>3. \A p \in Partitions :
         /\ channel[p] \in Seq(Works) /\ Len(channel[p]) \in Nat
         /\ \A i \in 1..Len(channel[p]) : channel[p][i] \in Works
         /\ working[p] \in Works \union {None}
  BY DEF TypeOK
<1>4. NoCall.at = "none"
  BY DEF NoCall
<1>5. \A c \in Callers : ~Calling(c, "none") =>
         call[c] \in [at : {"send", "wait"}, work : Works] /\ call[c].work \in Works
  BY <1>4 DEF TypeOK, Calling
<1>6. QED BY <1>1, <1>2, <1>3, <1>4, <1>5, PartitioningAssumption

LEMMA InitHolds == Init => PartitioningInv
<1> SUFFICES ASSUME Init PROVE PartitioningInv
  OBVIOUS
<1>1. Done = {} /\ accepted = {} /\ answers = {} /\ ended = {}
  BY DEF Init, Done
<1>2. \A p \in Partitions : Queued(p) = {} /\ working[p] = None /\ channel[p] = << >>
  BY DEF Init, Queued
<1>3. Begun = {}
  BY <1>1, <1>2 DEF Begun
<1>4. TypeOK
  <2>1. \A c \in Callers : MaxCalls[c] \in Nat
    BY PartitioningAssumption
  <2>0. << >> \in Seq(Works) /\ Len(<< >>) = 0
    OBVIOUS
  <2>2. /\ channel \in [Partitions -> Seq(Works)]
        /\ \A p \in Partitions : Len(channel[p]) <= Capacity
    BY <2>0, PartitioningAssumption DEF Init
  <2>3. number \in [Callers -> Nat] /\ \A c \in Callers : number[c] <= MaxCalls[c]
    BY <2>1 DEF Init
  <2>4. QED BY <2>2, <2>3 DEF Init, TypeOK
<1>5. CallsOwn
  BY DEF Init, CallsOwn, Calling, NoCall
<1>6. QED
  BY <1>1, <1>2, <1>3, <1>4, <1>5
     DEF PartitioningInv, CallsGrow, Located, InOrder, PartitionOrder, AnswerIsOfHandler,
         HandledOnce

\* Steps that move no work and answer none: of calls, contexts and channels.
LEMMA WorkStays ==
    ASSUME PartitioningInv, TypeOK', CallsOwn', CallsGrow', AnswerIsOfHandler',
           UNCHANGED <<channel, working, accepted, ended>>
    PROVE  PartitioningInv'
<1>1. Done' = Done /\ Begun' = Begun
  BY DEF Done, Begun
<1>2. Located' /\ InOrder' /\ PartitionOrder' /\ HandledOnce'
  BY <1>1 DEF PartitioningInv, Located, InOrder, PartitionOrder, HandledOnce, Queued
<1>3. QED BY <1>2 DEF PartitioningInv

LEMMA HandleEventPreserves ==
    ASSUME PartitioningInv, NEW c \in Callers, NEW k \in Keys, HandleEvent(c, k)
    PROVE  PartitioningInv'
<1> USE DEF PartitioningInv
<1>0. PICK w0 : w0 = [caller |-> c, number |-> number[c] + 1, key |-> k]
  OBVIOUS
<1>1. /\ number \in [Callers -> Nat] /\ number[c] < MaxCalls[c] /\ MaxCalls[c] \in Nat
      /\ number' = [number EXCEPT ![c] = number[c] + 1]
      /\ call' = [call EXCEPT ![c] = [at |-> "send", work |-> w0]]
      /\ workersOf' \in Callers \union {None}
      /\ UNCHANGED <<ctxDone, open, channel, working, answers, accepted, ended, panicked>>
  BY <1>0, PartitioningAssumption DEF HandleEvent, TypeOK
<1>2. w0 \in Works /\ w0.caller = c /\ w0.number = number[c] + 1
  BY <1>0, <1>1 DEF Works
<1>3. TypeOK'
  BY <1>1, <1>2 DEF TypeOK
<1>4. CallsOwn'
  BY <1>1, <1>2 DEF CallsOwn, Calling, TypeOK
<1>5. CallsGrow'
  BY <1>1, Typed DEF CallsGrow, Calling, TypeOK
<1>6. AnswerIsOfHandler'
  BY <1>1 DEF AnswerIsOfHandler
<1>7. QED BY <1>1, <1>3, <1>4, <1>5, <1>6, WorkStays

\* A call that returns, with an error or with the answer of its handler.
LEMMA ReturnPreserves ==
    ASSUME PartitioningInv, NEW c \in Callers, NEW a \in {"ok", "error"},
           ~Calling(c, "none"), Return(c, a),
           a = "ok" => Answer(call[c].work, a) \in ended
    PROVE  PartitioningInv'
<1> USE DEF PartitioningInv
<1>1. /\ answers' = answers \union {Answer(call[c].work, a)}
      /\ call' = [call EXCEPT ![c] = NoCall] /\ call[c].work \in Works
      /\ UNCHANGED <<workersOf, ctxDone, open, channel, working, number, accepted, ended,
                     panicked>>
  BY Typed DEF Return
<1>2. Answer(call[c].work, a) \in Replies /\ Answer(call[c].work, a).answer = a
  BY <1>1 DEF Answer, Replies
<1>3. TypeOK'
  BY <1>1, <1>2 DEF TypeOK
<1>4. CallsOwn' /\ CallsGrow'
  BY <1>1, Typed DEF CallsOwn, CallsGrow, Calling, TypeOK
<1>5. AnswerIsOfHandler'
  BY <1>1, <1>2 DEF AnswerIsOfHandler
<1>6. QED BY <1>1, <1>3, <1>4, <1>5, WorkStays

LEMMA AnsweredPreserves ==
    ASSUME PartitioningInv, NEW c \in Callers, Answered(c) PROVE PartitioningInv'
<1>1. PICK r \in ended : r.work = call[c].work /\ Return(c, r.answer)
  BY DEF Answered, AnswersOf
<1>2. r \in Replies
  BY DEF PartitioningInv, TypeOK
<1>3. r.answer \in {"ok", "error"} /\ Answer(call[c].work, r.answer) = r
  BY <1>1, <1>2 DEF Answer, Replies
<1>4. ~Calling(c, "none")
  BY DEF Answered, Calling
<1>5. QED BY <1>1, <1>3, <1>4, ReturnPreserves

LEMMA GivenUpPreserves ==
    ASSUME PartitioningInv, NEW c \in Callers, SendRefused(c) \/ Abandoned(c)
    PROVE  PartitioningInv'
<1>1. ~Calling(c, "none") /\ Return(c, "error")
  BY DEF SendRefused, Abandoned, Calling
<1>2. QED BY <1>1, ReturnPreserves

LEMMA EndingPreserves ==
    ASSUME PartitioningInv,
           \/ CloseChannel
           \/ \E c \in Callers : SendPanics(c) \/ CancelContext(c)
    PROVE  PartitioningInv'
<1>1. /\ UNCHANGED <<workersOf, channel, working, number, call, answers, accepted, ended>>
      /\ ctxDone' \in [Callers -> BOOLEAN] /\ open' \subseteq open /\ panicked' \in BOOLEAN
  BY DEF PartitioningInv, TypeOK, CloseChannel, SendPanics, CancelContext
<1>2. TypeOK'
  BY <1>1 DEF PartitioningInv, TypeOK
<1>3. CallsOwn' /\ CallsGrow' /\ AnswerIsOfHandler'
  BY <1>1 DEF PartitioningInv, CallsOwn, CallsGrow, Calling, AnswerIsOfHandler
<1>4. QED BY <1>1, <1>2, <1>3, WorkStays

LEMMA SendPreserves ==
    ASSUME PartitioningInv, NEW c \in Callers, Send(c) PROVE PartitioningInv'
<1> USE DEF PartitioningInv
<1>0. PICK w, p : w = call[c].work /\ p = ChannelOf(w)
  OBVIOUS
<1>1. /\ HasRoom(p) /\ Calling(c, "send")
      /\ channel' = [channel EXCEPT ![p] = Append(channel[p], w)]
      /\ accepted' = accepted \union {w}
      /\ call' = [call EXCEPT ![c].at = "wait"]
      /\ UNCHANGED <<workersOf, ctxDone, open, working, number, answers, ended, panicked>>
  BY <1>0 DEF Send
<1>2. /\ w \in Works /\ p \in Partitions /\ channel[p] \in Seq(Works)
      /\ call[c] \in [at : {"send", "wait"}, work : Works]
      /\ w.caller = c /\ w.number = number[c]
  BY <1>0, <1>1, Typed DEF CallsOwn, Calling
<1>3. /\ Append(channel[p], w) \in Seq(Works)
      /\ Len(Append(channel[p], w)) = Len(channel[p]) + 1 /\ Len(channel[p]) \in Nat
      /\ Append(channel[p], w)[Len(channel[p]) + 1] = w
      /\ \A i \in 1..Len(channel[p]) : Append(channel[p], w)[i] = channel[p][i]
  BY <1>2
<1>4. call'[c] = [at |-> "wait", work |-> w] /\ \A d \in Callers \ {c} : call'[d] = call[d]
  BY <1>0, <1>1, <1>2 DEF TypeOK
<1>5. TypeOK'
  <2>1. call' \in [Callers -> {NoCall} \union [at : {"send", "wait"}, work : Works]]
    BY <1>1, <1>2, <1>4 DEF TypeOK
  <2>2. /\ channel' \in [Partitions -> Seq(Works)]
        /\ \A q \in Partitions : Len(channel'[q]) <= Capacity
    BY <1>1, <1>2, <1>3, PartitioningAssumption DEF HasRoom, TypeOK
  <2>3. QED BY <1>1, <1>2, <2>1, <2>2 DEF TypeOK
<1>6. CallsOwn'
  BY <1>1, <1>2, <1>4 DEF CallsOwn, Calling
<1>7. \A v \in accepted : v.caller = c => v.number < number[c]
  BY <1>1 DEF CallsGrow
<1>8. CallsGrow'
  <2>1. \A d \in Callers : Calling(d, "send")' => Calling(d, "send")
    BY <1>1, <1>4 DEF Calling
  <2>2. ~Calling(c, "send")'
    BY <1>4 DEF Calling
  <2>3. w.number <= number[c]
    BY <1>2 DEF TypeOK
  <2>4. QED BY <1>1, <1>2, <2>1, <2>2, <2>3, Typed DEF CallsGrow
<1>9. Done' = Done /\ Begun' = Begun
  BY <1>1 DEF Done, Begun
<1>10. Begun \subseteq accepted
  BY DEF Begun, Located, Done
<1>11. /\ Queued(p)' = Queued(p) \union {w}
       /\ \A q \in Partitions \ {p} : channel'[q] = channel[q] /\ Queued(q)' = Queued(q)
  <2>1. \A q \in Partitions \ {p} : channel'[q] = channel[q]
    BY <1>1
  <2>2. channel'[p] = Append(channel[p], w)
    BY <1>1, <1>2 DEF TypeOK
  <2>3. \A x : x \in Queued(p)' <=> x \in Queued(p) \union {w}
    BY <1>3, <2>2 DEF Queued
  <2>4. QED BY <2>1, <2>3 DEF Queued
<1>12. Located'
  BY <1>0, <1>1, <1>2, <1>9, <1>11, Typed DEF Located
<1>13. InOrder'
  <2>1. ASSUME NEW q \in Partitions, NEW i \in 1..Len(channel'[q]),
               NEW j \in 1..Len(channel'[q]), i < j,
               channel'[q][i].caller = channel'[q][j].caller
        PROVE  channel'[q][i].number < channel'[q][j].number
    <3>1. CASE q # p
      BY <1>11, <2>1, <3>1 DEF InOrder
    <3>2. CASE q = p
      <4>1. /\ channel'[p] = Append(channel[p], w)
            /\ i \in 1..Len(channel[p]) /\ channel'[p][i] = channel[p][i]
        BY <1>1, <1>2, <1>3, <2>1, <3>2 DEF TypeOK
      <4>2. channel[p][i] \in accepted
        BY <1>2, <4>1 DEF Located, Queued
      <4>3. CASE j \in 1..Len(channel[p])
        BY <1>3, <2>1, <3>2, <4>1, <4>3 DEF InOrder
      <4>4. CASE j = Len(channel[p]) + 1
        BY <1>2, <1>3, <1>7, <2>1, <3>2, <4>1, <4>2, <4>4
      <4>5. QED BY <1>3, <2>1, <3>2, <4>1, <4>3, <4>4
    <3>3. QED BY <3>1, <3>2
  <2>2. ASSUME NEW b \in Begun, NEW v \in Queued(ChannelOf(b))', b.caller = v.caller
        PROVE  b.number < v.number
    <3>1. b \in accepted /\ ChannelOf(b) \in Partitions
      BY <1>10, Typed
    <3>2. CASE v \in Queued(ChannelOf(b))
      BY <2>2, <3>2 DEF InOrder
    <3>3. CASE v = w
      BY <1>2, <1>7, <2>2, <3>1, <3>3
    <3>4. ChannelOf(b)' = ChannelOf(b)
      BY DEF ChannelOf
    <3>5. v \in Queued(ChannelOf(b)) \/ v = w
      BY <1>11, <2>2, <3>1, <3>4
    <3>6. QED BY <3>2, <3>3, <3>5
  <2>3. QED BY <1>9, <2>1, <2>2 DEF InOrder
<1>14. PartitionOrder'
  BY <1>1, <1>2, <1>7, <1>9, <1>10, Typed DEF PartitionOrder, TypeOK
<1>15. AnswerIsOfHandler' /\ HandledOnce'
  BY <1>1, <1>9 DEF AnswerIsOfHandler, HandledOnce
<1>16. QED BY <1>5, <1>6, <1>8, <1>12, <1>13, <1>14, <1>15

\* What a worker takes is the earliest of its caller in the channel.
LEMMA TakeWorkPreserves ==
    ASSUME PartitioningInv, NEW p \in Partitions, TakeWork(p) PROVE PartitioningInv'
<1> USE DEF PartitioningInv
<1>0. PICK w : w = Head(channel[p])
  OBVIOUS
<1>1. /\ working[p] = None /\ channel[p] # << >>
      /\ working' = [working EXCEPT ![p] = w]
      /\ channel' = [channel EXCEPT ![p] = Tail(channel[p])]
      /\ UNCHANGED <<workersOf, ctxDone, open, number, call, answers, accepted, ended,
                     panicked>>
  BY <1>0 DEF TakeWork, HasWork, AfterTake
<1>2. /\ channel[p] \in Seq(Works) /\ Len(channel[p]) \in Nat \ {0} /\ w = channel[p][1]
      /\ Tail(channel[p]) \in Seq(Works) /\ Len(Tail(channel[p])) = Len(channel[p]) - 1
      /\ \A i \in 1..Len(Tail(channel[p])) : Tail(channel[p])[i] = channel[p][i + 1]
  <2>1. channel[p] \in Seq(Works) /\ channel[p] # << >>
    BY <1>1 DEF TypeOK
  <2>2. Len(channel[p]) \in Nat \ {0} /\ w = channel[p][1]
    BY <1>0, <2>1
  <2>3. QED BY <2>1, <2>2
<1>3. /\ channel'[p] = Tail(channel[p]) /\ working'[p] = w
      /\ \A q \in Partitions \ {p} : channel'[q] = channel[q] /\ working'[q] = working[q]
  BY <1>1 DEF TypeOK
<1>4. w \in Queued(p) /\ w \in accepted /\ w \in Works /\ ChannelOf(w) = p /\ w # None
  <2>1. w \in Queued(p)
    BY <1>2 DEF Queued
  <2>2. QED BY <2>1, Typed DEF Located
<1>5. TypeOK'
  <2>1. /\ channel' \in [Partitions -> Seq(Works)]
        /\ working' \in [Partitions -> Works \union {None}]
    BY <1>1, <1>2, <1>4 DEF TypeOK
  <2>2. ASSUME NEW q \in Partitions PROVE Len(channel'[q]) <= Capacity
    <3>1. Len(channel[q]) <= Capacity /\ Capacity \in Nat
      BY PartitioningAssumption DEF TypeOK
    <3>2. Len(channel'[p]) = Len(channel[p]) - 1 /\ Len(channel[p]) \in Nat
      BY <1>2, <1>3
    <3>3. CASE q = p
      <4>1. Len(channel'[q]) = Len(channel[q]) - 1 /\ Len(channel[q]) \in Nat
        BY <3>2, <3>3
      <4>2. QED BY ONLY <3>1, <4>1
    <3>4. CASE q # p
      BY <1>3, <3>1, <3>4
    <3>5. QED BY <3>3, <3>4
  <2>3. QED BY <1>1, <2>1, <2>2 DEF TypeOK
<1>6. CallsOwn' /\ CallsGrow' /\ AnswerIsOfHandler'
  BY <1>1 DEF CallsOwn, CallsGrow, Calling, AnswerIsOfHandler
<1>7. Done' = Done /\ Begun' = Begun \union {w}
  <2>1. Done' = Done
    BY <1>1 DEF Done
  <2>2. {working'[q] : q \in Partitions} \ {None} =
           ({working[q] : q \in Partitions} \ {None}) \union {w}
    BY <1>1, <1>3, <1>4
  <2>3. QED BY <2>1, <2>2 DEF Begun, Done
<1>8. /\ Queued(p) = Queued(p)' \union {w}
      /\ \A q \in Partitions \ {p} : Queued(q)' = Queued(q)
      /\ \A v \in Queued(p)' : v.caller = w.caller => w.number < v.number
  <2>1. ASSUME NEW i \in 1..Len(channel[p]) PROVE channel[p][i] \in Queued(p)' \union {w}
    <3>1. CASE i = 1
      BY <1>2, <3>1
    <3>2. CASE i # 1
      <4>1. i - 1 \in 1..Len(channel'[p]) /\ channel'[p][i - 1] = channel[p][i]
        BY <1>2, <1>3, <3>2
      <4>2. QED BY <4>1 DEF Queued
    <3>3. QED BY <3>1, <3>2
  <2>2. ASSUME NEW i \in 1..Len(channel'[p])
        PROVE  /\ channel'[p][i] \in Queued(p)
               /\ channel'[p][i].caller = w.caller => w.number < channel'[p][i].number
    <3>1. /\ i + 1 \in 1..Len(channel[p]) /\ 1 \in 1..Len(channel[p]) /\ 1 < i + 1
          /\ channel'[p][i] = channel[p][i + 1]
      BY <1>2, <1>3
    <3>2. channel'[p][i] \in Queued(p)
      BY <3>1 DEF Queued
    <3>3. channel[p][1].caller = channel[p][i + 1].caller =>
             channel[p][1].number < channel[p][i + 1].number
      BY <3>1 DEF InOrder
    <3>4. w = channel[p][1] /\ channel'[p][i] = channel[p][i + 1]
      BY <1>2, <3>1
    <3>5. QED BY ONLY <3>2, <3>3, <3>4
  <2>3. \A v \in Queued(p) : v \in Queued(p)' \union {w}
    BY ONLY <2>1 DEF Queued
  <2>4. \A v \in Queued(p)' :
           v \in Queued(p) /\ (v.caller = w.caller => w.number < v.number)
    BY ONLY <2>2 DEF Queued
  <2>5. \A q \in Partitions \ {p} : Queued(q)' = Queued(q)
    BY <1>3 DEF Queued
  <2>6. QED BY ONLY <1>4, <2>3, <2>4, <2>5
<1>9. w \notin Done
  <2>1. w.number \in Nat
    BY <1>4, Typed
  <2>2. w \notin Begun
    BY <1>4, <2>1 DEF InOrder
  <2>3. QED BY <2>2 DEF Begun, Done
<1>10. Located'
  <2>1. ASSUME NEW v \in accepted
        PROVE  v \in Done \/ v = working'[ChannelOf(v)] \/ v \in Queued(ChannelOf(v))'
    <3>1. ChannelOf(v) \in Partitions /\ v # None
      BY Typed
    <3>2. CASE ChannelOf(v) # p
      BY <1>3, <1>8, <3>1, <3>2 DEF Located
    <3>3. CASE ChannelOf(v) = p
      BY <1>1, <1>3, <1>8, <3>1, <3>3 DEF Located
    <3>4. QED BY <3>2, <3>3
  <2>2. ASSUME NEW q \in Partitions, NEW v \in Queued(q)'
        PROVE  v \in accepted /\ ChannelOf(v) = q
    BY <1>8 DEF Located
  <2>3. ASSUME NEW q \in Partitions, working'[q] # None
        PROVE  /\ working'[q] \in accepted /\ ChannelOf(working'[q]) = q
               /\ working'[q] \notin Done
    BY <1>3, <1>4, <1>9, <2>3 DEF Located
  <2>4. \A v : ChannelOf(v)' = ChannelOf(v)
    BY DEF ChannelOf
  <2>5. \A v \in accepted : Queued(ChannelOf(v))' = {channel'[ChannelOf(v)][i] :
                                                 i \in 1..Len(channel'[ChannelOf(v)])}
    BY <2>4 DEF Queued
  <2>6. QED BY <1>1, <1>7, <2>1, <2>2, <2>3, <2>4 DEF Located
<1>11. InOrder'
  <2>1. ASSUME NEW q \in Partitions, NEW i \in 1..Len(channel'[q]),
               NEW j \in 1..Len(channel'[q]), i < j,
               channel'[q][i].caller = channel'[q][j].caller
        PROVE  channel'[q][i].number < channel'[q][j].number
    <3>1. CASE q # p
      BY <1>3, <2>1, <3>1 DEF InOrder
    <3>2. CASE q = p
      <4>1. /\ i + 1 \in 1..Len(channel[p]) /\ j + 1 \in 1..Len(channel[p]) /\ i + 1 < j + 1
            /\ channel'[p][i] = channel[p][i + 1] /\ channel'[p][j] = channel[p][j + 1]
        <5>1. i \in 1..Len(channel'[p]) /\ j \in 1..Len(channel'[p]) /\ i < j
          BY <2>1, <3>2
        <5>2. QED BY <1>2, <1>3, <5>1
      <4>2. QED BY <2>1, <3>2, <4>1 DEF InOrder
    <3>3. QED BY <3>1, <3>2
  <2>2. ASSUME NEW b \in Begun', NEW v \in Queued(ChannelOf(b))', b.caller = v.caller
        PROVE  b.number < v.number
    <3>1. ChannelOf(b)' = ChannelOf(b)
      BY DEF ChannelOf
    <3>2. CASE b = w
      BY <1>4, <1>8, <2>2, <3>1, <3>2
    <3>3. CASE b \in Begun
      <4>1. ChannelOf(b) \in Partitions
        BY <3>3, Typed DEF Begun, Located, Done
      <4>2. v \in Queued(ChannelOf(b))
        BY <1>8, <3>1, <4>1
      <4>3. QED BY <2>2, <3>3, <4>2 DEF InOrder
    <3>4. QED BY <1>7, <3>2, <3>3
  <2>3. QED BY <2>1, <2>2 DEF InOrder
<1>12. PartitionOrder'
  <2>1. ASSUME NEW v \in accepted, v.caller = w.caller, ChannelOf(v) = p,
               v.number < w.number
        PROVE  v \in Done
    <3>1. v # None /\ v.number \in Nat /\ w.number \in Nat
      BY <1>4, Typed
    <3>2. v \notin Queued(p)
      BY <1>8, <2>1, <3>1
    <3>3. QED BY <1>1, <2>1, <3>1, <3>2 DEF Located
  <2>2. QED BY <1>1, <1>4, <1>7, <2>1 DEF PartitionOrder, ChannelOf
<1>13. HandledOnce'
  BY <1>1, <1>3, <1>7, <1>9 DEF HandledOnce
<1>14. QED BY <1>5, <1>6, <1>10, <1>11, <1>12, <1>13

LEMMA FinishWorkPreserves ==
    ASSUME PartitioningInv, NEW p \in Partitions, NEW a \in {"ok", "error"},
           FinishWork(p, a)
    PROVE  PartitioningInv'
<1> USE DEF PartitioningInv
<1>0. PICK w, r : w = working[p] /\ r = Answer(w, a)
  OBVIOUS
<1>1. /\ w # None
      /\ ended' = ended \union {r} /\ working' = [working EXCEPT ![p] = None]
      /\ UNCHANGED <<workersOf, ctxDone, open, channel, number, call, answers, accepted,
                     panicked>>
  BY <1>0 DEF FinishWork
<1>2. /\ w \in Works /\ w \in accepted /\ ChannelOf(w) = p /\ w \notin Done
      /\ r \in Replies /\ r.work = w
  <2>1. w \in Works /\ w \in accepted /\ ChannelOf(w) = p /\ w \notin Done
    BY <1>0, <1>1, Typed DEF Located
  <2>2. QED BY <1>0, <2>1 DEF Answer, Replies
<1>3. /\ working'[p] = None
      /\ \A q \in Partitions \ {p} : working'[q] = working[q] /\ working[q] # w
  <2>1. working'[p] = None /\ \A q \in Partitions \ {p} : working'[q] = working[q]
    BY <1>1 DEF TypeOK
  <2>2. QED BY <1>1, <1>2, <2>1 DEF Located
<1>4. TypeOK'
  BY <1>1, <1>2 DEF TypeOK
<1>5. CallsOwn' /\ CallsGrow' /\ AnswerIsOfHandler'
  BY <1>1 DEF CallsOwn, CallsGrow, Calling, AnswerIsOfHandler
<1>6. Done' = Done \union {w} /\ Begun' = Begun
  <2>1. Done' = Done \union {w}
    BY <1>1, <1>2 DEF Done
  <2>2. {working'[q] : q \in Partitions} \ {None} =
           ({working[q] : q \in Partitions} \ {None}) \ {w}
    BY <1>0, <1>3
  <2>3. w \in {working[q] : q \in Partitions} \ {None}
    BY <1>0, <1>1
  <2>4. QED BY <2>1, <2>2, <2>3 DEF Begun, Done
<1>7. \A v : ChannelOf(v)' = ChannelOf(v)
  BY DEF ChannelOf
<1>8. \A q \in Partitions : Queued(q)' = Queued(q)
  BY <1>1 DEF Queued
<1>9. Located'
  <2>1. ASSUME NEW v \in accepted
        PROVE  v \in Done' \/ v = working'[ChannelOf(v)] \/ v \in Queued(ChannelOf(v))
    <3>1. ChannelOf(v) \in Partitions
      BY Typed
    <3>2. CASE ChannelOf(v) # p
      BY <1>3, <1>6, <3>1, <3>2 DEF Located
    <3>3. CASE ChannelOf(v) = p
      BY <1>0, <1>6, <3>3 DEF Located
    <3>4. QED BY <3>2, <3>3
  <2>2. ASSUME NEW q \in Partitions, working'[q] # None
        PROVE  /\ working'[q] \in accepted /\ ChannelOf(working'[q]) = q
               /\ working'[q] \notin Done'
    BY <1>3, <1>6, <2>2 DEF Located
  <2>3. \A v \in accepted : Queued(ChannelOf(v))' = Queued(ChannelOf(v))
    BY <1>7, <1>8, Typed
  <2>4. Done' \subseteq accepted'
    BY <1>1, <1>2, <1>6 DEF Located
  <2>5. QED BY <1>1, <1>7, <1>8, <2>1, <2>2, <2>3, <2>4 DEF Located
<1>10. Begun \subseteq accepted
  BY DEF Begun, Located, Done
<1>11. InOrder'
  <2>1. \A b \in Begun : Queued(ChannelOf(b))' = Queued(ChannelOf(b))
    BY <1>7, <1>8, <1>10, Typed
  <2>2. QED BY <1>1, <1>6, <2>1 DEF InOrder
<1>12. PartitionOrder'
  BY <1>1, <1>6 DEF PartitionOrder, ChannelOf
<1>13. HandledOnce'
  <2>1. \A x \in ended : x.work # w
    BY <1>2 DEF Done
  <2>2. \A x, y \in ended' : x.work = y.work => x = y
    BY <1>1, <1>2, <2>1 DEF HandledOnce
  <2>3. None \notin Done'
    BY <1>1, <1>2, <1>6, Typed DEF Located
  <2>4. \A q \in Partitions : working'[q] \notin Done'
    BY <1>3, <1>6, <2>3 DEF HandledOnce
  <2>5. QED BY <2>2, <2>4 DEF HandledOnce
<1>14. QED BY <1>4, <1>5, <1>9, <1>11, <1>12, <1>13

LEMMA NextPreserves == PartitioningInv /\ [Next]_vars => PartitioningInv'
<1> SUFFICES ASSUME PartitioningInv, [Next]_vars PROVE PartitioningInv'
  OBVIOUS
<1>1. ASSUME NEW c \in Callers, NEW k \in Keys, HandleEvent(c, k) PROVE PartitioningInv'
  BY <1>1, HandleEventPreserves
<1>2. ASSUME NEW c \in Callers, Send(c) PROVE PartitioningInv'
  BY <1>2, SendPreserves
<1>3. ASSUME NEW c \in Callers, Answered(c) PROVE PartitioningInv'
  BY <1>3, AnsweredPreserves
<1>4. ASSUME NEW c \in Callers, SendRefused(c) \/ Abandoned(c) PROVE PartitioningInv'
  BY <1>4, GivenUpPreserves
<1>5. ASSUME CloseChannel \/ \E c \in Callers : SendPanics(c) \/ CancelContext(c)
      PROVE  PartitioningInv'
  BY <1>5, EndingPreserves
<1>6. ASSUME NEW p \in Partitions, TakeWork(p) PROVE PartitioningInv'
  BY <1>6, TakeWorkPreserves
<1>7. ASSUME NEW p \in Partitions, NEW a \in {"ok", "error"}, FinishWork(p, a)
      PROVE  PartitioningInv'
  BY <1>7, FinishWorkPreserves
<1>8. CASE UNCHANGED vars
  <2>1. UNCHANGED <<channel, working, accepted, ended>>
    BY <1>8 DEF vars
  <2>2. TypeOK'
    BY <1>8 DEF vars, PartitioningInv, TypeOK
  <2>3. CallsOwn' /\ CallsGrow' /\ AnswerIsOfHandler'
    BY <1>8 DEF vars, PartitioningInv, CallsOwn, CallsGrow, Calling, AnswerIsOfHandler
  <2>4. QED BY <2>1, <2>2, <2>3, WorkStays
<1>9. QED
  BY <1>1, <1>2, <1>3, <1>4, <1>5, <1>6, <1>7, <1>8 DEF Next, Sending, Waiting, Working

LEMMA PartitioningInvariant == Spec => []PartitioningInv
<1>1. QED BY InitHolds, NextPreserves, PTL DEF Spec

\* The variables of the middleware keep their types: no channel holds more than
\* its buffer.
THEOREM PartitioningTypeCorrect == Spec => []TypeOK
<1>1. PartitioningInv => TypeOK
  BY DEF PartitioningInv
<1>2. QED BY PartitioningInvariant, <1>1, PTL

\* Events of one caller and key are handled in the order of their calls, whatever
\* the number of callers, keys and partitions, the hash of a key, the buffer of the
\* channels, and whichever contexts end, so that calls are abandoned and channels
\* closed.
THEOREM EventsOfKeyInOrder == Spec => []KeyOrder
<1>1. PartitioningInv => KeyOrder
  BY DEF PartitioningInv, PartitionOrder, KeyOrder, ChannelOf
<1>2. QED BY PartitioningInvariant, <1>1, PTL

\* Nil is returned for an event only if its own handler has returned nil.
THEOREM NilIsOfHandler == Spec => []AnswerIsOfHandler
<1>1. PartitioningInv => AnswerIsOfHandler
  BY DEF PartitioningInv
<1>2. QED BY PartitioningInvariant, <1>1, PTL

\* No event is handled twice, though calls are abandoned and channels closed.
THEOREM NoEventHandledTwice == Spec => []HandledOnce
<1>1. PartitioningInv => HandledOnce
  BY DEF PartitioningInv
<1>2. QED BY PartitioningInvariant, <1>1, PTL
=============================================================================

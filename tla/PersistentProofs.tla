-------------------------- MODULE PersistentProofs --------------------------
(***************************************************************************)
(* The persistent subscription acknowledges only what was handled, and an  *)
(* event comes back after it was handled only when something has happened  *)
(* to its answer or to a run.  Until then an event is in one place: it     *)
(* waits, or one consumer is at it.                                        *)
(***************************************************************************)
EXTENDS Persistent, HandlerProofs

\* Whom the server has delivered an event to is working at it, and nobody else.
DeliveredToOne ==
    /\ \A d \in outstanding : AtWork(d) /\ d.event \notin waiting
    /\ \A d, e \in outstanding : d.event = e.event => d = e
    /\ \A i \in Instances : stage[i] \in {"acquire", "wait"} =>
                               Delivery(i, current[i]) \in outstanding

NothingLeftBehind ==
    (\A i \in Instances : ~cancelled[i]) /\ (\A g \in goroutines : g.awaited)

\* What waits or is being worked at was not handled before.
FirstTime ==
    /\ \A i \in Instances : stage[i] \in {"acquire", "wait"} /\ answer[i] # "ok" =>
                               current[i] \notin handled
    /\ waiting \intersect handled = {}
    /\ repeated = {}

Undisturbed == ~disturbed => DeliveredToOne /\ NothingLeftBehind /\ FirstTime

PersistentInv == HandlerInv /\ TypeOK /\ AckedIsHandled /\ Undisturbed

LEMMA InitHolds == Init => PersistentInv
<1> SUFFICES ASSUME Init PROVE PersistentInv
  OBVIOUS
<1>1. HandlerInv
  BY HandlerInitHolds DEF Init
<1>2. TypeOK
  <2>1. HandlerTypeOK
    BY <1>1 DEF HandlerInv
  <2>2. 0 \in 0..MaxLost /\ 0 \in 0..MaxTimeouts
    BY PersistentAssumption
  <2>3. QED BY <2>1, <2>2 DEF Init, TypeOK
<1>3. AckedIsHandled
  BY DEF Init, AckedIsHandled
<1>4. Undisturbed
  BY DEF Init, HandlerInit, Undisturbed, DeliveredToOne, NothingLeftBehind, FirstTime
<1>5. QED BY <1>1, <1>2, <1>3, <1>4 DEF PersistentInv

LEMMA DeliveryAtWork ==
    ASSUME HandlerInv, NEW i \in Instances, NEW e \in Log, stage[i] # "stopped"
    PROVE  Delivery(i, e) \in Deliveries
<1>1. run[i] \in 1..MaxRuns
  BY HandlerAssumption DEF HandlerInv, Started, HandlerTypeOK
<1>2. QED BY <1>1 DEF Delivery, Deliveries

\* Steps after which something has happened.
LEMMA DisturbedStep ==
    ASSUME PersistentInv, HandlerInv', TypeOK', disturbed',
           handled \subseteq handled', acked' = acked
    PROVE  PersistentInv'
  BY DEF PersistentInv, AckedIsHandled, Undisturbed

LEMMA StartPreserves ==
    ASSUME PersistentInv, NEW i \in Instances, Start(i) PROVE PersistentInv'
<1>1. HandlerInv /\ HandlerInv'
  BY BeginRunKeeps DEF PersistentInv, Start
<1>2. /\ stage[i] = "stopped" /\ stage \in [Instances -> Stages]
      /\ stage' = [stage EXCEPT ![i] = "receive"]
      /\ run' = [run EXCEPT ![i] = NewRun(i)] /\ run \in [Instances -> 0..starts]
      /\ cancelled' = [cancelled EXCEPT ![i] = FALSE]
      /\ cancelled \in [Instances -> BOOLEAN]
      /\ UNCHANGED <<current, answer, goroutines, handled>>
      /\ UNCHANGED <<waiting, outstanding, acked, lost, timeouts, disturbed, repeated>>
  BY <1>1 DEF HandlerInv, HandlerTypeOK, Start, BeginRun, GoTo, serverVars
<1>3. TypeOK'
  BY <1>1, <1>2 DEF PersistentInv, HandlerInv, TypeOK
<1>4. AckedIsHandled'
  BY <1>2 DEF PersistentInv, AckedIsHandled
<1>5. ASSUME ~disturbed' PROVE DeliveredToOne' /\ NothingLeftBehind' /\ FirstTime'
  <2>1. DeliveredToOne /\ NothingLeftBehind /\ FirstTime
    BY <1>2, <1>5 DEF PersistentInv, Undisturbed
  <2>2. \A d \in outstanding : d \in Deliveries /\ d.instance \in Instances
    BY DEF PersistentInv, TypeOK, Deliveries
  <2>3. \A d \in outstanding : AtWork(d)'
    BY <2>1, <2>2, <1>2 DEF DeliveredToOne, AtWork
  <2>4. \A j \in Instances : stage'[j] \in {"acquire", "wait"} =>
           j # i /\ stage[j] = stage'[j] /\ run'[j] = run[j]
    BY <1>2
  <2>5. DeliveredToOne'
    BY <2>1, <2>3, <2>4, <1>2 DEF DeliveredToOne, Delivery
  <2>6. QED BY <2>1, <2>4, <2>5, <1>2 DEF NothingLeftBehind, FirstTime
<1>6. QED BY <1>1, <1>3, <1>4, <1>5 DEF PersistentInv, Undisturbed

LEMMA DisturbingActionsPreserve ==
    ASSUME PersistentInv, NEW i \in Instances, Cancel(i) \/ Crash(i) \/ Dropped(i)
    PROVE  PersistentInv'
<1> USE DEF PersistentInv
<1>0. TypeOK /\ \A d \in outstanding : d.event \in Log
  BY DEF TypeOK, Deliveries
<1>1. CASE Cancel(i)
  <2>1. HandlerInv'
    BY <1>1, CancelRunKeeps DEF Cancel
  <2>2. TypeOK'
    BY <1>1, <2>1 DEF Cancel, TypeOK, HandlerInv
  <2>3. QED BY <1>1, <2>1, <2>2, DisturbedStep DEF Cancel, CancelRun
<1>2. ASSUME Disconnect(i), HandlerInv' PROVE TypeOK' /\ disturbed' /\ acked' = acked
  BY <1>0, <1>2 DEF Disconnect, ConnectionOf, EventsOf, TypeOK, HandlerInv
<1>3. CASE Crash(i)
  <2>1. HandlerInv'
    BY <1>3, DieKeeps DEF Crash
  <2>2. QED BY <1>2, <1>3, <2>1, DisturbedStep DEF Crash, Die
<1>4. CASE Dropped(i)
  <2>1. HandlerInv'
    BY <1>4, GoToKeeps DEF Dropped
  <2>2. QED BY <1>2, <1>4, <2>1, DisturbedStep DEF Dropped
<1>5. QED BY <1>1, <1>3, <1>4

LEMMA ReceiveEventPreserves ==
    ASSUME PersistentInv, NEW i \in Instances, NEW e \in Log, ReceiveEvent(i, e)
    PROVE  PersistentInv'
<1>0. PICK d0 : d0 = Delivery(i, e)
  OBVIOUS
<1>1. HandlerInv /\ HandlerInv'
  BY HandleEventKeeps DEF PersistentInv, ReceiveEvent
<1>2. /\ stage[i] = "receive" /\ stage \in [Instances -> Stages]
      /\ stage' = [stage EXCEPT ![i] = "acquire"]
      /\ current' = [current EXCEPT ![i] = e] /\ current \in [Instances -> Log]
      /\ e \in waiting /\ waiting' = waiting \ {e}
      /\ outstanding' = outstanding \union {d0}
      /\ repeated' = IF e \in handled THEN repeated \union {e} ELSE repeated
      /\ UNCHANGED <<run, cancelled, answer, goroutines, handled>>
      /\ UNCHANGED <<acked, lost, timeouts, disturbed>>
  BY <1>0, <1>1 DEF HandlerInv, HandlerTypeOK, ReceiveEvent, HandleEvent, GoTo
<1>3. d0 \in Deliveries
  BY <1>0, <1>1, <1>2, DeliveryAtWork
<1>4. TypeOK'
  BY <1>1, <1>2, <1>3 DEF PersistentInv, HandlerInv, TypeOK
<1>5. AckedIsHandled'
  BY <1>2 DEF PersistentInv, AckedIsHandled
<1>6. ASSUME ~disturbed' PROVE DeliveredToOne' /\ NothingLeftBehind' /\ FirstTime'
  <2>1. DeliveredToOne /\ NothingLeftBehind /\ FirstTime
    BY <1>2, <1>6 DEF PersistentInv, Undisturbed
  <2>2. \A d \in outstanding : d.instance \in Instances /\ d.event # e /\ d.instance # i
    BY <2>1, <1>2 DEF PersistentInv, TypeOK, Deliveries, DeliveredToOne, AtWork
  <2>3. d0.instance = i /\ d0.event = e /\ d0.run = run[i]
    BY <1>0 DEF Delivery
  <2>4. \A d \in outstanding' : AtWork(d)' /\ d.event \notin waiting'
    <3>1. AtWork(d0)' /\ d0.event \notin waiting'
      BY <1>2, <2>3 DEF AtWork
    <3>2. \A d \in outstanding : AtWork(d)' /\ d.event \notin waiting'
      BY <1>2, <2>1, <2>2 DEF AtWork, DeliveredToOne
    <3>3. QED BY <1>2, <3>1, <3>2
  <2>5. \A d, h \in outstanding' : d.event = h.event => d = h
    BY <1>2, <2>1, <2>2, <2>3 DEF DeliveredToOne
  <2>6. \A j \in Instances : stage'[j] \in {"acquire", "wait"} =>
                               (Delivery(j, current[j]) \in outstanding)'
    <3> SUFFICES ASSUME NEW j \in Instances, stage'[j] \in {"acquire", "wait"}
                 PROVE  (Delivery(j, current[j]) \in outstanding)'
      OBVIOUS
    <3>1. CASE j = i
      BY <3>1, <1>0, <1>2 DEF Delivery
    <3>2. CASE j # i
      BY <3>2, <1>2, <2>1 DEF Delivery, DeliveredToOne
    <3>3. QED BY <3>1, <3>2
  <2>7. DeliveredToOne'
    BY <2>4, <2>5, <2>6 DEF DeliveredToOne
  <2>8. NothingLeftBehind'
    BY <1>2, <2>1 DEF NothingLeftBehind
  <2>9. e \notin handled
    BY <1>2, <2>1 DEF FirstTime
  <2>10. FirstTime'
    BY <1>2, <2>1, <2>9 DEF FirstTime
  <2>11. QED BY <2>7, <2>8, <2>10
<1>7. QED BY <1>1, <1>4, <1>5, <1>6 DEF PersistentInv, Undisturbed

\* Steps of the loop that end with the event they are about.
LEMMA AckSystemEventPreserves ==
    ASSUME PersistentInv, NEW i \in Instances, NEW e \in Log, AckSystemEvent(i, e)
    PROVE  PersistentInv'
<1>1. HandlerInv /\ HandlerInv'
  BY HandlerStutters DEF PersistentInv, AckSystemEvent
<1>2. /\ stage[i] = "receive" /\ e \in waiting /\ e \notin UserEvents
      /\ waiting' = waiting \ {e} /\ timeouts' = timeouts /\ repeated' = repeated
      /\ UNCHANGED <<run, stage, current, cancelled, answer, goroutines, handled>>
  BY DEF AckSystemEvent, handlerVars, UserEvents
<1>3. AckedIsHandled'
  BY <1>2 DEF PersistentInv, AckedIsHandled, AckSystemEvent
<1>4. CASE acked' = acked \union {e} /\ UNCHANGED <<outstanding, lost, disturbed>>
  <2>1. TypeOK'
    BY <1>1, <1>2, <1>4 DEF PersistentInv, HandlerInv, TypeOK
  <2>2. ASSUME ~disturbed' PROVE DeliveredToOne' /\ NothingLeftBehind' /\ FirstTime'
    BY <1>2, <1>4, <2>2 DEF PersistentInv, Undisturbed, DeliveredToOne, AtWork, Delivery,
                            NothingLeftBehind, FirstTime
  <2>3. QED BY <1>1, <1>3, <2>1, <2>2 DEF PersistentInv, Undisturbed
<1>5. CASE /\ lost < MaxLost /\ lost' = lost + 1 /\ disturbed' = TRUE
           /\ outstanding' = outstanding \union {Delivery(i, e)} /\ acked' = acked
  <2>1. Delivery(i, e) \in Deliveries
    BY <1>1, <1>2, DeliveryAtWork
  <2>2. lost' \in 0..MaxLost
    BY <1>5, PersistentAssumption DEF PersistentInv, TypeOK
  <2>3. TypeOK'
    BY <1>1, <1>2, <1>5, <2>1, <2>2 DEF PersistentInv, HandlerInv, TypeOK
  <2>4. QED BY <1>1, <1>2, <1>3, <1>5, <2>3 DEF PersistentInv, Undisturbed
<1>6. QED BY <1>4, <1>5 DEF AckSystemEvent

LEMMA StartHandlerPreserves ==
    ASSUME PersistentInv, NEW i \in Instances, StartHandler(i) PROVE PersistentInv'
<1>1. HandlerInv /\ HandlerInv'
  BY AcquireKeeps DEF PersistentInv, StartHandler
<1>2. /\ stage[i] = "acquire" /\ stage \in [Instances -> Stages]
      /\ stage' = [stage EXCEPT ![i] = "wait"]
      /\ goroutines' = goroutines \union
           {[instance |-> i, run |-> run[i], event |-> current[i], awaited |-> TRUE]}
      /\ UNCHANGED <<run, cancelled, current, answer, handled>>
      /\ UNCHANGED <<waiting, outstanding, acked, lost, timeouts, disturbed, repeated>>
  BY <1>1 DEF HandlerInv, HandlerTypeOK, StartHandler, Acquire, GoTo, serverVars
<1>3. TypeOK'
  BY <1>1, <1>2 DEF PersistentInv, HandlerInv, TypeOK
<1>4. AckedIsHandled'
  BY <1>2 DEF PersistentInv, AckedIsHandled
<1>5. ASSUME ~disturbed' PROVE DeliveredToOne' /\ NothingLeftBehind' /\ FirstTime'
  <2>1. DeliveredToOne /\ NothingLeftBehind /\ FirstTime
    BY <1>2, <1>5 DEF PersistentInv, Undisturbed
  <2>2. \A j \in Instances : stage'[j] \in {"acquire", "wait"} <=>
                               stage[j] \in {"acquire", "wait"}
    BY <1>2
  <2>3. \A d \in outstanding : d.instance \in Instances
    BY DEF PersistentInv, TypeOK, Deliveries
  <2>4. DeliveredToOne'
    BY <1>2, <2>1, <2>2, <2>3 DEF DeliveredToOne, AtWork, Delivery
  <2>5. NothingLeftBehind'
    BY <1>2, <2>1 DEF NothingLeftBehind
  <2>6. FirstTime'
    BY <1>2, <2>1, <2>2 DEF FirstTime
  <2>7. QED BY <2>4, <2>5, <2>6
<1>6. QED BY <1>1, <1>3, <1>4, <1>5 DEF PersistentInv, Undisturbed

LEMMA EndHandlerPreserves ==
    ASSUME PersistentInv, NEW g \in goroutines, EndHandler(g) PROVE PersistentInv'
<1>1. PICK ok \in BOOLEAN : HandlerEnds(g, ok) /\ UNCHANGED serverVars
  BY DEF EndHandler
<1>2. HandlerInv /\ HandlerInv'
  BY <1>1, HandlerEndsKeeps DEF PersistentInv
<1>3. /\ goroutines' = goroutines \ {g}
      /\ handled' = IF ok THEN handled \union {g.event} ELSE handled
      /\ answer' = IF g.awaited
                   THEN [answer EXCEPT ![g.instance] = IF ok THEN "ok" ELSE "error"]
                   ELSE answer
      /\ answer \in [Instances -> {"none", "ok", "error"}]
      /\ UNCHANGED <<run, stage, cancelled, current>>
      /\ UNCHANGED <<waiting, outstanding, acked, lost, timeouts, disturbed, repeated>>
  BY <1>1, <1>2 DEF HandlerInv, HandlerTypeOK, HandlerEnds, serverVars
<1>4. TypeOK'
  BY <1>2, <1>3 DEF PersistentInv, HandlerInv, TypeOK
<1>5. AckedIsHandled'
  BY <1>3 DEF PersistentInv, AckedIsHandled
<1>6. ASSUME ~disturbed' PROVE DeliveredToOne' /\ NothingLeftBehind' /\ FirstTime'
  <2>1. DeliveredToOne /\ NothingLeftBehind /\ FirstTime
    BY <1>3, <1>6 DEF PersistentInv, Undisturbed
  <2>2. DeliveredToOne' /\ NothingLeftBehind'
    BY <1>3, <2>1 DEF DeliveredToOne, AtWork, Delivery, NothingLeftBehind
  <2>3. PICK j \in Instances :
           /\ g.awaited /\ j = g.instance /\ g.event = current[j] /\ stage[j] = "wait"
           /\ answer[j] = "none"
    BY <1>2, <2>1 DEF NothingLeftBehind, HandlerInv, HandlerTypeOK, AwaitedAtWork,
                      OneAnswer, Goroutines
  <2>4. g.event \notin waiting
    BY <2>1, <2>3 DEF DeliveredToOne, Delivery
  <2>5. \A k \in Instances : stage[k] \in {"acquire", "wait"} /\ current[k] = g.event => k = j
    BY <2>1, <2>3 DEF DeliveredToOne, Delivery
  <2>6. ASSUME NEW k \in Instances, stage[k] \in {"acquire", "wait"}, answer'[k] # "ok"
        PROVE  current[k] \notin handled'
    <3>1. CASE k = j
      <4>1. ok = FALSE
        BY <2>3, <2>6, <3>1, <1>3
      <4>2. QED BY <4>1, <2>1, <2>3, <3>1, <1>3 DEF FirstTime
    <3>2. CASE k # j
      <4>1. answer'[k] = answer[k] /\ current[k] # g.event
        BY <2>3, <2>5, <2>6, <3>2, <1>3
      <4>2. QED BY <4>1, <2>1, <2>6, <1>3 DEF FirstTime
    <3>3. QED BY <3>1, <3>2
  <2>7. FirstTime'
    BY <1>3, <2>1, <2>4, <2>6 DEF FirstTime
  <2>8. QED BY <2>2, <2>7
<1>7. QED BY <1>2, <1>4, <1>5, <1>6 DEF PersistentInv, Undisturbed

\* HandleEvent has returned; what it has left behind matters only when its
\* context has ended.
LEMMA ReturnEffect ==
    ASSUME PersistentInv, NEW i \in Instances, NEW ok \in BOOLEAN,
           Returns(i, ok, "receive")
    PROVE  /\ HandlerInv /\ HandlerInv'
           /\ stage[i] \in {"acquire", "wait"} /\ stage' = [stage EXCEPT ![i] = "receive"]
           /\ stage \in [Instances -> Stages]
           /\ answer' = [answer EXCEPT ![i] = "none"]
           /\ answer \in [Instances -> {"none", "ok", "error"}]
           /\ UNCHANGED <<run, cancelled, current, handled>>
           /\ current[i] \in Log /\ Delivery(i, current[i]) \in Deliveries
           /\ ok => current[i] \in handled
           /\ ~disturbed => /\ DeliveredToOne /\ NothingLeftBehind /\ FirstTime
                            /\ goroutines' = goroutines
                            /\ ~ok => current[i] \notin handled
<1>1. HandlerInv /\ HandlerInv'
  BY ReturnsKeeps DEF PersistentInv
<1>2. /\ stage[i] \in {"acquire", "wait"}
      /\ ok => answer[i] = "ok"
      /\ answer[i] = (IF ok THEN "ok" ELSE "error") \/ cancelled[i]
      /\ stage' = [stage EXCEPT ![i] = "receive"]
      /\ answer' = [answer EXCEPT ![i] = "none"]
      /\ goroutines' = (goroutines \ Awaited(i)) \union
                          {[g EXCEPT !.awaited = FALSE] : g \in Awaited(i)}
      /\ UNCHANGED <<run, cancelled, current, handled>>
  BY DEF Returns, MayReturn, AnsweredBy, ContextEnded, GoTo
<1>3. /\ stage \in [Instances -> Stages] /\ current[i] \in Log
      /\ answer \in [Instances -> {"none", "ok", "error"}]
  BY <1>1 DEF HandlerInv, HandlerTypeOK
<1>4. Delivery(i, current[i]) \in Deliveries
  BY <1>1, <1>2, <1>3, DeliveryAtWork
<1>5. ok => current[i] \in handled
  BY <1>1, <1>2 DEF HandlerInv, AnswersTrue
<1>6. ASSUME ~disturbed
      PROVE  /\ DeliveredToOne /\ NothingLeftBehind /\ FirstTime
             /\ goroutines' = goroutines
             /\ ~ok => current[i] \notin handled
  <2>1. DeliveredToOne /\ NothingLeftBehind /\ FirstTime
    BY <1>6 DEF PersistentInv, Undisturbed
  <2>2. answer[i] = (IF ok THEN "ok" ELSE "error")
    BY <1>2, <2>1 DEF NothingLeftBehind
  <2>3. Awaited(i) = {}
    BY <1>1, <2>2 DEF HandlerInv, OneAnswer, Awaited, Running
  <2>4. goroutines' = goroutines
    BY <1>2, <2>3
  <2>5. ~ok => current[i] \notin handled
    BY <1>2, <2>1, <2>2 DEF FirstTime
  <2>6. QED BY <2>1, <2>4, <2>5
<1>7. QED BY <1>1, <1>2, <1>3, <1>4, <1>5, <1>6

LEMMA AnswerPreserves ==
    ASSUME PersistentInv, NEW i \in Instances, Ack(i) \/ Nack(i)
    PROVE  PersistentInv'
<1>0. PICK ok \in BOOLEAN, d \in {Delivery(i, current[i])} :
         /\ Returns(i, ok, "receive")
         /\ (IF ok THEN Acknowledge(d) ELSE GiveBack(d)) \/ AnswerLost
  BY DEF Ack, Nack
<1>1. /\ HandlerInv /\ HandlerInv'
      /\ stage[i] \in {"acquire", "wait"} /\ stage' = [stage EXCEPT ![i] = "receive"]
      /\ stage \in [Instances -> Stages]
      /\ answer' = [answer EXCEPT ![i] = "none"]
      /\ answer \in [Instances -> {"none", "ok", "error"}]
      /\ UNCHANGED <<run, cancelled, current, handled>>
      /\ current[i] \in Log /\ d \in Deliveries
      /\ ok => current[i] \in handled
  BY <1>0, ReturnEffect
<1>2. ~disturbed => /\ DeliveredToOne /\ NothingLeftBehind /\ FirstTime
                    /\ goroutines' = goroutines
                    /\ ~ok => current[i] \notin handled
  BY <1>0, ReturnEffect
<1>3. d = Delivery(i, current[i]) /\ d.instance = i /\ d.event = current[i] /\ d.run = run[i]
  BY <1>0 DEF Delivery
<1>4. TypeOK
  BY DEF PersistentInv
<1>5. CASE AnswerLost
  <2>1. lost' \in 0..MaxLost
    BY <1>4, <1>5, PersistentAssumption DEF AnswerLost, TypeOK
  <2>2. TypeOK'
    BY <1>1, <1>4, <1>5, <2>1 DEF HandlerInv, TypeOK, AnswerLost
  <2>3. QED BY <1>1, <1>5, <2>2, DisturbedStep DEF AnswerLost
<1>6. CASE IF ok THEN Acknowledge(d) ELSE GiveBack(d)
  <2>1. /\ outstanding' = outstanding \ {d}
        /\ waiting' = IF ~ok /\ d \in outstanding THEN waiting \union {d.event} ELSE waiting
        /\ acked' = IF ok /\ d \in outstanding THEN acked \union {d.event} ELSE acked
        /\ UNCHANGED <<lost, timeouts, disturbed, repeated>>
    BY <1>6 DEF Acknowledge, GiveBack
  <2>2. TypeOK'
    BY <1>1, <1>3, <1>4, <2>1 DEF HandlerInv, TypeOK
  <2>3. AckedIsHandled'
    BY <1>1, <1>3, <2>1 DEF PersistentInv, AckedIsHandled
  <2>4. ASSUME ~disturbed' PROVE DeliveredToOne' /\ NothingLeftBehind' /\ FirstTime'
    <3>1. /\ DeliveredToOne /\ NothingLeftBehind /\ FirstTime
          /\ goroutines' = goroutines
          /\ ~ok => current[i] \notin handled
      BY <1>2, <2>1, <2>4
    <3>2. NothingLeftBehind'
      <4>1. cancelled' = cancelled /\ goroutines' = goroutines /\ NothingLeftBehind
        BY <1>1, <3>1
      <4>2. QED BY ONLY <4>1 DEF NothingLeftBehind
    <3>3. d \in outstanding
      BY <1>1, <1>3, <3>1 DEF DeliveredToOne
    <3>4. \A h \in outstanding' : /\ h \in outstanding /\ h.instance \in Instances
                                  /\ h.instance # i /\ h.event # d.event
      <4>1. \A h \in outstanding : h \in Deliveries
        BY <1>4 DEF TypeOK
      <4>2. \A h \in outstanding' : h \in outstanding /\ h.event # d.event
        BY <2>1, <3>1, <3>3 DEF DeliveredToOne
      <4>3. \A h \in outstanding : h.instance = i => h.event = d.event
        BY <1>3, <3>1 DEF DeliveredToOne, AtWork
      <4>4. QED BY <4>1, <4>2, <4>3 DEF Deliveries
    <3>5. \A h \in outstanding' : AtWork(h)' /\ h.event \notin waiting'
      BY <1>1, <2>1, <3>1, <3>4 DEF DeliveredToOne, AtWork
    <3>6. \A j \in Instances : stage'[j] \in {"acquire", "wait"} =>
             j # i /\ (Delivery(j, current[j]) \in outstanding)'
      <4> SUFFICES ASSUME NEW j \in Instances, stage'[j] \in {"acquire", "wait"}
                   PROVE  j # i /\ (Delivery(j, current[j]) \in outstanding)'
        OBVIOUS
      <4>1. j # i /\ stage[j] \in {"acquire", "wait"}
        BY <1>1
      <4>2. Delivery(j, current[j]) \in outstanding /\ Delivery(j, current[j]) # d
        BY <1>3, <3>1, <4>1 DEF DeliveredToOne, Delivery
      <4>3. QED BY <1>1, <2>1, <4>1, <4>2 DEF Delivery
    <3>7. DeliveredToOne'
      BY <2>1, <3>1, <3>5, <3>6 DEF DeliveredToOne
    <3>8. FirstTime'
      <4>1. waiting' \intersect handled' = {} /\ repeated' = {}
        BY <1>1, <1>3, <2>1, <3>1 DEF FirstTime
      <4>2. ASSUME NEW j \in Instances, (stage[j] \in {"acquire", "wait"} /\ answer[j] # "ok")'
            PROVE  (current[j] \notin handled)'
        <5>1. stage'[j] \in {"acquire", "wait"} /\ answer'[j] # "ok"
          BY <4>2
        <5>2. j # i
          BY <3>6, <5>1
        <5>3. stage[j] = stage'[j] /\ answer[j] = answer'[j]
          BY <1>1, <5>2
        <5>4. QED BY <1>1, <3>1, <5>1, <5>3 DEF FirstTime
      <4>3. QED BY <4>1, <4>2 DEF FirstTime
    <3>9. QED BY <3>2, <3>7, <3>8
  <2>5. QED BY <1>1, <2>2, <2>3, <2>4 DEF PersistentInv, Undisturbed
<1>7. QED BY <1>0, <1>5, <1>6

LEMMA TimesOutPreserves ==
    ASSUME PersistentInv, NEW d \in outstanding, TimesOut(d) PROVE PersistentInv'
<1>1. HandlerInv /\ HandlerInv'
  BY HandlerStutters DEF PersistentInv, TimesOut
<1>2. timeouts' \in 0..MaxTimeouts
  BY PersistentAssumption DEF PersistentInv, TypeOK, TimesOut
<1>3. d.event \in Log
  BY DEF PersistentInv, TypeOK, Deliveries
<1>4. TypeOK'
  BY <1>1, <1>2, <1>3 DEF PersistentInv, HandlerInv, TypeOK, TimesOut
<1>5. QED BY <1>1, <1>4, DisturbedStep DEF TimesOut, handlerVars

LEMMA StutterPreserves ==
    ASSUME PersistentInv, UNCHANGED vars PROVE PersistentInv'
<1>1. UNCHANGED handlerVars /\ UNCHANGED serverVars
  BY DEF vars
<1>2. HandlerInv'
  BY <1>1, HandlerStutters DEF PersistentInv
<1>3. TypeOK' /\ AckedIsHandled'
  BY <1>1, <1>2 DEF PersistentInv, HandlerInv, TypeOK, AckedIsHandled, handlerVars, serverVars
<1>4. Undisturbed'
  BY <1>1 DEF PersistentInv, Undisturbed, DeliveredToOne, AtWork, Delivery,
              NothingLeftBehind, FirstTime, handlerVars, serverVars
<1>5. QED BY <1>2, <1>3, <1>4 DEF PersistentInv

LEMMA NextPreserves == PersistentInv /\ [Next]_vars => PersistentInv'
<1> SUFFICES ASSUME PersistentInv, [Next]_vars PROVE PersistentInv'
  OBVIOUS
<1>1. ASSUME NEW i \in Instances, Start(i) PROVE PersistentInv'
  BY <1>1, StartPreserves
<1>2. ASSUME NEW i \in Instances, Cancel(i) \/ Crash(i) \/ Dropped(i) PROVE PersistentInv'
  BY <1>2, DisturbingActionsPreserve
<1>3. ASSUME NEW i \in Instances, NEW e \in Log, ReceiveEvent(i, e) PROVE PersistentInv'
  BY <1>3, ReceiveEventPreserves
<1>4. ASSUME NEW i \in Instances, NEW e \in Log, AckSystemEvent(i, e) PROVE PersistentInv'
  BY <1>4, AckSystemEventPreserves
<1>5. ASSUME NEW i \in Instances, StartHandler(i) PROVE PersistentInv'
  BY <1>5, StartHandlerPreserves
<1>6. ASSUME NEW i \in Instances, Ack(i) \/ Nack(i) PROVE PersistentInv'
  BY <1>6, AnswerPreserves
<1>7. ASSUME NEW g \in goroutines, EndHandler(g) PROVE PersistentInv'
  BY <1>7, EndHandlerPreserves
<1>8. ASSUME NEW d \in outstanding, TimesOut(d) PROVE PersistentInv'
  BY <1>8, TimesOutPreserves
<1>9. CASE UNCHANGED vars
  BY <1>9, StutterPreserves
<1>10. QED
  BY <1>1, <1>2, <1>3, <1>4, <1>5, <1>6, <1>7, <1>8, <1>9 DEF Next, Loop

LEMMA PersistentInvariant == Spec => []PersistentInv
<1>1. QED BY InitHolds, NextPreserves, PTL DEF Spec

\* The variables of the subscription and of its server keep their types.
THEOREM PersistentTypeCorrect == Spec => []TypeOK
<1>1. PersistentInv => TypeOK
  BY DEF PersistentInv
<1>2. QED BY PersistentInvariant, <1>1, PTL

\* The server is told of no event that it was handled before a handler has returned
\* without error: for every number of consumers and whatever becomes of answers,
\* contexts, connections and processes.
THEOREM AcknowledgedAfterHandling == Spec => []AckedIsHandled
<1>1. PersistentInv => AckedIsHandled
  BY DEF PersistentInv
<1>2. QED BY PersistentInvariant, <1>1, PTL

\* As long as no answer was lost or late and no run has ended, no event is received
\* a second time after it was handled.
THEOREM NoUnfoundedRepetition == Spec => []RepeatedForAReason
<1>1. PersistentInv => RepeatedForAReason
  BY DEF PersistentInv, Undisturbed, FirstTime, RepeatedForAReason
<1>2. QED BY PersistentInvariant, <1>1, PTL
=============================================================================

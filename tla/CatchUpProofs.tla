--------------------------- MODULE CatchUpProofs ---------------------------
(***************************************************************************)
(* The catch-up subscription stores no position before everything up to it *)
(* was handled.  The invariant says where each loop stands in the log: all *)
(* it has received was handled, but for the event it stands at.            *)
(***************************************************************************)
EXTENDS CatchUp, HandlerProofs, FiniteSetTheorems

Working == {"acquire", "wait", "store"}

\* The event at which the loop of i stands is the last it received.
Position ==
    \A i \in Instances : stage[i] \in Working =>
        current[i] \in UserEvents /\ next[i] = current[i] + 1

\* The handler of the event i stands at need not have returned without error.
Unfinished(i, p) == stage[i] \in {"acquire", "wait"} /\ p = current[i]

Prefix ==
    \A i \in Instances : stage[i] # "stopped" =>
        \A p \in UserEvents : p < next[i] => p \in handled \/ Unfinished(i, p)

CatchUpInv == HandlerInv /\ TypeOK /\ NoEventLost /\ Position /\ Prefix

LEMMA Log0 == Log # {} /\ Log \subseteq Nat /\ UserEvents \subseteq Log /\ LogEnd \in Nat
<1>1. LogEnd \in Nat \ {0} /\ Log = 0..(LogEnd - 1)
  BY CatchUpAssumption
<1>2. 0 \in Log /\ Log \subseteq Nat
  BY <1>1
<1>3. QED BY <1>1, <1>2 DEF UserEvents

LEMMA InitHolds == Init => CatchUpInv
<1> SUFFICES ASSUME Init PROVE CatchUpInv
  OBVIOUS
<1> USE Log0, CatchUpAssumption DEF Init
<1>1. HandlerInv
  BY HandlerInitHolds
<1>2. TypeOK
  <2>1. HandlerTypeOK
    BY <1>1 DEF HandlerInv
  <2>2. 0 \in 0..LogEnd /\ 0 \in 0..MaxFailures
    OBVIOUS
  <2>3. stores \in [Instances -> Stores] /\ next \in [Instances -> 0..LogEnd]
    BY <2>2
  <2>4. QED BY <2>1, <2>2, <2>3 DEF TypeOK, NoCheckpoint
<1>3. NoEventLost
  BY DEF NoEventLost, NoCheckpoint
<1>4. Position /\ Prefix
  BY DEF HandlerInit, Position, Prefix, Working
<1>5. QED BY <1>1, <1>2, <1>3, <1>4 DEF CatchUpInv

\* A step that leaves log positions and checkpoint alone, keeps what was handled
\* and brings no loop to work it was not at.
LEMMA QuietStep ==
    ASSUME CatchUpInv, HandlerInv',
           UNCHANGED <<stores, next, checkpoint, overlapped, current>>,
           failures' \in 0..MaxFailures,
           handled \subseteq handled',
           \A i \in Instances : stage'[i] = stage[i] \/ stage'[i] = "stopped"
    PROVE  CatchUpInv'
<1> USE Log0
<1>1. TypeOK'
  BY DEF CatchUpInv, HandlerInv, TypeOK
<1>2. NoEventLost'
  BY DEF CatchUpInv, NoEventLost
<1>3. Position'
  BY DEF CatchUpInv, Position, Working
<1>4. Prefix'
  BY DEF CatchUpInv, Prefix, Unfinished
<1>5. QED BY <1>1, <1>2, <1>3, <1>4 DEF CatchUpInv

LEMMA StartPreserves ==
    ASSUME CatchUpInv, NEW i \in Instances, Start(i) PROVE CatchUpInv'
<1> USE Log0, CatchUpAssumption
<1>1. HandlerInv /\ HandlerInv'
  BY BeginRunKeeps DEF CatchUpInv, Start
<1>2. /\ stage' = [stage EXCEPT ![i] = "receive"] /\ stage \in [Instances -> Stages]
      /\ next' = [next EXCEPT ![i] = SubscribedAt(i)]
      /\ next \in [Instances -> 0..LogEnd] /\ checkpoint \in Log \union {-1}
      /\ overlapped' \in BOOLEAN
      /\ UNCHANGED <<current, handled, stores, checkpoint, failures>>
  BY <1>1 DEF CatchUpInv, HandlerInv, HandlerTypeOK, TypeOK, NoCheckpoint, Start, BeginRun, GoTo
<1>3. SubscribedAt(i) \in 0..LogEnd /\ SubscribedAt(i) <= checkpoint + 1
  BY <1>2 DEF SubscribedAt
<1>4. TypeOK'
  BY <1>1, <1>2, <1>3 DEF CatchUpInv, HandlerInv, TypeOK
<1>5. NoEventLost'
  BY <1>2 DEF CatchUpInv, NoEventLost
<1>6. Position'
  BY <1>2 DEF CatchUpInv, Position, Working
<1>7. Prefix'
  <2> SUFFICES ASSUME NEW j \in Instances, stage'[j] # "stopped",
                      NEW p \in UserEvents, p < next'[j]
               PROVE  p \in handled' \/ Unfinished(j, p)'
    BY DEF Prefix
  <2>1. CASE j = i
    <3>1. p \in Nat /\ p < SubscribedAt(i)
      BY <2>1, <1>2
    <3>2. p <= checkpoint
      BY <3>1, <1>2, <1>3
    <3>3. QED BY <3>2, <1>2 DEF CatchUpInv, NoEventLost
  <2>2. CASE j # i
    BY <2>2, <1>2 DEF CatchUpInv, Prefix, Unfinished
  <2>3. QED BY <2>1, <2>2
<1>8. QED BY <1>1, <1>4, <1>5, <1>6, <1>7 DEF CatchUpInv

LEMMA SkipEventPreserves ==
    ASSUME CatchUpInv, NEW i \in Instances, SkipEvent(i) PROVE CatchUpInv'
<1> USE Log0, CatchUpAssumption
<1>1. HandlerInv /\ HandlerInv'
  BY HandlerStutters DEF CatchUpInv, SkipEvent
<1>2. /\ stage[i] = "receive" /\ next[i] \in Log \ UserEvents
      /\ next' = [next EXCEPT ![i] = next[i] + 1] /\ next \in [Instances -> 0..LogEnd]
      /\ UNCHANGED <<stage, current, handled, stores, checkpoint, failures, overlapped>>
  BY DEF CatchUpInv, TypeOK, SkipEvent, handlerVars, UserEvents
<1>3. TypeOK'
  BY <1>1, <1>2 DEF CatchUpInv, HandlerInv, TypeOK
<1>4. NoEventLost'
  BY <1>2 DEF CatchUpInv, NoEventLost
<1>5. Position'
  BY <1>2 DEF CatchUpInv, Position, Working
<1>6. Prefix'
  BY <1>2 DEF CatchUpInv, Prefix, Unfinished
<1>7. QED BY <1>1, <1>3, <1>4, <1>5, <1>6 DEF CatchUpInv

LEMMA ReceiveEventPreserves ==
    ASSUME CatchUpInv, NEW i \in Instances, ReceiveEvent(i) PROVE CatchUpInv'
<1> USE Log0, CatchUpAssumption
<1>1. HandlerInv /\ HandlerInv'
  BY HandleEventKeeps DEF CatchUpInv, ReceiveEvent
<1>2. /\ stage[i] = "receive" /\ next[i] \in UserEvents
      /\ stage' = [stage EXCEPT ![i] = "acquire"] /\ stage \in [Instances -> Stages]
      /\ current' = [current EXCEPT ![i] = next[i]] /\ current \in [Instances -> Log]
      /\ next' = [next EXCEPT ![i] = next[i] + 1] /\ next \in [Instances -> 0..LogEnd]
      /\ UNCHANGED <<handled, stores, checkpoint, failures, overlapped>>
  BY <1>1 DEF CatchUpInv, HandlerInv, HandlerTypeOK, TypeOK, ReceiveEvent, HandleEvent, GoTo
<1>3. TypeOK'
  BY <1>1, <1>2 DEF CatchUpInv, HandlerInv, TypeOK
<1>4. NoEventLost'
  BY <1>2 DEF CatchUpInv, NoEventLost
<1>5. Position'
  BY <1>2 DEF CatchUpInv, Position, Working
<1>6. Prefix'
  BY <1>2 DEF CatchUpInv, Prefix, Unfinished
<1>7. QED BY <1>1, <1>3, <1>4, <1>5, <1>6 DEF CatchUpInv

LEMMA StartHandlerPreserves ==
    ASSUME CatchUpInv, NEW i \in Instances, StartHandler(i) PROVE CatchUpInv'
<1> USE Log0
<1>1. HandlerInv /\ HandlerInv'
  BY AcquireKeeps DEF CatchUpInv, StartHandler
<1>2. /\ stage[i] = "acquire"
      /\ stage' = [stage EXCEPT ![i] = "wait"] /\ stage \in [Instances -> Stages]
      /\ UNCHANGED <<next, current, handled, stores, checkpoint, failures, overlapped>>
  BY <1>1 DEF HandlerInv, HandlerTypeOK, StartHandler, Acquire, GoTo, catchUpVars
<1>3. TypeOK'
  BY <1>1, <1>2 DEF CatchUpInv, HandlerInv, TypeOK
<1>4. NoEventLost'
  BY <1>2 DEF CatchUpInv, NoEventLost
<1>5. Position'
  BY <1>2 DEF CatchUpInv, Position, Working
<1>6. Prefix'
  BY <1>2 DEF CatchUpInv, Prefix, Unfinished
<1>7. QED BY <1>1, <1>3, <1>4, <1>5, <1>6 DEF CatchUpInv

LEMMA EventHandledPreserves ==
    ASSUME CatchUpInv, NEW i \in Instances, EventHandled(i) PROVE CatchUpInv'
<1> USE Log0
<1> DEFINE s == IF stores[i] THEN "store" ELSE "receive"
<1>1. HandlerInv /\ HandlerInv'
  <2>1. s \in {"receive", "store", "stopped"}
    OBVIOUS
  <2>2. Returns(i, TRUE, s)
    BY DEF EventHandled
  <2>3. QED BY <2>1, <2>2, ReturnsKeeps DEF CatchUpInv
<1>2. /\ stage[i] = "wait" /\ answer[i] = "ok" /\ s \in {"receive", "store"}
      /\ stage' = [stage EXCEPT ![i] = s] /\ stage \in [Instances -> Stages]
      /\ UNCHANGED <<next, current, handled, stores, checkpoint, failures, overlapped>>
  BY <1>1 DEF HandlerInv, HandlerTypeOK, EventHandled, Returns, MayReturn, AnsweredBy, GoTo,
              catchUpVars
<1>3. current[i] \in handled
  BY <1>1, <1>2 DEF HandlerInv, AnswersTrue
<1>4. TypeOK'
  BY <1>1, <1>2 DEF CatchUpInv, HandlerInv, TypeOK
<1>5. NoEventLost'
  BY <1>2 DEF CatchUpInv, NoEventLost
<1>6. Position'
  BY <1>2 DEF CatchUpInv, Position, Working
<1>7. Prefix'
  BY <1>2, <1>3 DEF CatchUpInv, Prefix, Unfinished
<1>8. QED BY <1>1, <1>4, <1>5, <1>6, <1>7 DEF CatchUpInv

\* Whichever way StoreCheckpoint ends, the position stored is one whose prefix
\* was handled.
LEMMA StorePreserves ==
    ASSUME CatchUpInv, NEW i \in Instances, stage[i] = "store",
           NEW s \in {"receive", "stopped"}, GoTo(i, s),
           checkpoint' \in {checkpoint, current[i]}, failures' \in 0..MaxFailures,
           UNCHANGED <<limit, run, starts, cancelled, current, answer, goroutines, handled,
                       errors, stores, next, overlapped>>
    PROVE  CatchUpInv'
<1> USE Log0
<1>1. HandlerInv /\ HandlerInv'
  BY GoToKeeps DEF CatchUpInv
<1>2. stage' = [stage EXCEPT ![i] = s] /\ stage \in [Instances -> Stages]
  BY <1>1 DEF HandlerInv, HandlerTypeOK, GoTo
<1>3. current[i] \in UserEvents /\ next[i] = current[i] + 1
  BY DEF CatchUpInv, Position, Working
<1>4. TypeOK'
  BY <1>1, <1>3 DEF CatchUpInv, HandlerInv, TypeOK
<1>5. NoEventLost'
  <2> SUFFICES ASSUME NEW p \in UserEvents, p <= checkpoint' PROVE p \in handled
    BY DEF NoEventLost
  <2>1. CASE checkpoint' = checkpoint
    BY <2>1 DEF CatchUpInv, NoEventLost
  <2>2. CASE checkpoint' = current[i]
    <3>1. p \in Nat /\ current[i] \in Nat
      BY <1>3
    <3>2. p < next[i]
      BY <1>3, <2>2, <3>1
    <3>3. stage[i] # "stopped" /\ stage[i] \notin {"acquire", "wait"}
      OBVIOUS
    <3>4. QED BY <3>2, <3>3 DEF CatchUpInv, Prefix, Unfinished
  <2>3. QED BY <2>1, <2>2
<1>6. Position'
  BY <1>2 DEF CatchUpInv, Position, Working
<1>7. Prefix'
  BY <1>2 DEF CatchUpInv, Prefix, Unfinished
<1>8. QED BY <1>1, <1>4, <1>5, <1>6, <1>7 DEF CatchUpInv

\* Steps that leave the loops where they are, or stop them.
LEMMA QuietActionsPreserve ==
    ASSUME CatchUpInv, NEW i \in Instances,
           Cancel(i) \/ Crash(i) \/ Dropped(i) \/ EventFailed(i)
    PROVE  CatchUpInv'
<1> USE DEF CatchUpInv
<1> HandlerTypeOK /\ stage \in [Instances -> Stages] /\ failures \in 0..MaxFailures
  BY DEF HandlerInv, HandlerTypeOK, TypeOK
<1>1. CASE Cancel(i)
  <2>1. HandlerInv'
    BY <1>1, CancelRunKeeps DEF Cancel
  <2>2. UNCHANGED <<stage, handled, current, stores, next, checkpoint, failures, overlapped>>
    BY <1>1 DEF Cancel, CancelRun, catchUpVars
  <2>3. QED BY <2>1, <2>2, QuietStep
<1>2. CASE Crash(i)
  <2>1. HandlerInv'
    BY <1>2, DieKeeps DEF Crash
  <2>2. /\ stage' = [stage EXCEPT ![i] = "stopped"]
        /\ UNCHANGED <<handled, current, stores, next, checkpoint, failures, overlapped>>
    BY <1>2 DEF Crash, Die
  <2>3. QED BY <2>1, <2>2, QuietStep
<1>3. CASE Dropped(i)
  <2>1. HandlerInv'
    BY <1>3, GoToKeeps DEF Dropped
  <2>2. /\ stage' = [stage EXCEPT ![i] = "stopped"]
        /\ UNCHANGED <<handled, current, stores, next, checkpoint, failures, overlapped>>
    BY <1>3 DEF Dropped, GoTo
  <2>3. QED BY <2>1, <2>2, QuietStep
<1>4. CASE EventFailed(i)
  <2>1. HandlerInv'
    BY <1>4, ReturnsKeeps DEF EventFailed
  <2>2. /\ stage' = [stage EXCEPT ![i] = "stopped"]
        /\ UNCHANGED <<handled, current, stores, next, checkpoint, failures, overlapped>>
    BY <1>4 DEF EventFailed, Returns, GoTo
  <2>3. QED BY <2>1, <2>2, QuietStep
<1>5. QED BY <1>1, <1>2, <1>3, <1>4

LEMMA EndHandlerPreserves ==
    ASSUME CatchUpInv, NEW g \in goroutines, EndHandler(g) PROVE CatchUpInv'
<1>1. PICK ok \in BOOLEAN : HandlerEnds(g, ok) /\ UNCHANGED catchUpVars
  BY DEF EndHandler
<1>2. HandlerInv'
  BY <1>1, HandlerEndsKeeps DEF CatchUpInv
<1>3. /\ UNCHANGED <<stage, current, stores, next, checkpoint, failures, overlapped>>
      /\ handled \subseteq handled' /\ failures \in 0..MaxFailures
  BY <1>1 DEF HandlerEnds, catchUpVars, CatchUpInv, TypeOK
<1>4. QED BY <1>2, <1>3, QuietStep

LEMMA NextPreserves == CatchUpInv /\ [Next]_vars => CatchUpInv'
<1> SUFFICES ASSUME CatchUpInv, [Next]_vars PROVE CatchUpInv'
  OBVIOUS
<1>1. CASE UNCHANGED vars
  <2>1. UNCHANGED handlerVars /\ UNCHANGED catchUpVars
    BY <1>1 DEF vars
  <2>2. HandlerInv'
    BY <2>1, HandlerStutters DEF CatchUpInv
  <2>3. /\ UNCHANGED <<stage, handled, current, stores, next, checkpoint, overlapped>>
        /\ failures' \in 0..MaxFailures
    BY <2>1 DEF handlerVars, catchUpVars, CatchUpInv, TypeOK
  <2>4. QED BY <2>2, <2>3, QuietStep
<1>2. ASSUME NEW i \in Instances, Start(i) PROVE CatchUpInv'
  BY <1>2, StartPreserves
<1>3. ASSUME NEW i \in Instances, Cancel(i) \/ Crash(i) \/ Dropped(i) \/ EventFailed(i)
      PROVE  CatchUpInv'
  BY <1>3, QuietActionsPreserve
<1>4. ASSUME NEW i \in Instances, SkipEvent(i) PROVE CatchUpInv'
  BY <1>4, SkipEventPreserves
<1>5. ASSUME NEW i \in Instances, ReceiveEvent(i) PROVE CatchUpInv'
  BY <1>5, ReceiveEventPreserves
<1>6. ASSUME NEW i \in Instances, StartHandler(i) PROVE CatchUpInv'
  BY <1>6, StartHandlerPreserves
<1>7. ASSUME NEW i \in Instances, EventHandled(i) PROVE CatchUpInv'
  BY <1>7, EventHandledPreserves
<1>8. ASSUME NEW i \in Instances, StoreCheckpoint(i) PROVE CatchUpInv'
  <2>1. failures \in 0..MaxFailures
    BY DEF CatchUpInv, TypeOK
  <2>2. QED BY <1>8, <2>1, StorePreserves DEF StoreCheckpoint
<1>9. ASSUME NEW i \in Instances, StoreFailed(i) PROVE CatchUpInv'
  <2>1. failures \in 0..MaxFailures /\ failures < MaxFailures /\ failures' = failures + 1
    BY <1>9 DEF CatchUpInv, TypeOK, StoreFailed
  <2>2. failures' \in 0..MaxFailures
    BY <2>1, CatchUpAssumption
  <2>3. QED BY <1>9, <2>2, StorePreserves DEF StoreFailed
<1>10. ASSUME NEW g \in goroutines, EndHandler(g) PROVE CatchUpInv'
  BY <1>10, EndHandlerPreserves
<1>11. QED
  BY <1>1, <1>2, <1>3, <1>4, <1>5, <1>6, <1>7, <1>8, <1>9, <1>10 DEF Next, Loop

LEMMA CatchUpInvariant == Spec => []CatchUpInv
<1>1. QED BY InitHolds, NextPreserves, PTL DEF Spec

\* The variables of the subscription keep their types.
THEOREM CatchUpTypeCorrect == Spec => []TypeOK
<1>1. CatchUpInv => TypeOK
  BY DEF CatchUpInv
<1>2. QED BY CatchUpInvariant, <1>1, PTL

\* The checkpoint is never past an event no handler has handled: for every number
\* of instances with the same id, that overlap, crash, are restarted and dropped,
\* whatever limit of WithConcurrency each has and whatever the store does.
THEOREM NoEventIsLost == Spec => []NoEventLost
<1>1. CatchUpInv => NoEventLost
  BY DEF CatchUpInv
<1>2. QED BY CatchUpInvariant, <1>1, PTL

-----------------------------------------------------------------------------
\* As long as no two instances have overlapped, the one that runs is past the
\* checkpoint.
Alone ==
    ~overlapped =>
        /\ \A i, j \in Instances : stage[i] # "stopped" /\ stage[j] # "stopped" => i = j
        /\ \A i \in Instances : stage[i] # "stopped" /\ stores[i] => checkpoint < next[i]
        /\ \A i \in Instances : stage[i] \in Working /\ stores[i] => checkpoint < current[i]

StoresToStore == \A i \in Instances : stage[i] = "store" => stores[i]

\* No event to handle lies between the checkpoint and p.
NextToStore(p) == p <= checkpoint \/ \A q \in UserEvents : q > checkpoint => p <= q

\* If all have a store too, nothing has come further than the event after it.
OneAhead ==
    (~overlapped /\ \A i \in Instances : stores[i]) =>
        /\ \A p \in handled : p \in UserEvents /\ NextToStore(p)
        /\ \A g \in goroutines : g.event \in UserEvents /\ NextToStore(g.event)
        /\ \A i \in Instances : stage[i] \in Working => NextToStore(current[i])
        /\ \A i \in Instances : stage[i] = "receive" =>
              \A q \in UserEvents : q > checkpoint => next[i] <= q

AloneInv == Alone /\ StoresToStore /\ OneAhead

LEMMA AloneInit == Init => AloneInv
  BY DEF Init, HandlerInit, AloneInv, Alone, StoresToStore, OneAhead, Working

\* Steps that leave the log positions alone and begin nothing.
LEMMA AloneQuietly ==
    ASSUME AloneInv, UNCHANGED <<stores, next, checkpoint, overlapped, current>>,
           \A i \in Instances : \/ stage'[i] = stage[i] \/ stage'[i] = "stopped"
                                \/ stage[i] = "acquire" /\ stage'[i] = "wait",
           \A p \in handled' : p \in handled \/ \E g \in goroutines : p = g.event,
           \A g \in goroutines' : \/ \E h \in goroutines : g.event = h.event
                                  \/ \E i \in Instances :
                                        stage[i] = "acquire" /\ g.event = current[i],
           Position
    PROVE  AloneInv'
<1>1. Alone' /\ StoresToStore'
  BY DEF AloneInv, Alone, StoresToStore, Working
<1>2. ASSUME ~overlapped, \A i \in Instances : stores[i]
      PROVE  /\ \A p \in handled' : p \in UserEvents /\ NextToStore(p)
             /\ \A g \in goroutines' : g.event \in UserEvents /\ NextToStore(g.event)
  BY <1>2 DEF AloneInv, OneAhead, Position, Working
<1>3. \A p : NextToStore(p)' = NextToStore(p)
  BY DEF NextToStore
<1>4. OneAhead'
  BY <1>2, <1>3 DEF AloneInv, OneAhead, Working
<1>5. QED BY <1>1, <1>4 DEF AloneInv

LEMMA AloneStart ==
    ASSUME CatchUpInv, AloneInv, NEW i \in Instances, Start(i) PROVE AloneInv'
<1>1. /\ stage[i] = "stopped" /\ stage \in [Instances -> Stages]
      /\ stage' = [stage EXCEPT ![i] = "receive"]
      /\ next' = [next EXCEPT ![i] = SubscribedAt(i)] /\ next \in [Instances -> 0..LogEnd]
      /\ overlapped' = (overlapped \/ \E j \in Instances \ {i} : stage[j] # "stopped")
      /\ checkpoint \in Log \union {-1}
      /\ UNCHANGED <<current, goroutines, handled, stores, checkpoint>>
  BY DEF CatchUpInv, HandlerInv, HandlerTypeOK, TypeOK, NoCheckpoint, Start, BeginRun, GoTo
<1>2. checkpoint \in Int /\ UserEvents \subseteq Nat
  BY <1>1, Log0
<1>3. stores[i] => SubscribedAt(i) = checkpoint + 1
  BY DEF SubscribedAt
<1>4. StoresToStore'
  BY <1>1 DEF AloneInv, StoresToStore
<1>5. ASSUME ~overlapped'
      PROVE  /\ ~overlapped
             /\ \A j \in Instances : stage'[j] # "stopped" => j = i
  BY <1>1, <1>5
<1>6. next'[i] = SubscribedAt(i) /\ stage'[i] = "receive"
  BY <1>1
<1>7. Alone'
  BY <1>1, <1>2, <1>3, <1>5, <1>6 DEF Alone, Working
<1>8. \A p : NextToStore(p)' = NextToStore(p)
  BY <1>1 DEF NextToStore
<1>9. ASSUME ~overlapped', \A j \in Instances : stores[j]
      PROVE  \A q \in UserEvents : q > checkpoint => next'[i] <= q
  BY <1>2, <1>3, <1>6, <1>9
<1>10. OneAhead'
  BY <1>1, <1>5, <1>6, <1>8, <1>9 DEF AloneInv, OneAhead, Working
<1>11. QED BY <1>4, <1>7, <1>10 DEF AloneInv

LEMMA AloneReceives ==
    ASSUME CatchUpInv, AloneInv, NEW i \in Instances, SkipEvent(i) \/ ReceiveEvent(i)
    PROVE  AloneInv'
<1>1. /\ stage[i] = "receive" /\ stage \in [Instances -> Stages]
      /\ next \in [Instances -> 0..LogEnd] /\ current \in [Instances -> Log]
      /\ next' = [next EXCEPT ![i] = next[i] + 1] /\ checkpoint \in Log \union {-1}
      /\ UNCHANGED <<goroutines, handled, stores, checkpoint, overlapped>>
  BY DEF CatchUpInv, HandlerInv, HandlerTypeOK, TypeOK, NoCheckpoint, SkipEvent,
         ReceiveEvent, HandleEvent, handlerVars
<1>2. checkpoint \in Int /\ UserEvents \subseteq Nat
  BY <1>1, Log0
<1>3. next[i] \in Nat /\ next'[i] = next[i] + 1
  BY <1>1, Log0
<1>4. \A p : NextToStore(p)' = NextToStore(p)
  BY <1>1 DEF NextToStore
<1>5. CASE SkipEvent(i)
  <2>1. next[i] \notin UserEvents /\ UNCHANGED <<stage, current>>
    BY <1>5 DEF SkipEvent, UserEvents, handlerVars
  <2>2. Alone'
    BY <1>1, <1>2, <1>3, <2>1 DEF AloneInv, Alone, Working
  <2>3. StoresToStore'
    BY <1>1, <2>1 DEF AloneInv, StoresToStore
  <2>4. OneAhead'
    BY <1>1, <1>2, <1>3, <1>4, <2>1 DEF AloneInv, OneAhead, Working
  <2>5. QED BY <2>2, <2>3, <2>4 DEF AloneInv
<1>6. CASE ReceiveEvent(i)
  <2>1. /\ next[i] \in UserEvents
        /\ stage' = [stage EXCEPT ![i] = "acquire"] /\ current' = [current EXCEPT ![i] = next[i]]
    BY <1>6 DEF ReceiveEvent, HandleEvent, GoTo
  <2>2. Alone'
    BY <1>1, <1>2, <1>3, <2>1 DEF AloneInv, Alone, Working
  <2>3. StoresToStore'
    BY <1>1, <2>1 DEF AloneInv, StoresToStore
  <2>4. (~overlapped /\ \A j \in Instances : stores[j]) => NextToStore(next[i])
    BY <1>1 DEF AloneInv, OneAhead, NextToStore
  <2>5. OneAhead'
    BY <1>1, <1>4, <2>1, <2>4 DEF AloneInv, OneAhead, Working
  <2>6. QED BY <2>2, <2>3, <2>5 DEF AloneInv
<1>7. QED BY <1>5, <1>6

LEMMA AloneHandled ==
    ASSUME CatchUpInv, AloneInv, NEW i \in Instances, EventHandled(i) PROVE AloneInv'
<1>1. /\ stage[i] \in {"acquire", "wait"} /\ stage \in [Instances -> Stages]
      /\ stage' = [stage EXCEPT ![i] = IF stores[i] THEN "store" ELSE "receive"]
      /\ goroutines' = (goroutines \ Awaited(i)) \union
                          {[g EXCEPT !.awaited = FALSE] : g \in Awaited(i)}
      /\ goroutines \subseteq Goroutines
      /\ UNCHANGED <<current, handled, stores, next, checkpoint, overlapped>>
  BY DEF CatchUpInv, HandlerInv, HandlerTypeOK, EventHandled, Returns, MayReturn,
         AnsweredBy, ContextEnded, GoTo, catchUpVars
<1>2. \A g \in goroutines' : \E h \in goroutines : g.event = h.event
  <2>1. \A g \in goroutines : [g EXCEPT !.awaited = FALSE].event = g.event
    BY <1>1 DEF Goroutines
  <2>2. QED BY <1>1, <2>1 DEF Awaited, Running
<1>3. \A p : NextToStore(p)' = NextToStore(p)
  BY <1>1 DEF NextToStore
<1>4. \A j \in Instances : /\ stage'[j] # "stopped" => stage[j] # "stopped"
                           /\ stage'[j] \in Working => stage[j] \in Working
                           /\ stores[j] /\ stage'[j] = "receive" => stage[j] = "receive"
                           /\ stage'[j] = "store" => stage[j] = "store" \/ stores[j]
  BY <1>1 DEF Working
<1>5. Alone'
  BY <1>1, <1>4 DEF AloneInv, Alone
<1>6. StoresToStore'
  BY <1>1, <1>4 DEF AloneInv, StoresToStore
<1>7. OneAhead'
  BY <1>1, <1>2, <1>3, <1>4 DEF AloneInv, OneAhead
<1>8. QED BY <1>5, <1>6, <1>7 DEF AloneInv

LEMMA AloneStores ==
    ASSUME CatchUpInv, AloneInv, NEW i \in Instances, stage[i] = "store",
           NEW s \in {"receive", "stopped"}, GoTo(i, s),
           checkpoint' = current[i] \/ (checkpoint' = checkpoint /\ s = "stopped"),
           UNCHANGED <<current, goroutines, handled, stores, next, overlapped>>
    PROVE  AloneInv' /\ (~overlapped => checkpoint' >= checkpoint)
<1>1. /\ stage' = [stage EXCEPT ![i] = s] /\ stage \in [Instances -> Stages]
      /\ checkpoint \in Int /\ UserEvents \subseteq Nat /\ stores[i]
      /\ current[i] \in UserEvents /\ current[i] \in Nat /\ next[i] = current[i] + 1
  <2>1. /\ stage' = [stage EXCEPT ![i] = s] /\ stage \in [Instances -> Stages]
        /\ stores[i] /\ checkpoint \in Log \union {-1}
    BY DEF CatchUpInv, HandlerInv, HandlerTypeOK, TypeOK, NoCheckpoint, GoTo, AloneInv,
           StoresToStore
  <2>2. current[i] \in UserEvents /\ next[i] = current[i] + 1
    BY DEF CatchUpInv, Position, Working
  <2>3. checkpoint \in Int /\ UserEvents \subseteq Nat
    BY <2>1, Log0
  <2>4. QED BY <2>1, <2>2, <2>3
<1>2. ~overlapped => /\ checkpoint < current[i] /\ checkpoint' >= checkpoint
                      /\ checkpoint' \in Int
  <2>1. ~overlapped => checkpoint < current[i]
    BY <1>1 DEF AloneInv, Alone, Working
  <2>2. QED BY <1>1, <2>1
<1>3. ~overlapped => \A j \in Instances : stage'[j] # "stopped" => j = i /\ s = "receive"
  BY <1>1 DEF AloneInv, Alone
<1>4. StoresToStore'
  BY <1>1 DEF AloneInv, StoresToStore
<1>5. Alone'
  <2>1. ASSUME ~overlapped, NEW j \in Instances, stage'[j] # "stopped"
        PROVE  /\ j = i /\ stage'[j] \notin Working
               /\ checkpoint' < next[j]
    <3>1. j = i /\ s = "receive"
      BY <1>3, <2>1
    <3>2. checkpoint' = current[i] /\ next[i] = current[i] + 1 /\ current[i] \in Nat
      BY <1>1, <3>1
    <3>3. stage'[j] = "receive"
      BY <1>1, <3>1
    <3>4. QED BY <3>1, <3>2, <3>3 DEF Working
  <2>2. \A j \in Instances : stage'[j] \in Working => stage'[j] # "stopped"
    BY DEF Working
  <2>3. QED BY <2>1, <2>2 DEF Alone
<1>6. ASSUME ~overlapped, \A j \in Instances : stores[j], NEW p \in UserEvents, NextToStore(p)
      PROVE  NextToStore(p)'
  <2>1. CASE p <= checkpoint
    <3>1. p \in Nat /\ checkpoint \in Int /\ checkpoint' \in Int /\ checkpoint' >= checkpoint
      BY <1>1, <1>2, <1>6
    <3>2. p <= checkpoint'
      BY <2>1, <3>1
    <3>3. QED BY <3>2 DEF NextToStore
  <2>2. CASE p <= current[i] /\ checkpoint' = current[i]
    BY <2>2 DEF NextToStore
  <2>3. CASE checkpoint' = checkpoint
    BY <1>6, <2>3 DEF NextToStore
  <2>4. p <= checkpoint \/ p <= current[i]
    BY <1>1, <1>2, <1>6 DEF NextToStore
  <2>5. QED BY <2>1, <2>2, <2>3, <2>4
<1>7. OneAhead'
  <2> SUFFICES ASSUME ~overlapped, \A j \in Instances : stores[j]
               PROVE  /\ \A p \in handled : p \in UserEvents /\ NextToStore(p)'
                      /\ \A g \in goroutines : g.event \in UserEvents /\ NextToStore(g.event)'
                      /\ \A j \in Instances : stage'[j] \notin Working
                      /\ \A j \in Instances : stage'[j] = "receive" =>
                            \A q \in UserEvents : q > checkpoint' => next[j] <= q
    BY DEF OneAhead
  <2>1. /\ \A p \in handled : p \in UserEvents /\ NextToStore(p)'
        /\ \A g \in goroutines : g.event \in UserEvents /\ NextToStore(g.event)'
    BY <1>6 DEF AloneInv, OneAhead
  <2>2. \A j \in Instances : stage'[j] \notin Working
    BY <1>1, <1>3 DEF Working
  <2>3. \A j \in Instances : stage'[j] = "receive" => j = i /\ checkpoint' = current[i]
    BY <1>3
  <2>4. \A q \in UserEvents : q > current[i] => next[i] <= q
    <3>1. \A q \in UserEvents : q \in Nat
      BY <1>1
    <3>2. current[i] \in Nat /\ next[i] = current[i] + 1
      BY <1>1
    <3>3. QED BY ONLY <3>1, <3>2
  <2>5. \A j \in Instances : stage'[j] = "receive" =>
           \A q \in UserEvents : q > checkpoint' => next[j] <= q
    BY ONLY <2>3, <2>4
  <2>6. QED BY ONLY <2>1, <2>2, <2>5
<1>8. QED BY <1>2, <1>4, <1>5, <1>7 DEF AloneInv

\* A step either leaves the checkpoint alone or stores the event handled.
LEMMA AloneNext ==
    ASSUME CatchUpInv, AloneInv, [Next]_vars
    PROVE  AloneInv' /\ (~overlapped => checkpoint' >= checkpoint)
<1>0. checkpoint \in Int /\ Position /\ stage \in [Instances -> Stages]
  <2>1. checkpoint \in Log \union {-1} /\ Position /\ stage \in [Instances -> Stages]
    BY DEF CatchUpInv, HandlerInv, HandlerTypeOK, TypeOK, NoCheckpoint
  <2>2. QED BY <2>1, Log0
<1>1. ASSUME checkpoint' = checkpoint PROVE ~overlapped => checkpoint' >= checkpoint
  BY <1>0, <1>1
<1>2. CASE UNCHANGED vars
  <2>1. UNCHANGED <<stores, next, checkpoint, overlapped, current, stage, handled, goroutines>>
    BY <1>2 DEF vars, handlerVars, catchUpVars
  <2>2. QED BY <1>0, <1>1, <2>1, AloneQuietly
<1>3. ASSUME NEW i \in Instances, Start(i)
      PROVE  AloneInv' /\ (~overlapped => checkpoint' >= checkpoint)
  BY <1>1, <1>3, AloneStart DEF Start
<1>4. ASSUME NEW i \in Instances, Cancel(i) \/ Crash(i) \/ Dropped(i)
      PROVE  AloneInv' /\ (~overlapped => checkpoint' >= checkpoint)
  <2>1. /\ UNCHANGED <<stores, next, checkpoint, overlapped, current, handled>>
        /\ stage' = stage \/ stage' = [stage EXCEPT ![i] = "stopped"]
        /\ goroutines' \subseteq goroutines
    BY <1>4 DEF Cancel, Crash, Dropped, CancelRun, Die, GoTo, catchUpVars
  <2>2. \A j \in Instances : stage'[j] = stage[j] \/ stage'[j] = "stopped"
    BY <1>0, <2>1
  <2>3. QED BY <1>0, <1>1, <2>1, <2>2, AloneQuietly
<1>5. ASSUME NEW i \in Instances, StartHandler(i)
      PROVE  AloneInv' /\ (~overlapped => checkpoint' >= checkpoint)
  <2>1. PICK new : new = [instance |-> i, run |-> run[i], event |-> current[i],
                          awaited |-> TRUE]
    OBVIOUS
  <2>2. /\ UNCHANGED <<stores, next, checkpoint, overlapped, current, handled>>
        /\ stage[i] = "acquire" /\ stage' = [stage EXCEPT ![i] = "wait"]
        /\ goroutines' = goroutines \union {new} /\ new.event = current[i]
    BY <1>5, <2>1 DEF StartHandler, Acquire, GoTo, catchUpVars
  <2>3. \A j \in Instances : stage'[j] = stage[j] \/ (stage[j] = "acquire" /\ stage'[j] = "wait")
    BY <1>0, <2>2
  <2>4. QED BY <1>0, <1>1, <2>2, <2>3, AloneQuietly
<1>6. ASSUME NEW i \in Instances, EventFailed(i)
      PROVE  AloneInv' /\ (~overlapped => checkpoint' >= checkpoint)
  <2>1. /\ UNCHANGED <<stores, next, checkpoint, overlapped, current, handled>>
        /\ stage' = [stage EXCEPT ![i] = "stopped"] /\ goroutines \subseteq Goroutines
        /\ goroutines' = (goroutines \ Awaited(i)) \union
                            {[g EXCEPT !.awaited = FALSE] : g \in Awaited(i)}
    BY <1>6 DEF EventFailed, Returns, GoTo, CatchUpInv, HandlerInv, HandlerTypeOK
  <2>2. \A g \in goroutines : [g EXCEPT !.awaited = FALSE].event = g.event
    BY <2>1 DEF Goroutines
  <2>3. \A g \in goroutines' : \E h \in goroutines : g.event = h.event
    BY <2>1, <2>2 DEF Awaited, Running
  <2>4. \A j \in Instances : stage'[j] = stage[j] \/ stage'[j] = "stopped"
    BY <1>0, <2>1
  <2>5. QED BY <1>0, <1>1, <2>1, <2>3, <2>4, AloneQuietly
<1>7. ASSUME NEW i \in Instances, SkipEvent(i) \/ ReceiveEvent(i)
      PROVE  AloneInv' /\ (~overlapped => checkpoint' >= checkpoint)
  BY <1>1, <1>7, AloneReceives DEF SkipEvent, ReceiveEvent
<1>8. ASSUME NEW i \in Instances, EventHandled(i)
      PROVE  AloneInv' /\ (~overlapped => checkpoint' >= checkpoint)
  BY <1>1, <1>8, AloneHandled DEF EventHandled, catchUpVars
<1>9. ASSUME NEW i \in Instances, StoreCheckpoint(i)
      PROVE  AloneInv' /\ (~overlapped => checkpoint' >= checkpoint)
  BY <1>9, AloneStores DEF StoreCheckpoint
<1>10. ASSUME NEW i \in Instances, StoreFailed(i)
       PROVE  AloneInv' /\ (~overlapped => checkpoint' >= checkpoint)
  BY <1>10, AloneStores DEF StoreFailed
<1>11. ASSUME NEW g \in goroutines, EndHandler(g)
       PROVE  AloneInv' /\ (~overlapped => checkpoint' >= checkpoint)
  <2>1. /\ UNCHANGED <<stores, next, checkpoint, overlapped, current, stage>>
        /\ goroutines' \subseteq goroutines /\ handled' \subseteq handled \union {g.event}
    BY <1>11 DEF EndHandler, HandlerEnds, catchUpVars
  <2>2. QED BY <1>0, <1>1, <1>11, <2>1, AloneQuietly
<1>12. QED
  BY <1>2, <1>3, <1>4, <1>5, <1>6, <1>7, <1>8, <1>9, <1>10, <1>11 DEF Next, Loop

LEMMA AloneInvariant == Spec => [](CatchUpInv /\ AloneInv)
<1>1. Init => CatchUpInv /\ AloneInv
  BY InitHolds, AloneInit
<1>2. (CatchUpInv /\ AloneInv) /\ [Next]_vars => (CatchUpInv /\ AloneInv)'
  BY NextPreserves, AloneNext
<1>3. QED BY <1>1, <1>2, PTL DEF Spec

\* A restart repeats at most one event when instances do not overlap: whatever the
\* log, the number of restarts and the errors of handlers and stores.
THEOREM RestartRepeatsOne == Spec => []AtMostOneRepeated
<1>1. CatchUpInv /\ AloneInv => AtMostOneRepeated
  <2> SUFFICES ASSUME CatchUpInv, AloneInv, ~overlapped, \A i \in Instances : stores[i]
               PROVE  Cardinality({p \in handled : p > checkpoint}) <= 1
    BY DEF AtMostOneRepeated
  <2> DEFINE S == {p \in handled : p > checkpoint}
  <2>1. \A p \in S : p \in UserEvents /\ p \in Nat /\ \A q \in UserEvents : q > checkpoint => p <= q
    <3>1. checkpoint \in Int /\ UserEvents \subseteq Nat
      BY Log0 DEF CatchUpInv, TypeOK, NoCheckpoint
    <3>2. \A p \in handled : p \in UserEvents /\ NextToStore(p)
      BY DEF AloneInv, OneAhead
    <3>3. \A p \in S : p \in UserEvents /\ NextToStore(p) /\ p > checkpoint
      BY <3>2
    <3>4. ASSUME NEW p \in S PROVE p \in Nat /\ ~(p <= checkpoint)
      <4>1. p \in Nat /\ p > checkpoint /\ checkpoint \in Int
        BY <3>1, <3>3
      <4>2. QED BY ONLY <4>1
    <3>5. QED BY ONLY <3>3, <3>4 DEF NextToStore
  <2>2. \A p, q \in S : p = q
    BY <2>1
  <2>3. CASE S = {}
    <3>1. Cardinality(S) = 0
      BY <2>3, FS_EmptySet
    <3>2. QED BY <3>1
  <2>4. CASE S # {}
    <3>1. PICK p : S = {p}
      BY <2>2, <2>4
    <3>2. Cardinality({p}) = 1
      BY FS_Singleton
    <3>3. Cardinality(S) = 1
      BY <3>1, <3>2
    <3>4. QED BY <3>3
  <2>5. QED BY <2>3, <2>4
<1>2. QED BY <1>1, AloneInvariant, PTL

\* The checkpoint never moves back as long as no two instances overlap.
THEOREM CheckpointAdvances == Spec => CheckpointMovesForward
<1>1. CatchUpInv /\ AloneInv /\ [Next]_vars =>
         [~overlapped => checkpoint' >= checkpoint]_vars
  BY AloneNext
<1>2. QED BY <1>1, AloneInvariant, PTL DEF CheckpointMovesForward, Spec
=============================================================================

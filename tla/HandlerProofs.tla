--------------------------- MODULE HandlerProofs ---------------------------
(***************************************************************************)
(* What the steps of ConcurrentHandler preserve, whatever the subscription *)
(* around them: an awaited handler is about the event its loop stands at,  *)
(* and an answer without error is about an event that was handled.         *)
(***************************************************************************)
EXTENDS ConcurrentHandler, TLAPS

\* A Start that has not returned has a run of its own.
Started == \A i \in Instances : stage[i] # "stopped" => run[i] \in 1..starts

AwaitedAtWork ==
    \A g \in goroutines : g.awaited =>
        /\ stage[g.instance] = "wait" /\ g.run = run[g.instance]
        /\ g.event = current[g.instance]

AnswersTrue ==
    \A i \in Instances : answer[i] = "ok" => stage[i] = "wait" /\ current[i] \in handled

\* A loop that has an answer waits for no handler.
OneAnswer ==
    \A i \in Instances : answer[i] # "none" =>
        /\ stage[i] = "wait"
        /\ \A g \in goroutines : g.awaited => g.instance # i

HandlerInv == HandlerTypeOK /\ Started /\ AwaitedAtWork /\ AnswersTrue /\ OneAnswer

LEMMA HandlerInitHolds ==
    ASSUME HandlerInit PROVE HandlerInv
  BY HandlerAssumption
     DEF HandlerInit, HandlerInv, HandlerTypeOK, Started, AwaitedAtWork, AnswersTrue, OneAnswer,
         Stages

LEMMA HandlerStutters ==
    ASSUME HandlerInv, UNCHANGED handlerVars PROVE HandlerInv'
  BY DEF handlerVars, HandlerInv, HandlerTypeOK, Started, AwaitedAtWork, AnswersTrue,
         OneAnswer, Goroutines, Stages

LEMMA BeginRunKeeps ==
    ASSUME HandlerInv, NEW i \in Instances, BeginRun(i) PROVE HandlerInv'
<1> USE HandlerAssumption DEF HandlerInv, HandlerTypeOK
<1>1. /\ stage[i] = "stopped" /\ starts' = starts + 1 /\ starts' \in 0..MaxRuns
      /\ run' = [run EXCEPT ![i] = starts + 1] /\ stage' = [stage EXCEPT ![i] = "receive"]
      /\ cancelled' = [cancelled EXCEPT ![i] = FALSE]
      /\ UNCHANGED <<limit, current, answer, goroutines, handled, errors>>
  BY DEF BeginRun, NewRun, GoTo
<1>2. HandlerTypeOK'
  BY <1>1 DEF Stages
<1>3. Started'
  BY <1>1 DEF Started
<1>4. AwaitedAtWork'
  BY <1>1 DEF AwaitedAtWork, Goroutines
<1>5. AnswersTrue' /\ OneAnswer'
  BY <1>1 DEF AnswersTrue, OneAnswer
<1>6. QED BY <1>2, <1>3, <1>4, <1>5

LEMMA CancelRunKeeps ==
    ASSUME HandlerInv, NEW i \in Instances, CancelRun(i) PROVE HandlerInv'
  BY DEF CancelRun, HandlerInv, HandlerTypeOK, Started, AwaitedAtWork, AnswersTrue,
         OneAnswer

LEMMA DieKeeps ==
    ASSUME HandlerInv, NEW i \in Instances, Die(i) PROVE HandlerInv'
<1> USE DEF HandlerInv, HandlerTypeOK, Die
<1>1. HandlerTypeOK'
  BY DEF Stages
<1>2. Started' /\ AnswersTrue'
  BY DEF Started, AnswersTrue
<1>3. AwaitedAtWork'
  BY DEF AwaitedAtWork, Goroutines
<1>4. OneAnswer'
  BY DEF OneAnswer, Goroutines
<1>5. QED BY <1>1, <1>2, <1>3, <1>4

\* A step of the loop from one stage to another at which no handler is awaited.
LEMMA GoToKeeps ==
    ASSUME HandlerInv, NEW i \in Instances, NEW s \in {"receive", "stopped"},
           stage[i] \in {"receive", "store"}, GoTo(i, s),
           UNCHANGED <<limit, run, starts, cancelled, current, answer, goroutines, handled,
                       errors>>
    PROVE  HandlerInv'
<1> USE DEF HandlerInv, HandlerTypeOK, GoTo
<1>1. HandlerTypeOK'
  BY DEF Stages
<1>2. Started' /\ AnswersTrue'
  BY DEF Started, AnswersTrue
<1>3. AwaitedAtWork'
  BY DEF AwaitedAtWork, Goroutines
<1>4. OneAnswer'
  BY DEF OneAnswer, Goroutines
<1>5. QED BY <1>1, <1>2, <1>3, <1>4

LEMMA HandleEventKeeps ==
    ASSUME HandlerInv, NEW i \in Instances, NEW e \in Log, HandleEvent(i, e)
    PROVE  HandlerInv'
<1> USE DEF HandlerInv, HandlerTypeOK, HandleEvent, GoTo
<1>1. HandlerTypeOK'
  BY DEF Stages
<1>2. Started' /\ AnswersTrue'
  BY DEF Started, AnswersTrue
<1>3. AwaitedAtWork'
  BY DEF AwaitedAtWork, Goroutines
<1>4. OneAnswer'
  BY DEF OneAnswer, Goroutines
<1>5. QED BY <1>1, <1>2, <1>3, <1>4

LEMMA AcquireKeeps ==
    ASSUME HandlerInv, NEW i \in Instances, Acquire(i) PROVE HandlerInv'
<1> DEFINE new == [instance |-> i, run |-> run[i], event |-> current[i], awaited |-> TRUE]
<1> USE HandlerAssumption DEF HandlerInv, HandlerTypeOK
<1>1. /\ stage[i] = "acquire" /\ goroutines' = goroutines \union {new}
      /\ stage' = [stage EXCEPT ![i] = "wait"]
      /\ UNCHANGED <<limit, run, starts, cancelled, current, answer, handled, errors>>
  BY DEF Acquire, GoTo
<1>2. run[i] \in 1..MaxRuns
  BY <1>1 DEF Started
<1>3. new \in Goroutines
  BY <1>2 DEF Goroutines
<1>4. HandlerTypeOK'
  BY <1>1, <1>3 DEF Stages
<1>5. Started' /\ AnswersTrue'
  BY <1>1 DEF Started, AnswersTrue
<1>6. AwaitedAtWork'
  BY <1>1 DEF AwaitedAtWork, Goroutines
<1>7. OneAnswer'
  BY <1>1 DEF OneAnswer
<1>8. QED BY <1>4, <1>5, <1>6, <1>7

LEMMA HandlerEndsKeeps ==
    ASSUME HandlerInv, NEW g, NEW ok \in BOOLEAN, HandlerEnds(g, ok) PROVE HandlerInv'
<1> USE HandlerAssumption DEF HandlerInv, HandlerTypeOK
<1>1. /\ g \in goroutines /\ g \in Goroutines
      /\ goroutines' = goroutines \ {g}
      /\ handled' = IF ok THEN handled \union {g.event} ELSE handled
      /\ errors' \in 0..MaxErrors
      /\ answer' = IF g.awaited
                   THEN [answer EXCEPT ![g.instance] = IF ok THEN "ok" ELSE "error"]
                   ELSE answer
      /\ UNCHANGED <<limit, stage, run, starts, cancelled, current>>
  BY DEF HandlerEnds
<1>2. g.instance \in Instances /\ g.event \in Log
  BY <1>1 DEF Goroutines
<1>3. HandlerTypeOK'
  BY <1>1, <1>2
<1>4. Started' /\ AwaitedAtWork'
  BY <1>1 DEF Started, AwaitedAtWork
<1>5. AnswersTrue'
  BY <1>1, <1>2 DEF AnswersTrue, AwaitedAtWork
<1>6. OneAnswer'
  <2>1. \A h \in goroutines : h.awaited /\ g.awaited /\ h.instance = g.instance => h = g
    BY <1>1 DEF AwaitedAtWork, Goroutines
  <2>2. QED BY <1>1, <1>2, <2>1 DEF OneAnswer, AwaitedAtWork
<1>7. QED BY <1>3, <1>4, <1>5, <1>6

LEMMA ReturnsKeeps ==
    ASSUME HandlerInv, NEW i \in Instances, NEW ok \in BOOLEAN,
           NEW s \in {"receive", "store", "stopped"}, Returns(i, ok, s)
    PROVE  HandlerInv'
<1> USE DEF HandlerInv, HandlerTypeOK
<1>1. /\ stage[i] \in {"acquire", "wait"}
      /\ stage' = [stage EXCEPT ![i] = s] /\ answer' = [answer EXCEPT ![i] = "none"]
      /\ goroutines' = (goroutines \ Awaited(i)) \union
                          {[g EXCEPT !.awaited = FALSE] : g \in Awaited(i)}
      /\ UNCHANGED <<limit, run, starts, cancelled, current, handled, errors>>
  BY DEF Returns, MayReturn, AnsweredBy, ContextEnded, GoTo
<1>2. \A g \in goroutines : [g EXCEPT !.awaited = FALSE] \in Goroutines
  BY DEF Goroutines
<1>3. goroutines' \subseteq Goroutines
  BY <1>1, <1>2 DEF Awaited, Running
<1>4. HandlerTypeOK'
  BY <1>1, <1>3 DEF Stages
<1>5. Started' /\ AnswersTrue'
  BY <1>1 DEF Started, AnswersTrue
<1>6. AwaitedAtWork'
  <2> SUFFICES ASSUME NEW g \in goroutines', g.awaited
               PROVE  /\ stage'[g.instance] = "wait" /\ g.run = run[g.instance]
                      /\ g.event = current[g.instance]
    BY <1>1 DEF AwaitedAtWork
  <2>1. \A h \in goroutines : [h EXCEPT !.awaited = FALSE].awaited = FALSE
    BY DEF Goroutines
  <2>2. g \in goroutines /\ g \notin Awaited(i)
    BY <1>1, <2>1 DEF Awaited, Running
  <2>3. g.instance # i /\ g.instance \in Instances
    BY <2>2 DEF Awaited, Running, AwaitedAtWork, Goroutines
  <2>4. QED BY <1>1, <2>2, <2>3 DEF AwaitedAtWork
<1>7. OneAnswer'
  <2>1. \A h \in goroutines : [h EXCEPT !.awaited = FALSE].awaited = FALSE
    BY DEF Goroutines
  <2>2. \A g \in goroutines' : g.awaited => g \in goroutines
    BY <1>1, <2>1 DEF Awaited, Running
  <2>3. SUFFICES ASSUME NEW j \in Instances, answer'[j] # "none"
               PROVE  /\ stage'[j] = "wait"
                      /\ \A g \in goroutines' : g.awaited => g.instance # j
    BY DEF OneAnswer
  <2>4. j # i /\ answer[j] # "none" /\ stage'[j] = stage[j]
    BY <1>1, <2>3
  <2>5. /\ stage[j] = "wait"
        /\ \A g \in goroutines : g.awaited => g.instance # j
    BY <2>4 DEF OneAnswer
  <2>6. QED BY <2>2, <2>4, <2>5
<1>8. QED BY <1>4, <1>5, <1>6, <1>7
=============================================================================

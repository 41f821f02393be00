----------------------------- MODULE Persistent -----------------------------
(***************************************************************************)
(* The persistent subscription, kurrentdb/persistent.go: consumers of one  *)
(* group receive events from the server, acknowledge each one that was     *)
(* handled and give back each one that was not.  The server is external:   *)
(* it delivers a waiting event to one consumer, and lets it wait again     *)
(* when it is given back, when its time is over or its connection ends.    *)
(***************************************************************************)
EXTENDS ConcurrentHandler

CONSTANTS SystemEvents,  \* the events whose type begins with "$"
          MaxLost,       \* how many acks and nacks may be lost
          MaxTimeouts    \* how many events may time out while they are handled

ASSUME PersistentAssumption ==
    SystemEvents \subseteq Log /\ MaxLost \in Nat /\ MaxTimeouts \in Nat

VARIABLES waiting,      \* the events the server has for any consumer
          outstanding,  \* what it has delivered and knows no answer to
          acked,        \* the events it will not deliver again
          lost,         \* the acks and nacks that were lost
          timeouts,     \* the events that timed out while they were handled
          disturbed,    \* history: an answer was lost or late, or a run has ended
          repeated      \* history: the events received after they were handled

serverVars == <<waiting, outstanding, acked, lost, timeouts, disturbed, repeated>>
vars == <<handlerVars, serverVars>>

UserEvents == Log \ SystemEvents
Deliveries == [instance : Instances, run : 1..MaxRuns, event : Log]
Delivery(i, e) == [instance |-> i, run |-> run[i], event |-> e]
ConnectionOf(i) == {d \in outstanding : d.instance = i}
EventsOf(ds) == {d.event : d \in ds}

Init ==
    /\ HandlerInit
    /\ waiting = Log /\ outstanding = {} /\ acked = {}
    /\ lost = 0 /\ timeouts = 0 /\ disturbed = FALSE /\ repeated = {}

TypeOK ==
    /\ HandlerTypeOK
    /\ waiting \subseteq Log /\ acked \subseteq Log /\ repeated \subseteq Log
    /\ outstanding \subseteq Deliveries
    /\ lost \in 0..MaxLost /\ timeouts \in 0..MaxTimeouts
    /\ disturbed \in BOOLEAN

\* The group is created unless it exists, and the consumer connects to it.
Start(i) == BeginRun(i) /\ UNCHANGED serverVars

Cancel(i) == CancelRun(i) /\ disturbed' = TRUE
             /\ UNCHANGED <<waiting, outstanding, acked, lost, timeouts, repeated>>

\* The connection of i ends: what it has not answered waits again.
Disconnect(i) ==
    /\ outstanding' = outstanding \ ConnectionOf(i)
    /\ waiting' = waiting \union EventsOf(ConnectionOf(i))
    /\ disturbed' = TRUE
    /\ UNCHANGED <<acked, lost, timeouts, repeated>>

Crash(i) == stage[i] # "stopped" /\ Die(i) /\ Disconnect(i)

\* Recv returns SubscriptionDropped and Start returns.
Dropped(i) ==
    /\ stage[i] = "receive"
    /\ GoTo(i, "stopped") /\ Disconnect(i)
    /\ UNCHANGED <<limit, run, starts, cancelled, current, answer, goroutines, handled,
                   errors>>

ReceiveEvent(i, e) ==
    /\ e \in waiting \ SystemEvents
    /\ HandleEvent(i, e)
    /\ waiting' = waiting \ {e}
    /\ outstanding' = outstanding \union {Delivery(i, e)}
    /\ repeated' = IF e \in handled THEN repeated \union {e} ELSE repeated
    /\ UNCHANGED <<acked, lost, timeouts, disturbed>>

\* What an ack or a nack does that arrives: the server ignores it for an event
\* that has timed out.
Acknowledge(d) ==
    /\ outstanding' = outstanding \ {d}
    /\ acked' = IF d \in outstanding THEN acked \union {d.event} ELSE acked
    /\ UNCHANGED <<waiting, lost, timeouts, disturbed, repeated>>

GiveBack(d) ==
    /\ outstanding' = outstanding \ {d}
    /\ waiting' = IF d \in outstanding THEN waiting \union {d.event} ELSE waiting
    /\ UNCHANGED <<acked, lost, timeouts, disturbed, repeated>>

\* Ack and Nack return an error, or the server never hears of them: the loop
\* logs the error at most.
AnswerLost ==
    /\ lost < MaxLost /\ lost' = lost + 1 /\ disturbed' = TRUE
    /\ UNCHANGED <<waiting, outstanding, acked, timeouts, repeated>>

\* A faulty variant: a system event is skipped as in CatchUp.
SkipSystemEvent(i, e) ==
    /\ stage[i] = "receive" /\ e \in waiting \intersect SystemEvents
    /\ waiting' = waiting \ {e}
    /\ outstanding' = outstanding \union {Delivery(i, e)}
    /\ UNCHANGED <<handlerVars, acked, lost, timeouts, disturbed, repeated>>

\* A system event is acknowledged without being handled.
AckSystemEvent(i, e) ==
    /\ stage[i] = "receive" /\ e \in waiting \intersect SystemEvents
    /\ waiting' = waiting \ {e}
    /\ \/ acked' = acked \union {e} /\ UNCHANGED <<outstanding, lost, disturbed>>
       \/ /\ lost < MaxLost /\ lost' = lost + 1 /\ disturbed' = TRUE
          /\ outstanding' = outstanding \union {Delivery(i, e)}
          /\ UNCHANGED acked
    /\ UNCHANGED <<handlerVars, timeouts, repeated>>

StartHandler(i) == Acquire(i) /\ UNCHANGED serverVars

EndHandler(g) ==
    \E ok \in BOOLEAN : HandlerEnds(g, ok) /\ UNCHANGED serverVars

\* A faulty variant: ack and nack are swapped.
AckGivingBack(i) ==
    /\ Returns(i, TRUE, "receive")
    /\ GiveBack(Delivery(i, current[i])) \/ AnswerLost

Ack(i) ==
    /\ Returns(i, TRUE, "receive")
    /\ Acknowledge(Delivery(i, current[i])) \/ AnswerLost

Nack(i) ==
    /\ Returns(i, FALSE, "receive")
    /\ GiveBack(Delivery(i, current[i])) \/ AnswerLost

\* Whether the consumer a delivery was made to is still at it.
AtWork(d) ==
    /\ run[d.instance] = d.run /\ current[d.instance] = d.event
    /\ stage[d.instance] \in {"acquire", "wait"}

\* The server has waited for an answer long enough.
TimesOut(d) ==
    /\ d \in outstanding
    /\ IF AtWork(d) THEN timeouts < MaxTimeouts /\ timeouts' = timeouts + 1
                    ELSE UNCHANGED timeouts
    /\ outstanding' = outstanding \ {d}
    /\ waiting' = waiting \union {d.event}
    /\ disturbed' = TRUE
    /\ UNCHANGED <<handlerVars, acked, lost, repeated>>

Loop(i) ==
    \/ \E e \in Log : ReceiveEvent(i, e) \/ AckSystemEvent(i, e)
    \/ StartHandler(i) \/ Ack(i) \/ Nack(i)

Next ==
    \/ \E i \in Instances :
          Start(i) \/ Cancel(i) \/ Crash(i) \/ Dropped(i) \/ Loop(i)
    \/ \E g \in goroutines : EndHandler(g)
    \/ \E d \in outstanding : TimesOut(d)

Spec == Init /\ [][Next]_vars

\* As in CatchUp, but a consumer whose context has ended goes on receiving and
\* giving back until the client drops it, which it does however often an event
\* comes first.  An event that nobody is at does time out.
FairSpec ==
    /\ Spec
    /\ \A i \in Instances :
          /\ WF_vars(Loop(i))
          /\ SF_vars(cancelled[i] /\ Dropped(i))
          /\ WF_vars(limit[i] = Unlimited /\ \E g \in Running(i) : EndHandler(g))
    /\ \A d \in Deliveries : WF_vars(~AtWork(d) /\ TimesOut(d))

-----------------------------------------------------------------------------
\* An event is acknowledged only after it was handled (persistent.go:162-177),
\* whatever becomes of the context, the connection and the process.
AckedIsHandled == acked \intersect UserEvents \subseteq handled

\* An event comes back after it was handled only if an answer was lost or late or
\* a run has ended: one that is handled is acknowledged, and never given back.
RepeatedForAReason == repeated # {} => disturbed

\* The whole log is acknowledged in the end, over failing handlers, lost answers
\* and consumers that come and go, if some consumer goes on and none hangs.
EverythingAcked ==
    \/ \A i \in Instances : []<>(stage[i] = "stopped")
    \/ \E i \in Instances : <>[]Hangs(i)
    \/ <>(acked = Log)

\* "Start blocks until the context is cancelled": it does return then.
StopsWhenCancelled ==
    \A i \in Instances : cancelled[i] ~> stage[i] = "stopped"

\* "The handler blocks until the event is actually processed, preserving error
\* semantics needed for correct checkpointing and ack/nack", middleware.go:53-55:
\* an event is not given to a consumer while another one's handler is at it.
ProcessedBeforeAnswered ==
    timeouts = 0 => \A g, h \in goroutines : g.event = h.event => g = h
=============================================================================

------------------------------ MODULE CatchUp ------------------------------
(***************************************************************************)
(* The catch-up subscription, kurrentdb/catchup.go: instances with one id  *)
(* and one checkpoint store read a log, handle one event after the other,  *)
(* and store each position once it is handled.  An instance stops when its *)
(* context ends, when the server drops it, when a handler or the store     *)
(* returns an error, or when its process dies; it may be started again.    *)
(***************************************************************************)
EXTENDS ConcurrentHandler

CONSTANTS LogEnd,        \* the log has the positions 0..LogEnd-1
          SystemEvents,  \* the positions of events whose type begins with "$"
          Stores,        \* whether an instance may have a checkpoint store
          MaxFailures    \* how many calls of StoreCheckpoint may fail

ASSUME CatchUpAssumption ==
    /\ LogEnd \in Nat \ {0} /\ MaxFailures \in Nat
    /\ Log = 0..(LogEnd - 1) /\ SystemEvents \subseteq Log
    /\ Stores \subseteq BOOLEAN

VARIABLES stores,      \* whether each instance has a checkpoint store
          next,        \* the position it receives next
          checkpoint,  \* the stored position, or NoCheckpoint
          failures,    \* the calls of StoreCheckpoint that have failed
          overlapped   \* history: whether two instances have run at once

catchUpVars == <<stores, next, checkpoint, failures, overlapped>>
vars == <<handlerVars, catchUpVars>>

NoCheckpoint == -1
UserEvents == Log \ SystemEvents

Init ==
    /\ HandlerInit
    /\ stores \in [Instances -> Stores]
    /\ next = [i \in Instances |-> 0]
    /\ checkpoint = NoCheckpoint
    /\ failures = 0
    /\ overlapped = FALSE

TypeOK ==
    /\ HandlerTypeOK
    /\ stores \in [Instances -> Stores]
    /\ next \in [Instances -> 0..LogEnd]
    /\ checkpoint \in Log \union {NoCheckpoint}
    /\ failures \in 0..MaxFailures
    /\ overlapped \in BOOLEAN

\* Faulty variants: it begins at checkpoint + 1, exclusively, or not after it.
SubscribedOneTooFar(i) == IF stores[i] THEN checkpoint + 2 ELSE 0

SubscribedAtStart(i) == 0

\* The client begins after the position it is given, or at the start.
SubscribedAt(i) == IF stores[i] THEN checkpoint + 1 ELSE 0

\* The checkpoint is loaded and the subscription begins after it.  A load or a
\* subscription that fails returns before anything has changed.
Start(i) ==
    /\ BeginRun(i)
    /\ next' = [next EXCEPT ![i] = SubscribedAt(i)]
    /\ overlapped' = (overlapped \/ \E j \in Instances \ {i} : stage[j] # "stopped")
    /\ UNCHANGED <<stores, checkpoint, failures>>

Cancel(i) == CancelRun(i) /\ UNCHANGED catchUpVars

Crash(i) ==
    /\ Die(i)
    /\ UNCHANGED <<stores, next, checkpoint, failures, overlapped>>

SkipEvent(i) ==
    /\ stage[i] = "receive" /\ next[i] \in SystemEvents
    /\ next' = [next EXCEPT ![i] = @ + 1]
    /\ UNCHANGED <<handlerVars, stores, checkpoint, failures, overlapped>>

\* An event may still be received after the context has ended.
ReceiveEvent(i) ==
    /\ next[i] \in UserEvents
    /\ HandleEvent(i, next[i])
    /\ next' = [next EXCEPT ![i] = @ + 1]
    /\ UNCHANGED <<stores, checkpoint, failures, overlapped>>

\* Recv returns SubscriptionDropped: nil is returned if the context has ended,
\* the error otherwise.
Dropped(i) ==
    /\ stage[i] = "receive"
    /\ GoTo(i, "stopped")
    /\ UNCHANGED <<limit, run, starts, cancelled, current, answer, goroutines, handled,
                   errors, stores, next, checkpoint, failures, overlapped>>

StartHandler(i) == Acquire(i) /\ UNCHANGED catchUpVars

EndHandler(g) ==
    \E ok \in BOOLEAN : HandlerEnds(g, ok) /\ UNCHANGED catchUpVars

EventHandled(i) ==
    Returns(i, TRUE, IF stores[i] THEN "store" ELSE "receive") /\ UNCHANGED catchUpVars

\* Start returns the error of its handler.
EventFailed(i) ==
    /\ Returns(i, FALSE, "stopped")
    /\ UNCHANGED <<stores, next, checkpoint, failures, overlapped>>

StoreCheckpoint(i) ==
    /\ stage[i] = "store"
    /\ checkpoint' = current[i]
    /\ GoTo(i, "receive")
    /\ UNCHANGED <<limit, run, starts, cancelled, current, answer, goroutines, handled,
                   errors, stores, next, failures, overlapped>>

\* A faulty variant: a failure of the store is logged and the loop goes on.
StoreFailedContinues(i) ==
    /\ stage[i] = "store"
    /\ failures < MaxFailures
    /\ failures' = failures + 1
    /\ GoTo(i, "receive")
    /\ UNCHANGED <<limit, run, starts, cancelled, current, answer, goroutines, handled,
                   errors, stores, next, checkpoint, overlapped>>

\* Start returns the error of the store, which may have written nonetheless.
StoreFailed(i) ==
    /\ stage[i] = "store"
    /\ failures < MaxFailures
    /\ failures' = failures + 1
    /\ checkpoint' \in {checkpoint, current[i]}
    /\ GoTo(i, "stopped")
    /\ UNCHANGED <<limit, run, starts, cancelled, current, answer, goroutines, handled,
                   errors, stores, next, overlapped>>

Loop(i) ==
    \/ SkipEvent(i) \/ ReceiveEvent(i) \/ StartHandler(i)
    \/ EventHandled(i) \/ EventFailed(i) \/ StoreCheckpoint(i)

Next ==
    \/ \E i \in Instances :
          \/ Start(i) \/ Cancel(i) \/ Crash(i) \/ Dropped(i) \/ StoreFailed(i)
          \/ Loop(i)
    \/ \E g \in goroutines : EndHandler(g)

Spec == Init /\ [][Next]_vars

\* The loop goes on, a subscription whose context has ended is dropped, and a
\* handler that is called directly returns.  A handler behind WithConcurrency
\* may hang, and nobody has to start, cancel or drop an instance.
FairSpec ==
    /\ Spec
    /\ \A i \in Instances :
          /\ WF_vars(Loop(i))
          /\ WF_vars(cancelled[i] /\ Dropped(i))
          /\ WF_vars(limit[i] = Unlimited /\ \E g \in Running(i) : EndHandler(g))

-----------------------------------------------------------------------------
\* A position is stored only after its event was handled (catchup.go:166), and
\* everything before it was handled before: also when instances overlap, when
\* handlers are left behind and when the store fails.
NoEventLost ==
    \A p \in UserEvents : p <= checkpoint => p \in handled

\* As long as no two instances overlap, a restart repeats at most one event: all
\* others that were handled are at or before the checkpoint, which never moves back.
AtMostOneRepeated ==
    (~overlapped /\ \A i \in Instances : stores[i]) =>
        Cardinality({p \in handled : p > checkpoint}) <= 1

CheckpointMovesForward ==
    [][~overlapped => checkpoint' >= checkpoint]_vars

\* "Start blocks until ctx is cancelled": it does return then, whatever a handler
\* behind WithConcurrency does.
StopsWhenCancelled ==
    \A i \in Instances : cancelled[i] ~> stage[i] = "stopped"

\* An instance that is not stopped, and whose handlers return, handles everything,
\* unless it has WithConcurrency(0).
HandlesEverything ==
    \A i \in Instances :
        \/ []<>(stage[i] = "stopped")
        \/ <>[]Hangs(i)
        \/ <>(UserEvents \subseteq handled)
=============================================================================

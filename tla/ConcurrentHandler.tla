------------------------- MODULE ConcurrentHandler -------------------------
(***************************************************************************)
(* How the subscriptions of kurrentdb/ call their event handler: directly, *)
(* or through WithConcurrency (core/subscription/middleware.go), which     *)
(* runs the handler in a goroutine, waits for it, and leaves it running    *)
(* when the context ends first.  Every Start builds its own chain, so the  *)
(* slots of a run are its own.                                             *)
(***************************************************************************)
EXTENDS Integers, FiniteSets

CONSTANTS Instances,    \* subscriptions with the same id, in one process or several
          Log,          \* the events they may receive
          Limits,       \* the limits of WithConcurrency
          Unlimited,    \* the limit of a handler without it
          MaxRuns,      \* how many times instances may be started, all in all
          MaxErrors     \* how many times handlers may return an error

ASSUME HandlerAssumption ==
    /\ Log # {}
    /\ Limits \subseteq Nat \union {Unlimited} /\ Unlimited \notin Nat
    /\ MaxRuns \in Nat /\ MaxErrors \in Nat

VARIABLES limit,       \* the limit each instance is configured with
          stage,       \* where its Start is
          run,         \* the number of its run, 0 before the first
          starts,      \* the number of the last run of any instance
          cancelled,   \* whether the context of its run has ended
          current,     \* the event it is handling
          answer,      \* what the handler it waits for has returned
          goroutines,  \* the handlers running, awaited or left behind
          handled,     \* history: the events some handler has handled without error
          errors       \* the errors handlers have returned

handlerVars == <<limit, stage, run, starts, cancelled, current, answer, goroutines,
                 handled, errors>>

Stages == {"stopped", "receive", "acquire", "wait", "store"}

Goroutines ==
    [instance : Instances, run : 1..MaxRuns, event : Log, awaited : BOOLEAN]

HandlerInit ==
    /\ limit \in [Instances -> Limits]
    /\ stage = [i \in Instances |-> "stopped"]
    /\ run = [i \in Instances |-> 0]
    /\ starts = 0
    /\ cancelled = [i \in Instances |-> FALSE]
    /\ current = [i \in Instances |-> CHOOSE e \in Log : TRUE]
    /\ answer = [i \in Instances |-> "none"]
    /\ goroutines = {} /\ handled = {} /\ errors = 0

HandlerTypeOK ==
    /\ limit \in [Instances -> Limits]
    /\ stage \in [Instances -> Stages]
    /\ run \in [Instances -> 0..starts]
    /\ starts \in 0..MaxRuns
    /\ cancelled \in [Instances -> BOOLEAN]
    /\ current \in [Instances -> Log]
    /\ answer \in [Instances -> {"none", "ok", "error"}]
    /\ goroutines \subseteq Goroutines
    /\ handled \subseteq Log
    /\ errors \in 0..MaxErrors

\* The handlers that hold a slot of the run of i.
Running(i) == {g \in goroutines : g.instance = i /\ g.run = run[i]}

Awaited(i) == {g \in Running(i) : g.awaited}

\* HandleEvent does not return: its handler hangs, or there never is a slot.
Hangs(i) == Awaited(i) # {} \/ (limit[i] = 0 /\ stage[i] = "acquire")

GoTo(i, s) == stage' = [stage EXCEPT ![i] = s]

\* A faulty variant: one chain for all runs of a subscription, and one semaphore.
SameRun(i) == run[i]

\* A new chain has slots of its own.
NewRun(i) == starts + 1

\* Start: a new chain, a new context.
BeginRun(i) ==
    /\ stage[i] = "stopped" /\ starts < MaxRuns
    /\ starts' = starts + 1
    /\ run' = [run EXCEPT ![i] = NewRun(i)]
    /\ cancelled' = [cancelled EXCEPT ![i] = FALSE]
    /\ GoTo(i, "receive")
    /\ UNCHANGED <<limit, current, answer, goroutines, handled, errors>>

CancelRun(i) ==
    /\ stage[i] # "stopped" /\ ~cancelled[i]
    /\ cancelled' = [cancelled EXCEPT ![i] = TRUE]
    /\ UNCHANGED <<limit, stage, run, starts, current, answer, goroutines, handled, errors>>

\* The process of i dies with every handler it runs.
Die(i) ==
    /\ stage' = [stage EXCEPT ![i] = "stopped"]
    /\ answer' = [answer EXCEPT ![i] = "none"]
    /\ goroutines' = {g \in goroutines : g.instance # i}
    /\ UNCHANGED <<limit, run, starts, cancelled, current, handled, errors>>

\* The loop calls HandleEvent.
HandleEvent(i, e) ==
    /\ stage[i] = "receive"
    /\ current' = [current EXCEPT ![i] = e]
    /\ GoTo(i, "acquire")
    /\ UNCHANGED <<limit, run, starts, cancelled, answer, goroutines, handled, errors>>

\* A faulty variant: the last slot is never given away.
FreeSlotSparingOne(i) ==
    limit[i] # Unlimited => Cardinality(Running(i)) < limit[i] - 1

\* A limit of 0 makes a channel without a buffer, and never a slot.
FreeSlot(i) == limit[i] # Unlimited => Cardinality(Running(i)) < limit[i]

\* A handler is started once there is a slot for it.
Acquire(i) ==
    /\ stage[i] = "acquire"
    /\ FreeSlot(i)
    /\ goroutines' = goroutines \union
         {[instance |-> i, run |-> run[i], event |-> current[i], awaited |-> TRUE]}
    /\ GoTo(i, "wait")
    /\ UNCHANGED <<limit, run, starts, cancelled, current, answer, handled, errors>>

\* A handler returns and its slot is free; only an awaited one is listened to.
HandlerEnds(g, ok) ==
    /\ g \in goroutines
    /\ ok \/ errors < MaxErrors
    /\ goroutines' = goroutines \ {g}
    /\ handled' = IF ok THEN handled \union {g.event} ELSE handled
    /\ errors' = IF ok THEN errors ELSE errors + 1
    /\ answer' = IF g.awaited
                 THEN [answer EXCEPT ![g.instance] = IF ok THEN "ok" ELSE "error"]
                 ELSE answer
    /\ UNCHANGED <<limit, stage, run, starts, cancelled, current>>

AnsweredBy(i, ok) == stage[i] = "wait" /\ answer[i] = (IF ok THEN "ok" ELSE "error")

ContextEnded(i) == cancelled[i] /\ limit[i] # Unlimited /\ stage[i] \in {"acquire", "wait"}

\* Faulty variants: the end of the context is not noticed, or is no error.
MayReturnAnswerOnly(i, ok) == AnsweredBy(i, ok)

MayReturnNilAtEnd(i, ok) == AnsweredBy(i, ok) \/ (ok /\ ContextEnded(i))

\* The two selects: there is the answer of the handler, or the error of the
\* context, even when there is an answer too.
MayReturn(i, ok) == AnsweredBy(i, ok) \/ (~ok /\ ContextEnded(i))

\* HandleEvent returns to the loop, which goes on to stage s; its handler is
\* left behind if it runs.
Returns(i, ok, s) ==
    /\ MayReturn(i, ok)
    /\ answer' = [answer EXCEPT ![i] = "none"]
    /\ goroutines' = (goroutines \ Awaited(i)) \union
                       {[g EXCEPT !.awaited = FALSE] : g \in Awaited(i)}
    /\ GoTo(i, s)
    /\ UNCHANGED <<limit, run, starts, cancelled, current, handled, errors>>
=============================================================================

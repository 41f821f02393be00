---------------------------- MODULE Partitioning ----------------------------
(***************************************************************************)
(* WithPartitioning of core/subscription/middleware.go: callers hand their *)
(* events to workers, one for each partition, over buffered channels, and  *)
(* wait for the answer.  The workers belong to the context of the caller   *)
(* that came first; when it ends, the channels are closed one by one.      *)
(***************************************************************************)
EXTENDS Integers, Sequences, FiniteSets

CONSTANTS Callers,     \* the goroutines that call HandleEvent
          Keys,        \* the partition keys of events
          Count,       \* how many partitions there are
          HashKey,     \* the partition of each key, hashKey(key, count)
          Capacity,    \* the buffer of a channel, 64 in the code
          MaxCalls,    \* how many events each caller has, a function
          None         \* no caller, no work

Partitions == 1..Count
Works == [caller : Callers, number : Nat, key : Keys]

ASSUME PartitioningAssumption ==
    /\ Count \in Nat \ {0} /\ Capacity \in Nat \ {0} /\ MaxCalls \in [Callers -> Nat]
    /\ HashKey \in [Keys -> 1..Count]
    /\ None \notin Callers \union Works

VARIABLES workersOf,  \* the caller whose context started the workers, or None
          ctxDone,    \* whether the context of a caller has ended
          open,       \* the partitions whose channel is open
          channel,    \* the works in the buffer of each channel
          working,    \* the work each worker is at, or None
          number,     \* the number of the last call of each caller
          call,       \* the work a caller is about, and where its call is
          answers,    \* history: the works with an answer, and the answer
          accepted,   \* history: the works a channel has accepted
          ended,      \* history: the works whose handler has returned nil or an error
          panicked    \* whether the process has panicked

vars == <<workersOf, ctxDone, open, channel, working, number, call, answers, accepted,
          ended, panicked>>

NoCall == [at |-> "none"]
Calling(c, stage) == call[c].at = stage
Answer(w, a) == [work |-> w, answer |-> a]
AnswersOf(w) == {r \in ended : r.work = w}

Init ==
    /\ workersOf = None /\ open = Partitions
    /\ ctxDone = [c \in Callers |-> FALSE]
    /\ channel = [p \in Partitions |-> << >>]
    /\ working = [p \in Partitions |-> None]
    /\ number = [c \in Callers |-> 0]
    /\ call = [c \in Callers |-> NoCall]
    /\ answers = {} /\ accepted = {} /\ ended = {}
    /\ panicked = FALSE

Replies == [work : Works, answer : {"ok", "error"}]

TypeOK ==
    /\ workersOf \in Callers \union {None}
    /\ ctxDone \in [Callers -> BOOLEAN]
    /\ open \subseteq Partitions
    /\ channel \in [Partitions -> Seq(Works)]
    /\ \A p \in Partitions : Len(channel[p]) <= Capacity
    /\ working \in [Partitions -> Works \union {None}]
    /\ number \in [Callers -> Nat] /\ \A c \in Callers : number[c] <= MaxCalls[c]
    /\ call \in [Callers -> {NoCall} \union [at : {"send", "wait"}, work : Works]]
    /\ answers \subseteq Replies /\ ended \subseteq Replies
    /\ accepted \subseteq Works
    /\ panicked \in BOOLEAN

\* The context of the workers, a child of the one that started them.
WorkersDone == workersOf # None /\ ctxDone[workersOf]

\* A faulty variant: the partitions are served in turn.
ChannelInTurn(w) == 1 + (w.number % Count)

ChannelOf(w) == HashKey[w.key]

\* HandleEvent: the first call starts the workers.
HandleEvent(c, k) ==
    /\ ~panicked /\ Calling(c, "none") /\ number[c] < MaxCalls[c]
    /\ workersOf' = IF workersOf = None THEN c ELSE workersOf
    /\ number' = [number EXCEPT ![c] = @ + 1]
    /\ call' = [call EXCEPT ![c] =
                  [at |-> "send",
                   work |-> [caller |-> c, number |-> number[c] + 1, key |-> k]]]
    /\ UNCHANGED <<ctxDone, open, channel, working, answers, accepted, ended, panicked>>

\* A faulty variant: the buffer is one longer.
HasRoomForOneMore(p) == Len(channel[p]) <= Capacity

HasRoom(p) == Len(channel[p]) < Capacity

\* The select of the sending: the channel is open and has room,
Send(c) ==
    /\ ~panicked /\ Calling(c, "send")
    /\ LET w == call[c].work  p == ChannelOf(w)
       IN  /\ p \in open /\ HasRoom(p)
           /\ channel' = [channel EXCEPT ![p] = Append(@, w)]
           /\ accepted' = accepted \union {w}
    /\ call' = [call EXCEPT ![c].at = "wait"]
    /\ UNCHANGED <<workersOf, ctxDone, open, working, number, answers, ended, panicked>>

\* or it is closed, and sending to it panics: select may choose it,
SendPanics(c) ==
    /\ ~panicked /\ Calling(c, "send")
    /\ ChannelOf(call[c].work) \notin open
    /\ panicked' = TRUE
    /\ UNCHANGED <<workersOf, ctxDone, open, channel, working, number, call, answers,
                   accepted, ended>>

\* The call of c returns a.
Return(c, a) ==
    /\ answers' = answers \union {Answer(call[c].work, a)}
    /\ call' = [call EXCEPT ![c] = NoCall]
    /\ UNCHANGED <<workersOf, ctxDone, open, channel, working, number, accepted, ended,
                   panicked>>

\* or the context of the call or that of the workers has ended.
SendRefused(c) ==
    /\ ~panicked /\ Calling(c, "send") /\ (ctxDone[c] \/ WorkersDone)
    /\ Return(c, "error")

\* The select of the waiting: the worker has answered, or the context has ended.
Answered(c) ==
    /\ ~panicked /\ Calling(c, "wait")
    /\ \E r \in AnswersOf(call[c].work) : Return(c, r.answer)

\* A faulty variant: a call whose context ends returns nil.
AbandonedQuietly(c) ==
    /\ ~panicked /\ Calling(c, "wait") /\ ctxDone[c]
    /\ Return(c, "ok")

Abandoned(c) ==
    /\ ~panicked /\ Calling(c, "wait") /\ ctxDone[c]
    /\ Return(c, "error")

\* Faulty variants: a work stays in the channel, or is left there at the end.
AfterPeek(p) == channel[p]

HasWorkWhileOpen(p) == channel[p] # << >> /\ p \in open

HasWork(p) == channel[p] # << >>

AfterTake(p) == Tail(channel[p])

\* A worker takes the next work, also from a channel that is closed.
TakeWork(p) ==
    /\ ~panicked /\ workersOf # None /\ working[p] = None /\ HasWork(p)
    /\ working' = [working EXCEPT ![p] = Head(channel[p])]
    /\ channel' = [channel EXCEPT ![p] = AfterTake(p)]
    /\ UNCHANGED <<workersOf, ctxDone, open, number, call, answers, accepted, ended,
                   panicked>>

\* A faulty variant: the answer is sent when there is no error.
FinishWorkSilently(p, a) ==
    /\ ~panicked /\ working[p] # None
    /\ ended' = IF a = "ok" THEN ended \union {Answer(working[p], a)} ELSE ended
    /\ working' = [working EXCEPT ![p] = None]
    /\ UNCHANGED <<workersOf, ctxDone, open, channel, number, call, answers, accepted,
                   panicked>>

\* The handler returns, and its answer waits in errChan whoever listens.
FinishWork(p, a) ==
    /\ ~panicked /\ working[p] # None
    /\ ended' = ended \union {Answer(working[p], a)}
    /\ working' = [working EXCEPT ![p] = None]
    /\ UNCHANGED <<workersOf, ctxDone, open, channel, number, call, answers, accepted,
                   panicked>>

CancelContext(c) ==
    /\ ~panicked /\ ~ctxDone[c]
    /\ ctxDone' = [ctxDone EXCEPT ![c] = TRUE]
    /\ UNCHANGED <<workersOf, open, channel, working, number, call, answers, accepted,
                   ended, panicked>>

\* The goroutine that waits for the context of the workers.
CloseChannel ==
    /\ ~panicked /\ WorkersDone /\ open # {}
    /\ open' = open \ {CHOOSE p \in open : \A q \in open : p <= q}
    /\ UNCHANGED <<workersOf, ctxDone, channel, working, number, call, answers, accepted,
                   ended, panicked>>

Sending(c) == Send(c) \/ SendPanics(c) \/ SendRefused(c)
Waiting(c) == Answered(c) \/ Abandoned(c)
Working(p) == TakeWork(p) \/ \E a \in {"ok", "error"} : FinishWork(p, a)

Next ==
    \/ \E c \in Callers :
          \/ \E k \in Keys : HandleEvent(c, k)
          \/ Sending(c) \/ Waiting(c) \/ CancelContext(c)
    \/ \E p \in Partitions : Working(p)
    \/ CloseChannel

Spec == Init /\ [][Next]_vars

\* Goroutines that can go on do, and handlers return.  A channel serves its
\* senders in turn, so one that waits for room gets it.
FairSpec ==
    /\ Spec
    /\ \A c \in Callers : SF_vars(Sending(c)) /\ WF_vars(Waiting(c))
    /\ \A p \in Partitions : WF_vars(Working(p))
    /\ WF_vars(CloseChannel)

-----------------------------------------------------------------------------
Begun == {r.work : r \in ended} \union ({working[p] : p \in Partitions} \ {None})
Done == {r.work : r \in ended}

\* "Events with the same key always go to the same partition so ordering is
\* preserved per key": the handler of an event begins after those of all earlier
\* events of its caller and key that were accepted have returned, also when their
\* calls were abandoned.
KeyOrder ==
    \A v \in accepted, w \in Begun :
        v.caller = w.caller /\ v.key = w.key /\ v.number < w.number => v \in Done

\* A call that returns nil has had its event handled without an error, and none is
\* told of another's event.
AnswerIsOfHandler ==
    \A r \in answers : r.answer = "ok" => r \in ended

\* An event is handled at most once, and ends with one answer.
HandledOnce ==
    /\ \A r, s \in ended : r.work = s.work => r = s
    /\ \A p \in Partitions : working[p] \notin Done

\* What a channel has accepted is handled, closed or not: the workers empty it.
AcceptedIsHandled == <>[](accepted = Done \/ panicked)

\* Every call returns, whether its context ends or the one of the workers.
CallsReturn ==
    \A c \in Callers : ~Calling(c, "none") ~> (Calling(c, "none") \/ panicked)

\* "If context was cancelled, treat as clean shutdown", catchup.go:94: the end of
\* a context panics nowhere.  A channel may be closed when its sender gets there.
CleanShutdown == ~panicked
=============================================================================

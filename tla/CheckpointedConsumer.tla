------------------------ MODULE CheckpointedConsumer ------------------------
(***************************************************************************)
(* A subscriber that handles events concurrently and reports each to a     *)
(* CheckpointCommitter.  The repository has the committer and the loop     *)
(* that numbers the events and resumes after the checkpoint                *)
(* (kurrentdb/catchup.go), and leaves it to the application to put them    *)
(* together: the handlers here are that application.  The process may      *)
(* crash at any step and is started again with a new committer.            *)
(***************************************************************************)
EXTENDS CheckpointCommitter, Sequences

CONSTANTS LogEnd,        \* the subscribed log has the positions 0..LogEnd-1
          SystemEvents,  \* the positions of events whose type begins with "$"
          BatchSizes,    \* the batch sizes a committer may be made with
          Intervals,     \* the intervals: FALSE for none
          MaxInFlight,   \* how many handlers may run at once
          MaxRestarts,   \* how many times the process may be started again
          MaxCloses      \* how many times it may be closed

ASSUME ConsumerAssumption ==
    /\ LogEnd \in Nat /\ MaxInFlight \in Nat /\ MaxRestarts \in Nat /\ MaxCloses \in Nat
    /\ SystemEvents \subseteq 0..(LogEnd - 1)
    /\ BatchSizes \subseteq Nat /\ Intervals \subseteq BOOLEAN

VARIABLES next,       \* the next position the log delivers
          delivered,  \* the positions of this run's events, by sequence number
          inFlight,   \* the sequence numbers being handled
          ready,      \* handled, and not yet given to Commit
          refused,    \* those for which Commit returned an error
          closing,    \* "open", "stopped" between the halves of Close, "closed"
          closes,     \* calls of Close so far
          restarts,   \* restarts so far
          handled,    \* history: the positions ever handled
          completed   \* history: the sequence numbers given to Commit in this run

hostVars == <<next, delivered, inFlight, ready, refused, closing, closes, restarts,
              handled, completed>>
vars == <<committerVars, hostVars>>

UserEvents == (0..(LogEnd - 1)) \ SystemEvents
Sequences == 1..Len(delivered)

Init ==
    /\ \E b \in BatchSizes, i \in Intervals : committer = NewCheckpointCommitter(b, i)
    /\ checkpoint = NoCheckpoint /\ failures = 0
    /\ next = 0 /\ delivered = <<>>
    /\ inFlight = {} /\ ready = {} /\ refused = {}
    /\ closing = "open" /\ closes = 0 /\ restarts = 0
    /\ handled = {} /\ completed = {}

TypeOK ==
    /\ CommitterTypeOK
    /\ next \in 0..LogEnd
    /\ delivered \in Seq(UserEvents)
    /\ inFlight \subseteq Sequences /\ ready \subseteq Sequences
    /\ refused \subseteq Sequences /\ completed \subseteq Sequences
    /\ closing \in {"open", "stopped", "closed"}
    /\ closes \in 0..MaxCloses /\ restarts \in 0..MaxRestarts
    /\ handled \subseteq UserEvents

\* The loop receives a system event, which gets no sequence number.
SkipEvent ==
    /\ next \in SystemEvents /\ closing = "open"
    /\ next' = next + 1
    /\ UNCHANGED <<committerVars, delivered, inFlight, ready, refused, closing,
                   closes, restarts, handled, completed>>

\* The loop numbers an event and hands it to a handler, unless it is closed.
DeliverEvent ==
    /\ next \in UserEvents /\ closing = "open"
    /\ Cardinality(inFlight) < MaxInFlight
    /\ delivered' = Append(delivered, next)
    /\ inFlight' = inFlight \union {Len(delivered) + 1}
    /\ next' = next + 1
    /\ UNCHANGED <<committerVars, ready, refused, closing, closes, restarts,
                   handled, completed>>

FinishHandling(s) ==
    /\ s \in inFlight
    /\ inFlight' = inFlight \ {s}
    /\ ready' = ready \union {s}
    /\ handled' = handled \union {delivered[s]}
    /\ UNCHANGED <<committerVars, next, delivered, refused, closing, closes,
                   restarts, completed>>

\* A handler reports its event, or reports it again after an error.
CommitEvent(s) ==
    /\ s \in ready \union refused
    /\ \E ok \in BOOLEAN :
          /\ Commit(delivered[s], s, ok)
          /\ refused' = IF ok THEN refused \ {s} ELSE refused \union {s}
    /\ ready' = ready \ {s}
    /\ completed' = completed \union {s}
    /\ UNCHANGED <<next, delivered, inFlight, closing, closes, restarts, handled>>

CommitterTimer == (Tick \/ TimerFires \/ TimerFlush) /\ UNCHANGED hostVars

BeginClose ==
    /\ closing = "open" /\ closes < MaxCloses
    /\ StopTimer
    /\ closing' = "stopped" /\ closes' = closes + 1
    /\ UNCHANGED <<next, delivered, inFlight, ready, refused, restarts, handled,
                   completed>>

FinishClose(ok) ==
    /\ closing = "stopped"
    /\ Flush(ok)
    /\ closing' = "closed"
    /\ UNCHANGED <<next, delivered, inFlight, ready, refused, closes, restarts,
                   handled, completed>>

\* A faulty restart that numbers events from 1 and keeps the old committer.
RestartKeepingCommitter ==
    /\ restarts < MaxRestarts
    /\ restarts' = restarts + 1
    /\ next' = checkpoint + 1
    /\ delivered' = <<>> /\ inFlight' = {} /\ ready' = {} /\ refused' = {}
    /\ completed' = {} /\ closing' = "open"
    /\ UNCHANGED <<committerVars, closes, handled>>

\* The process stops, closed or not, and a new one resumes after the checkpoint.
Restart ==
    /\ restarts < MaxRestarts
    /\ restarts' = restarts + 1
    /\ committer' = NewCheckpointCommitter(committer.batchSize, committer.interval)
    /\ next' = checkpoint + 1
    /\ delivered' = <<>> /\ inFlight' = {} /\ ready' = {} /\ refused' = {}
    /\ completed' = {} /\ closing' = "open"
    /\ UNCHANGED <<checkpoint, failures, closes, handled>>

Next ==
    \/ SkipEvent \/ DeliverEvent
    \/ \E s \in Sequences : FinishHandling(s) \/ CommitEvent(s)
    \/ CommitterTimer
    \/ BeginClose \/ \E ok \in BOOLEAN : FinishClose(ok)
    \/ Restart

Spec == Init /\ [][Next]_vars

\* The application keeps receiving, its handlers end and report their event
\* once, the clock and the timer's goroutines run, and a Close that has begun
\* ends.  Nobody has to report again, to close or to restart.
Fairness ==
    /\ WF_vars(SkipEvent) /\ WF_vars(DeliverEvent)
    /\ \A s \in 1..LogEnd :
          WF_vars(FinishHandling(s)) /\ WF_vars(s \in ready /\ CommitEvent(s))
    /\ WF_vars(CommitterTimer)
    /\ WF_vars(\E ok \in BOOLEAN : FinishClose(ok))

FairSpec == Spec /\ Fairness

\* The application also repeats a Commit that returned an error.
RetryingSpec ==
    FairSpec /\ \A s \in 1..LogEnd : WF_vars(s \in refused /\ CommitEvent(s))

-----------------------------------------------------------------------------
\* The claim of committer.go:13: a subscriber that resumes after the stored
\* checkpoint has handled everything before it, in this run or an earlier one.
NoEventLost ==
    \A p \in UserEvents : p <= checkpoint => p \in handled

\* Gap detection (committer.go:84) is neither early nor late, whatever the order
\* of the Commit calls, failed stores and repeated calls in between: the
\* frontier ends exactly the run of events completed without a gap, and at its
\* position.
ExactFrontier ==
    /\ EndsRun(0, Frontier(committer), completed)
    /\ committer.hasUncommittedPos =>
          committer.uncommittedPos = delivered[committer.uncommittedSeq]

\* A Close whose flush succeeds leaves nothing behind (committer.go:163): the
\* stored checkpoint covers every event completed without a gap.
CloseStoresFrontier ==
    [][\A n \in Sequences :
          1..n \subseteq completed /\ FinishClose(TRUE) => checkpoint' >= delivered[n]]_vars

\* What the committer writes only moves forward past handled events, over
\* crashes, restarts and failed or half-failed stores (committer.go:128).
Progress == INSTANCE CheckpointProgress
CheckpointIsProgress == Progress!ProgressSpec

\* "interval: commit at least this often" (committer.go:36): a completed event
\* does not stay out of the store because no later event arrives.
EventuallyStored ==
    \A p \in UserEvents :
        committer.hasUncommittedPos /\ committer.uncommittedPos = p ~> checkpoint >= p

\* So it is unless the store fails or the committer is closed, also when the process
\* is restarted with events completed and not stored.
StoredUnlessFailed ==
    \A p \in UserEvents :
        /\ committer.interval
        /\ committer.hasUncommittedPos /\ committer.uncommittedPos = p
        ~> checkpoint >= p \/ failures > 0 \/ closing # "open"

\* Everything is handled, over restarts, and the checkpoint reaches the end of the
\* log, unless the store fails or the committer is closed for good.
EventuallyCaughtUp ==
    \/ <>[](closing # "open") \/ <>(failures > 0) \/ ~committer.interval
    \/ <>[](/\ handled = UserEvents
            /\ \A p \in UserEvents : p <= checkpoint)

\* "batchSize: commit after this many events" (committer.go:35): no more than a
\* batch of completed events is out of the store after a successful Commit.
BatchBoundsUncommitted ==
    committer.batchSize > 0 /\ committer.hasUncommittedPos /\ failures = 0 =>
        committer.uncommittedSeq - committer.lastCommittedSeq < committer.batchSize
=============================================================================

--------------------- MODULE CheckpointedConsumerProofs ---------------------
(***************************************************************************)
(* Proofs about CheckpointedConsumer, for every log, every batch size and  *)
(* interval, and any number of handlers, failed stores and restarts.       *)
(***************************************************************************)
EXTENDS CheckpointedConsumer, TLAPS

\* Sequence numbers follow the order of the log, and no event before "next" is
\* forgotten: it has been handled, or a handler is at it.
InOrder ==
    /\ \A i, j \in Sequences : i < j => delivered[i] < delivered[j]
    /\ \A i \in Sequences : delivered[i] < next

Accounted ==
    /\ \A p \in UserEvents :
          p < next => p \in handled \/ \E s \in inFlight : delivered[s] = p
    /\ \A s \in Sequences : s \notin inFlight => delivered[s] \in handled
    /\ \A s \in completed \union ready : s \notin inFlight
    /\ refused \subseteq completed

\* What the committer knows is what it has been told.
Faithful ==
    /\ committer.hasUncommittedPos => committer.uncommittedSeq \in completed
    /\ \A s \in DOMAIN committer.pending :
          s \in completed /\ committer.pending[s] = delivered[s]
    /\ \A s \in completed :
          s \in DOMAIN committer.pending \/ s \in 1..Frontier(committer)

\* The checkpoint is at an event of this log, and not beyond the frontier.
Behind ==
    /\ checkpoint \in UserEvents \union {NoCheckpoint}
    /\ checkpoint < next
    /\ committer.hasUncommittedPos => checkpoint <= committer.uncommittedPos
    /\ \A s \in Sequences : s > Frontier(committer) => checkpoint < delivered[s]

IInv ==
    /\ TypeOK /\ InOrder /\ Accounted /\ Faithful /\ Behind
    /\ ExactFrontier /\ NoEventLost

-----------------------------------------------------------------------------
\* storeUncommittedLocked moves neither the frontier nor what is pending, and
\* writes the frontier's position or nothing.
LEMMA StoreKeepsFrontier ==
    ASSUME CommitterTypeOK, NEW com, IsCommitter(com), NEW ok \in BOOLEAN,
           StoreUncommitted(com, ok)
    PROVE  /\ CommitterTypeOK'
           /\ committer'.pending = com.pending
           /\ Frontier(committer') = Frontier(com)
           /\ \/ checkpoint' = checkpoint
              \/ com.hasUncommittedPos /\ checkpoint' = com.uncommittedPos
           /\ committer'.hasUncommittedPos =>
                com.hasUncommittedPos /\ committer'.uncommittedPos = com.uncommittedPos
           /\ committer'.hasUncommittedPos =>
                committer'.uncommittedSeq = com.uncommittedSeq
<1>1. CASE ~com.hasUncommittedPos
  BY <1>1 DEF StoreUncommitted, CommitterTypeOK, IsCommitter, Frontier
<1>2. CASE com.hasUncommittedPos /\ ok
  <2>1. committer' = Stored(com) /\ checkpoint' = com.uncommittedPos /\ failures' = failures
    BY <1>2 DEF StoreUncommitted
  <2>2. /\ IsCommitter(Stored(com))
        /\ Stored(com).pending = com.pending
        /\ Stored(com).lastCommittedSeq = com.uncommittedSeq
        /\ Stored(com).hasUncommittedPos = FALSE
    BY DEF IsCommitter, Stored
  <2>3. CommitterTypeOK'
    BY <2>1, <2>2 DEF CommitterTypeOK, IsCommitter
  <2>4. QED BY <1>2, <2>1, <2>2, <2>3 DEF Frontier
<1>3. CASE com.hasUncommittedPos /\ ~ok
  BY <1>3, FailuresAssumption
     DEF StoreUncommitted, CommitterTypeOK, IsCommitter, Frontier, StoreFails
<1>4. QED BY <1>1, <1>2, <1>3 DEF IsCommitter

LEMMA AdvancedProperties ==
    ASSUME NEW com, IsCommitter(com), NEW n \in Nat, NEW position \in Nat
    PROVE  /\ IsCommitter(Advanced(com, n, position))
           /\ Advanced(com, n, position).pending = com.pending
           /\ Advanced(com, n, position).uncommittedSeq = n
           /\ Advanced(com, n, position).uncommittedPos = position
           /\ Advanced(com, n, position).hasUncommittedPos
<1> DEFINE ahead == Advanced(com, n, position)
<1>1. com.count + 1 \in Nat
  BY DEF IsCommitter
<1>2. ahead = [com EXCEPT !.uncommittedSeq = n, !.uncommittedPos = position,
                          !.hasUncommittedPos = TRUE, !.count = com.count + 1]
  BY DEF Advanced, IsCommitter
<1>3. /\ ahead.pending = com.pending
      /\ ahead.uncommittedSeq = n
      /\ ahead.uncommittedPos = position
      /\ ahead.hasUncommittedPos
  BY <1>2 DEF IsCommitter
<1>4. /\ ahead.batchSize = com.batchSize /\ ahead.interval = com.interval
      /\ ahead.lastCommittedSeq = com.lastCommittedSeq
      /\ ahead.count = com.count + 1 /\ ahead.due = com.due
      /\ ahead.timer = com.timer /\ ahead.flushes = com.flushes
  BY <1>2 DEF IsCommitter
<1>6. ahead = [batchSize |-> ahead.batchSize, interval |-> ahead.interval,
               pending |-> ahead.pending, lastCommittedSeq |-> ahead.lastCommittedSeq,
               uncommittedSeq |-> ahead.uncommittedSeq, uncommittedPos |-> ahead.uncommittedPos,
               hasUncommittedPos |-> ahead.hasUncommittedPos, count |-> ahead.count,
               due |-> ahead.due, timer |-> ahead.timer, flushes |-> ahead.flushes]
  BY <1>2 DEF IsCommitter
<1>7. IsCommitter(ahead)
  <2> HIDE DEF ahead
  <2>1. QED BY <1>1, <1>3, <1>4, <1>6 DEF IsCommitter
<1>5. QED BY <1>3, <1>7

\* Commit moves the frontier to the end of the run of recorded sequence numbers
\* that follows it, forgets that run, and writes the position of its end or
\* nothing.
LEMMA CommitAdvances ==
    ASSUME CommitterTypeOK, NEW position \in Nat, NEW sequence \in Nat \ {0},
           NEW ok \in BOOLEAN, Commit(position, sequence, ok)
    PROVE  /\ CommitterTypeOK'
           /\ \E n \in Nat :
                LET before   == Frontier(committer)
                    recorded == Recorded(committer.pending, sequence, position)
                IN  /\ EndsRun(before, n, DOMAIN committer.pending \union {sequence})
                    /\ Frontier(committer') = n
                    /\ committer'.pending =
                         [s \in DOMAIN recorded \ ((before + 1)..n) |-> recorded[s]]
                    /\ \/ checkpoint' = checkpoint
                       \/ n > before /\ checkpoint' = recorded[n]
                    /\ committer'.hasUncommittedPos =>
                         /\ committer'.uncommittedSeq = n
                         /\ IF n > before
                            THEN committer'.uncommittedPos = recorded[n]
                            ELSE /\ committer.hasUncommittedPos
                                 /\ committer'.uncommittedPos = committer.uncommittedPos
<1> DEFINE before   == Frontier(committer)
           recorded == Recorded(committer.pending, sequence, position)
<1>1. /\ DOMAIN recorded = DOMAIN committer.pending \union {sequence}
      /\ \A s \in DOMAIN recorded : recorded[s] \in Nat
      /\ DOMAIN recorded \subseteq Nat \ {0}
  BY DEF Recorded, CommitterTypeOK, IsCommitter
<1>2. before \in Nat
  BY DEF Frontier, CommitterTypeOK, IsCommitter
<1> DEFINE left(n)  == [s \in DOMAIN recorded \ ((before + 1)..n) |-> recorded[s]]
           kept(n)  == [committer EXCEPT !.pending = left(n)]
           ahead(n) == Advanced(kept(n), n, recorded[n])
<1>3. PICK n \in {before} \union DOMAIN recorded :
        /\ EndsRun(before, n, DOMAIN recorded)
        /\ \/ /\ n = before /\ ok
              /\ committer' = kept(n) /\ UNCHANGED <<checkpoint, failures>>
           \/ /\ n > before /\ ~ShouldCommit(ahead(n)) /\ ok
              /\ committer' = ahead(n) /\ UNCHANGED <<checkpoint, failures>>
           \/ n > before /\ ShouldCommit(ahead(n)) /\ StoreUncommitted(ahead(n), ok)
  BY DEF Commit
<1>4. n \in Nat /\ (n > before => n \in DOMAIN recorded)
  BY <1>1, <1>2, <1>3
<1>5. /\ IsCommitter(kept(n))
      /\ kept(n).pending = left(n)
      /\ Frontier(kept(n)) = before
      /\ kept(n).hasUncommittedPos = committer.hasUncommittedPos
      /\ kept(n).uncommittedPos = committer.uncommittedPos
      /\ kept(n).uncommittedSeq = committer.uncommittedSeq
  <2>1. DOMAIN left(n) \subseteq DOMAIN recorded /\ \A s \in DOMAIN left(n) : left(n)[s] \in Nat
    BY <1>1
  <2>2. QED BY <1>1, <2>1 DEF CommitterTypeOK, IsCommitter, Frontier
<1>6. n > before =>
        /\ IsCommitter(ahead(n))
        /\ ahead(n).pending = left(n)
        /\ Frontier(ahead(n)) = n
        /\ ahead(n).hasUncommittedPos
        /\ ahead(n).uncommittedPos = recorded[n]
        /\ ahead(n).uncommittedSeq = n
  <2> HIDE DEF kept, recorded, left
  <2> SUFFICES ASSUME n > before PROVE IsCommitter(ahead(n)) /\ ahead(n).pending = left(n)
                 /\ ahead(n).hasUncommittedPos /\ ahead(n).uncommittedPos = recorded[n]
                 /\ ahead(n).uncommittedSeq = n
    BY DEF Frontier
  <2>1. recorded[n] \in Nat /\ n \in Nat
    BY <1>1, <1>4
  <2>2. IsCommitter(kept(n))
    BY <1>5
  <2>3. IsCommitter(Advanced(kept(n), n, recorded[n]))
    BY <2>1, <2>2, AdvancedProperties
  <2>4. /\ Advanced(kept(n), n, recorded[n]).pending = kept(n).pending
        /\ Advanced(kept(n), n, recorded[n]).uncommittedSeq = n
        /\ Advanced(kept(n), n, recorded[n]).uncommittedPos = recorded[n]
    BY <2>2 DEF Advanced, IsCommitter
  <2>5. Advanced(kept(n), n, recorded[n]).hasUncommittedPos
    BY <2>1, <2>2, AdvancedProperties
  <2>6. QED BY <1>5, <2>3, <2>4, <2>5
<1>7. CASE n = before /\ committer' = kept(n) /\ UNCHANGED <<checkpoint, failures>>
  <2>1. CommitterTypeOK'
    BY <1>5, <1>7 DEF CommitterTypeOK, IsCommitter
  <2>2. committer'.hasUncommittedPos => committer'.uncommittedSeq = n
    BY <1>5, <1>7 DEF Frontier
  <2>3. QED BY <1>1, <1>2, <1>3, <1>4, <1>5, <1>7, <2>1, <2>2
<1>8. CASE n > before /\ committer' = ahead(n) /\ UNCHANGED <<checkpoint, failures>>
  <2>1. CommitterTypeOK'
    BY <1>6, <1>8 DEF CommitterTypeOK, IsCommitter
  <2>2. QED BY <1>1, <1>2, <1>3, <1>4, <1>6, <1>8, <2>1
<1>9. CASE n > before /\ StoreUncommitted(ahead(n), ok)
  <2> HIDE DEF ahead
  <2>1. /\ CommitterTypeOK'
        /\ committer'.pending = left(n)
        /\ Frontier(committer') = n
        /\ checkpoint' = checkpoint \/ checkpoint' = recorded[n]
        /\ committer'.hasUncommittedPos =>
             committer'.uncommittedPos = recorded[n] /\ committer'.uncommittedSeq = n
    BY <1>6, <1>9, StoreKeepsFrontier
  <2>2. QED BY <1>1, <1>2, <1>3, <1>4, <1>9, <2>1
<1>10. QED BY <1>3, <1>7, <1>8, <1>9

-----------------------------------------------------------------------------
\* The argument for at-least-once delivery: when no handler is at one of the
\* first n events of a run, every event up to the position of the n-th has been
\* handled.
LEMMA CompletedRunIsHandled ==
    ASSUME TypeOK, InOrder, Accounted, NEW n \in Sequences,
           \A s \in 1..n : s \notin inFlight
    PROVE  /\ delivered[n] \in UserEvents
           /\ delivered[n] < next
           /\ \A p \in UserEvents : p <= delivered[n] => p \in handled
<1>1. delivered[n] \in UserEvents /\ delivered[n] < next
  BY DEF TypeOK, InOrder, Sequences
<1>2. ASSUME NEW p \in UserEvents, p <= delivered[n], p \notin handled PROVE FALSE
  <2>1. p < next
    BY <1>1, <1>2, ConsumerAssumption DEF TypeOK, UserEvents
  <2>2. PICK s \in inFlight : delivered[s] = p
    BY <1>2, <2>1 DEF Accounted
  <2>3. s \in Sequences
    BY <2>2 DEF TypeOK
  <2>4. s <= n
    <3>1. SUFFICES ASSUME n < s PROVE FALSE
      BY <2>3 DEF Sequences
    <3>2. delivered[n] < delivered[s]
      BY <2>3, <3>1 DEF InOrder
    <3>3. QED BY <1>1, <1>2, <2>2, <3>2, ConsumerAssumption DEF UserEvents
  <2>5. QED BY <2>2, <2>3, <2>4 DEF Sequences
<1>3. QED BY <1>1, <1>2

\* A step that lets the committer at most write its frontier's position, and
\* does not touch the subscriber, preserves everything.
LEMMA StoreStepPreserves ==
    ASSUME IInv, CommitterTypeOK',
           committer'.pending = committer.pending,
           Frontier(committer') = Frontier(committer),
           \/ checkpoint' = checkpoint
           \/ committer.hasUncommittedPos /\ checkpoint' = committer.uncommittedPos,
           committer'.hasUncommittedPos =>
             /\ committer.hasUncommittedPos
             /\ committer'.uncommittedPos = committer.uncommittedPos
             /\ committer'.uncommittedSeq = committer.uncommittedSeq,
           closing' \in {"open", "stopped", "closed"}, closes' \in 0..MaxCloses,
           UNCHANGED <<next, delivered, inFlight, ready, refused, restarts, handled,
                       completed>>
    PROVE  IInv'
<1>1. TypeOK' /\ InOrder' /\ Accounted'
  BY DEF IInv, TypeOK, InOrder, Accounted, Sequences
<1>2. Faithful' /\ ExactFrontier'
  BY DEF IInv, Faithful, ExactFrontier, EndsRun
<1>3. CASE checkpoint' = checkpoint
  <2>1. Behind' /\ NoEventLost'
    BY <1>3 DEF IInv, Behind, NoEventLost, Sequences
  <2>2. QED BY <1>1, <1>2, <2>1 DEF IInv
<1>4. CASE committer.hasUncommittedPos /\ checkpoint' = committer.uncommittedPos
  <2> DEFINE n == committer.uncommittedSeq
  <2>1. /\ n \in Sequences /\ 1..n \subseteq completed
        /\ checkpoint' = delivered[n]
        /\ n = Frontier(committer)
    BY <1>4 DEF IInv, TypeOK, Faithful, ExactFrontier, EndsRun, Frontier
  <2>2. /\ checkpoint' \in UserEvents /\ checkpoint' < next
        /\ \A p \in UserEvents : p <= checkpoint' => p \in handled
    <3>1. \A s \in 1..n : s \notin inFlight
      BY <2>1 DEF IInv, Accounted
    <3>2. QED BY <2>1, <3>1, CompletedRunIsHandled DEF IInv
  <2>3. \A s \in Sequences : s > n => delivered[n] < delivered[s]
    BY <2>1 DEF IInv, InOrder
  <2>4. committer'.hasUncommittedPos => checkpoint' <= committer'.uncommittedPos
    BY <1>4, <2>2, ConsumerAssumption DEF UserEvents
  <2>5. Behind'
    BY <2>1, <2>2, <2>3, <2>4 DEF Behind, Sequences
  <2>6. NoEventLost'
    BY <2>2 DEF NoEventLost
  <2>7. QED BY <1>1, <1>2, <2>5, <2>6 DEF IInv
<1>5. QED BY <1>3, <1>4

LEMMA NewCommitterProperties ==
    ASSUME NEW b \in Nat, NEW i \in BOOLEAN
    PROVE  /\ IsCommitter(NewCheckpointCommitter(b, i))
           /\ NewCheckpointCommitter(b, i).pending = Empty
           /\ NewCheckpointCommitter(b, i).hasUncommittedPos = FALSE
           /\ Frontier(NewCheckpointCommitter(b, i)) = 0
BY FailuresAssumption DEF IsCommitter, NewCheckpointCommitter, Frontier, Empty

LEMMA InitInvariant == Init => IInv
<1> SUFFICES ASSUME Init PROVE IInv
  OBVIOUS
<1>1. PICK b \in BatchSizes, i \in Intervals : committer = NewCheckpointCommitter(b, i)
  BY DEF Init
<1>2. b \in Nat /\ i \in BOOLEAN
  BY ConsumerAssumption
<1>3. /\ IsCommitter(committer) /\ committer.pending = Empty
      /\ committer.hasUncommittedPos = FALSE /\ Frontier(committer) = 0
  BY <1>1, <1>2, NewCommitterProperties
<1>4. CommitterTypeOK
  BY <1>3, FailuresAssumption DEF Init, CommitterTypeOK, NoCheckpoint
<1>5. TypeOK
  BY <1>4, ConsumerAssumption DEF Init, TypeOK
<1>6. InOrder /\ Accounted /\ Behind /\ NoEventLost
  BY <1>3, ConsumerAssumption
     DEF Init, InOrder, Accounted, Behind, NoEventLost, Sequences, UserEvents, NoCheckpoint
<1>7. Faithful /\ ExactFrontier
  BY <1>3 DEF Init, Faithful, ExactFrontier, EndsRun, Empty
<1>8. QED BY <1>5, <1>6, <1>7 DEF IInv

LEMMA SkipEventPreserves == IInv /\ SkipEvent => IInv'
<1> SUFFICES ASSUME IInv, SkipEvent PROVE IInv'
  OBVIOUS
<1>1. next \in Nat /\ next' = next + 1 /\ next' \in 0..LogEnd /\ next \notin UserEvents
  BY ConsumerAssumption DEF SkipEvent, IInv, TypeOK, UserEvents
<1>2. TypeOK'
  BY <1>1 DEF SkipEvent, committerVars, IInv, TypeOK, CommitterTypeOK, IsCommitter, Sequences
<1>3. \A p \in UserEvents : p < next' => p < next
  BY <1>1, ConsumerAssumption DEF UserEvents
<1>4. InOrder' /\ Accounted'
  BY <1>1, <1>3, ConsumerAssumption
     DEF SkipEvent, IInv, InOrder, Accounted, Sequences, UserEvents, TypeOK
<1>5. Faithful' /\ ExactFrontier' /\ NoEventLost'
  BY DEF SkipEvent, committerVars, IInv, Faithful, ExactFrontier, EndsRun, NoEventLost,
         Frontier
<1>6. Behind'
  BY <1>1, ConsumerAssumption
     DEF SkipEvent, committerVars, IInv, Behind, Sequences, UserEvents, NoCheckpoint, Frontier
<1>7. QED BY <1>2, <1>4, <1>5, <1>6 DEF IInv

LEMMA DeliverEventPreserves == IInv /\ DeliverEvent => IInv'
<1> SUFFICES ASSUME IInv, DeliverEvent PROVE IInv'
  OBVIOUS
<1> DEFINE n == Len(delivered) + 1
<1>1. /\ next \in UserEvents /\ next \in Nat /\ next' = next + 1 /\ next' \in 0..LogEnd
      /\ delivered \in Seq(UserEvents)
  BY ConsumerAssumption DEF DeliverEvent, IInv, TypeOK, UserEvents
<1>2. /\ delivered' \in Seq(UserEvents) /\ Len(delivered') = n /\ n \in Nat \ {0}
      /\ delivered'[n] = next
      /\ \A s \in Sequences : delivered'[s] = delivered[s]
  BY <1>1 DEF DeliverEvent, Sequences
<1>3. Sequences' = Sequences \union {n} /\ n \notin Sequences
  BY <1>1, <1>2 DEF Sequences
<1>4. /\ inFlight' = inFlight \union {n} /\ ready' = ready /\ refused' = refused
      /\ completed' = completed /\ handled' = handled
      /\ committer' = committer /\ checkpoint' = checkpoint /\ failures' = failures
      /\ closing' = closing /\ closes' = closes /\ restarts' = restarts
  BY DEF DeliverEvent, committerVars
<1>5. inFlight \subseteq Sequences /\ ready \subseteq Sequences /\ completed \subseteq Sequences
  BY DEF IInv, TypeOK
<1>6. TypeOK'
  BY <1>1, <1>2, <1>3, <1>4 DEF IInv, TypeOK, CommitterTypeOK, IsCommitter
<1>7. InOrder'
  <2>1. \A s \in Sequences : delivered[s] < next /\ delivered[s] \in Nat /\ s < n
    BY <1>1, <1>2, ConsumerAssumption DEF IInv, InOrder, Sequences, UserEvents
  <2>2. ASSUME NEW i \in Sequences', NEW j \in Sequences', i < j
        PROVE  delivered'[i] < delivered'[j]
    <3>1. i \in Sequences
      BY <1>2, <1>3, <2>1, <2>2 DEF Sequences
    <3>2. CASE j \in Sequences
      BY <1>2, <2>2, <3>1, <3>2 DEF IInv, InOrder
    <3>3. CASE j = n
      BY <1>2, <2>1, <3>1, <3>3
    <3>4. QED BY <1>3, <3>2, <3>3
  <2>3. \A i \in Sequences' : delivered'[i] < next'
    BY <1>1, <1>2, <1>3, <2>1
  <2>4. QED BY <2>2, <2>3 DEF InOrder
<1>8. Accounted'
  <2>1. \A p \in UserEvents : p < next' => p < next \/ p = next
    BY <1>1, ConsumerAssumption DEF UserEvents
  <2>2. QED BY <1>1, <1>2, <1>3, <1>4, <1>5, <2>1 DEF IInv, Accounted
<1>9. Faithful' /\ ExactFrontier' /\ NoEventLost'
  BY <1>2, <1>4, <1>5
     DEF IInv, Faithful, ExactFrontier, EndsRun, NoEventLost, Frontier
<1>10. Behind'
  BY <1>1, <1>2, <1>3, <1>4, ConsumerAssumption, SMTT(60)
     DEF IInv, Behind, UserEvents, NoCheckpoint, Frontier
<1>11. QED BY <1>6, <1>7, <1>8, <1>9, <1>10 DEF IInv

LEMMA FinishHandlingPreserves ==
    ASSUME IInv, NEW s \in Sequences, FinishHandling(s) PROVE IInv'
<1>1. /\ s \in inFlight /\ inFlight' = inFlight \ {s} /\ ready' = ready \union {s}
      /\ handled' = handled \union {delivered[s]}
      /\ next' = next /\ delivered' = delivered /\ refused' = refused
      /\ completed' = completed /\ closing' = closing /\ closes' = closes
      /\ restarts' = restarts
      /\ committer' = committer /\ checkpoint' = checkpoint /\ failures' = failures
  BY DEF FinishHandling, committerVars
<1>2. delivered[s] \in UserEvents
  BY DEF IInv, TypeOK, Sequences
<1>3. TypeOK'
  BY <1>1, <1>2 DEF IInv, TypeOK, CommitterTypeOK, IsCommitter, Sequences
<1>4. InOrder' /\ Behind'
  BY <1>1 DEF IInv, InOrder, Behind, Sequences, Frontier
<1>5. Accounted'
  BY <1>1, <1>2 DEF IInv, Accounted, Sequences
<1>6. Faithful' /\ ExactFrontier' /\ NoEventLost'
  BY <1>1 DEF IInv, Faithful, ExactFrontier, EndsRun, NoEventLost, Frontier
<1>7. QED BY <1>3, <1>4, <1>5, <1>6 DEF IInv

LEMMA CommitEventPreserves ==
    ASSUME IInv, NEW s \in Sequences, CommitEvent(s) PROVE IInv'
<1>1. PICK ok \in BOOLEAN : Commit(delivered[s], s, ok)
                            /\ refused' = IF ok THEN refused \ {s} ELSE refused \union {s}
  BY DEF CommitEvent
<1>2. /\ s \in ready \union refused
      /\ ready' = ready \ {s} /\ completed' = completed \union {s}
      /\ next' = next /\ delivered' = delivered /\ inFlight' = inFlight
      /\ handled' = handled /\ closing' = closing /\ closes' = closes
      /\ restarts' = restarts
  BY DEF CommitEvent
<1>3. /\ delivered[s] \in UserEvents /\ delivered[s] \in Nat /\ s \in Nat \ {0}
      /\ CommitterTypeOK /\ s \notin inFlight
  BY <1>2, ConsumerAssumption DEF IInv, TypeOK, Accounted, Sequences, UserEvents
<1> DEFINE before   == Frontier(committer)
           recorded == Recorded(committer.pending, s, delivered[s])
<1>4. PICK n \in Nat :
        /\ EndsRun(before, n, DOMAIN committer.pending \union {s})
        /\ Frontier(committer') = n
        /\ committer'.pending = [t \in DOMAIN recorded \ ((before + 1)..n) |-> recorded[t]]
        /\ \/ checkpoint' = checkpoint
           \/ n > before /\ checkpoint' = recorded[n]
        /\ committer'.hasUncommittedPos =>
             /\ committer'.uncommittedSeq = n
             /\ IF n > before
                THEN committer'.uncommittedPos = recorded[n]
                ELSE /\ committer.hasUncommittedPos
                     /\ committer'.uncommittedPos = committer.uncommittedPos
  BY <1>1, <1>3, CommitAdvances
<1>5. CommitterTypeOK'
  BY <1>1, <1>3, CommitAdvances
<1>6. before \in Nat
  BY <1>3 DEF Frontier, CommitterTypeOK, IsCommitter
<1>7. /\ DOMAIN recorded = DOMAIN committer.pending \union {s}
      /\ \A t \in DOMAIN recorded : t \in completed' /\ recorded[t] = delivered[t]
  BY <1>2 DEF Recorded, IInv, Faithful
<1>8. TypeOK'
  BY <1>1, <1>2, <1>5 DEF IInv, TypeOK, Sequences
<1>9. InOrder' /\ Accounted'
  BY <1>1, <1>2, <1>3 DEF IInv, InOrder, Accounted, Sequences
<1>10. EndsRun(0, n, completed')
  <2>1. 1..before \subseteq completed
    BY DEF IInv, ExactFrontier, EndsRun
  <2>2. 1..n \subseteq completed'
    BY <1>2, <1>4, <1>6, <1>7, <2>1 DEF EndsRun
  <2>3. n + 1 \notin completed'
    BY <1>2, <1>4, <1>6 DEF EndsRun, IInv, Faithful
  <2>4. QED BY <2>2, <2>3 DEF EndsRun
<1>11. n > before => n \in DOMAIN recorded /\ recorded[n] = delivered[n]
  BY <1>4, <1>6, <1>7 DEF EndsRun
<1>12. committer'.hasUncommittedPos =>
         /\ committer'.uncommittedSeq = n /\ n \in completed'
         /\ committer'.uncommittedPos = delivered[n]
  <2>1. CASE n > before
    BY <1>4, <1>7, <1>11, <2>1
  <2>2. CASE ~(n > before)
    <3>1. n = before
      BY <1>4, <1>6, <2>2 DEF EndsRun
    <3>2. QED BY <1>2, <1>4, <2>2, <3>1 DEF IInv, Faithful, ExactFrontier, Frontier
  <2>3. QED BY <2>1, <2>2
<1>13. Faithful' /\ ExactFrontier'
  <2>1. \A t \in DOMAIN committer'.pending :
           t \in completed' /\ committer'.pending[t] = delivered'[t]
    BY <1>2, <1>4, <1>7
  <2>2. \A t \in completed' : t \in DOMAIN committer'.pending \/ t \in 1..n
    <3>1. SUFFICES ASSUME NEW t \in completed', t \notin 1..n PROVE t \in DOMAIN committer'.pending
      OBVIOUS
    <3>2. t \in Nat \ {0}
      BY <1>8 DEF TypeOK, Sequences
    <3>3. t \notin 1..before
      BY <1>4, <1>6, <3>1, <3>2 DEF EndsRun
    <3>4. t \in DOMAIN recorded
      BY <1>2, <1>7, <3>3 DEF IInv, Faithful
    <3>5. t \notin (before + 1)..n
      BY <1>4, <1>6, <3>1, <3>2 DEF EndsRun
    <3>6. QED BY <1>4, <3>4, <3>5
  <2>3. QED BY <1>2, <1>4, <1>10, <1>12, <2>1, <2>2 DEF Faithful, ExactFrontier
<1>14. CASE checkpoint' = checkpoint
  <2>1. NoEventLost'
    BY <1>2, <1>14 DEF IInv, NoEventLost
  <2>2. committer'.hasUncommittedPos => checkpoint <= committer'.uncommittedPos
    <3>1. CASE n > before
      <4>1. n \in Sequences
        BY <1>7, <1>8, <1>11, <1>2 , <3>1 DEF TypeOK, Sequences
      <4>2. checkpoint < delivered[n] /\ checkpoint \in Int /\ delivered[n] \in Int
        BY <3>1, <4>1, ConsumerAssumption
           DEF IInv, Behind, TypeOK, Sequences, UserEvents, NoCheckpoint
      <4>3. QED BY <1>12, <4>2
    <3>2. CASE ~(n > before)
      BY <1>4, <3>2 DEF IInv, Behind
    <3>3. QED BY <3>1, <3>2
  <2>3. \A t \in Sequences : t > n => checkpoint < delivered[t]
    BY <1>4, <1>6 DEF IInv, Behind, EndsRun, Sequences
  <2>4. Behind'
    BY <1>2, <1>4, <1>14, <2>2, <2>3 DEF IInv, Behind, Sequences
  <2>5. QED BY <1>8, <1>9, <1>13, <2>1, <2>4 DEF IInv
<1>15. CASE n > before /\ checkpoint' = recorded[n]
  <2>1. n \in Sequences' /\ checkpoint' = delivered'[n] /\ 1..n \subseteq completed'
    BY <1>2, <1>7, <1>8, <1>10, <1>11, <1>15 DEF TypeOK, EndsRun
  <2>2. /\ checkpoint' \in UserEvents /\ checkpoint' < next'
        /\ \A p \in UserEvents : p <= checkpoint' => p \in handled'
    <3>1. n \in Sequences /\ checkpoint' = delivered[n]
      BY <1>2, <2>1 DEF Sequences
    <3>2. \A t \in 1..n : t \notin inFlight
      BY <1>2, <1>9, <2>1 DEF Accounted
    <3>3. QED BY <1>2, <3>1, <3>2, CompletedRunIsHandled DEF IInv
  <2>3. \A t \in Sequences' : t > n => checkpoint' < delivered'[t]
    BY <1>9, <2>1 DEF InOrder
  <2>4. committer'.hasUncommittedPos => checkpoint' <= committer'.uncommittedPos
    BY <1>2, <1>12, <2>1, <2>2, ConsumerAssumption DEF UserEvents
  <2>5. Behind' /\ NoEventLost'
    BY <1>4, <2>2, <2>3, <2>4 DEF Behind, NoEventLost
  <2>6. QED BY <1>8, <1>9, <1>13, <2>5 DEF IInv
<1>16. QED BY <1>4, <1>14, <1>15

LEMMA CommitterTimerPreserves == IInv /\ CommitterTimer => IInv'
<1> SUFFICES ASSUME IInv, CommitterTimer PROVE IInv'
  OBVIOUS
<1>1. /\ UNCHANGED hostVars
      /\ closing' \in {"open", "stopped", "closed"} /\ closes' \in 0..MaxCloses
      /\ CommitterTypeOK
  BY DEF CommitterTimer, hostVars, IInv, TypeOK
<1>2. CASE Tick
  <2>1. CommitterTypeOK'
    BY <1>1, <1>2 DEF Tick, CommitterTypeOK, IsCommitter
  <2>2. QED BY <1>1, <1>2, <2>1, StoreStepPreserves
          DEF Tick, CommitterTypeOK, IsCommitter, Frontier, hostVars
<1>3. CASE TimerFires
  <2>1. committer.flushes + 1 \in 0..MaxFlushes
    BY <1>1, <1>3, FailuresAssumption DEF TimerFires, CommitterTypeOK, IsCommitter
  <2>2. committer' = [committer EXCEPT !.timer = "expired", !.flushes = committer.flushes + 1]
    BY <1>1, <1>3 DEF TimerFires, CommitterTypeOK, IsCommitter
  <2>3. CommitterTypeOK'
    BY <1>1, <1>3, <2>1, <2>2 DEF TimerFires, CommitterTypeOK, IsCommitter
  <2>4. QED BY <1>1, <1>3, <2>3, StoreStepPreserves
          DEF TimerFires, CommitterTypeOK, IsCommitter, Frontier, hostVars
<1>4. CASE TimerFlush
  <2> DEFINE com == [committer EXCEPT !.flushes = @ - 1]
  <2>1. PICK ok \in BOOLEAN : committer.flushes > 0 /\ StoreUncommitted(com, ok)
    BY <1>4 DEF TimerFlush
  <2>2. /\ IsCommitter(com) /\ com.pending = committer.pending
        /\ Frontier(com) = Frontier(committer)
        /\ com.hasUncommittedPos = committer.hasUncommittedPos
        /\ com.uncommittedPos = committer.uncommittedPos
        /\ com.uncommittedSeq = committer.uncommittedSeq
    BY <1>1, <2>1, FailuresAssumption DEF CommitterTypeOK, IsCommitter, Frontier
  <2> HIDE DEF com
  <2>3. QED BY <1>1, <2>1, <2>2, StoreKeepsFrontier, StoreStepPreserves DEF hostVars
<1>5. QED BY <1>2, <1>3, <1>4 DEF CommitterTimer

LEMMA ClosePreserves ==
    ASSUME IInv, NEW ok \in BOOLEAN, BeginClose \/ FinishClose(ok) PROVE IInv'
<1>1. CommitterTypeOK /\ closes \in 0..MaxCloses
  BY DEF IInv, TypeOK
<1>2. CASE BeginClose
  <2>1. CommitterTypeOK'
    BY <1>1, <1>2 DEF BeginClose, StopTimer, CommitterTypeOK, IsCommitter
  <2>2. closing' = "stopped" /\ closes' \in 0..MaxCloses
    BY <1>1, <1>2, ConsumerAssumption DEF BeginClose
  <2>3. QED BY <1>1, <1>2, <2>1, <2>2, StoreStepPreserves
          DEF BeginClose, StopTimer, CommitterTypeOK, IsCommitter, Frontier
<1>3. CASE FinishClose(ok)
  <2>1. IsCommitter(committer) /\ StoreUncommitted(committer, ok)
    BY <1>1, <1>3 DEF FinishClose, Flush, CommitterTypeOK
  <2>2. closing' = "closed" /\ closes' = closes
        /\ UNCHANGED <<next, delivered, inFlight, ready, refused, restarts, handled,
                       completed>>
    BY <1>3 DEF FinishClose
  <2>3. QED BY <1>1, <2>1, <2>2, StoreKeepsFrontier, StoreStepPreserves
<1>4. QED BY <1>2, <1>3

LEMMA RestartPreserves == IInv /\ Restart => IInv'
<1> SUFFICES ASSUME IInv, Restart PROVE IInv'
  OBVIOUS
<1>1. /\ committer.batchSize \in Nat /\ committer.interval \in BOOLEAN
      /\ CommitterTypeOK /\ checkpoint \in UserEvents \union {NoCheckpoint}
  BY DEF IInv, TypeOK, CommitterTypeOK, IsCommitter, Behind
<1>2. /\ IsCommitter(committer') /\ committer'.pending = Empty
      /\ committer'.hasUncommittedPos = FALSE /\ Frontier(committer') = 0
  BY <1>1, NewCommitterProperties DEF Restart
<1>3. next' = checkpoint + 1 /\ next' \in 0..LogEnd
  BY <1>1, ConsumerAssumption DEF Restart, UserEvents, NoCheckpoint
<1>4. /\ delivered' = <<>> /\ inFlight' = {} /\ ready' = {} /\ refused' = {}
      /\ completed' = {} /\ closing' = "open" /\ restarts' = restarts + 1
      /\ checkpoint' = checkpoint /\ failures' = failures /\ closes' = closes
      /\ handled' = handled
  BY DEF Restart
<1>5. TypeOK'
  <2>1. restarts' \in 0..MaxRestarts
    BY <1>4, ConsumerAssumption DEF Restart, IInv, TypeOK
  <2>2. CommitterTypeOK'
    BY <1>1, <1>2, <1>4 DEF CommitterTypeOK
  <2>3. QED BY <1>3, <1>4, <2>1, <2>2 DEF IInv, TypeOK
<1>6. NoEventLost' /\ InOrder'
  BY <1>4 DEF IInv, NoEventLost, InOrder, Sequences
<1>7. Accounted'
  BY <1>1, <1>3, <1>4, ConsumerAssumption
     DEF IInv, NoEventLost, Accounted, Sequences, UserEvents, NoCheckpoint
<1>8. Faithful' /\ ExactFrontier'
  BY <1>2, <1>4 DEF Faithful, ExactFrontier, EndsRun, Empty
<1>9. Behind'
  BY <1>1, <1>2, <1>3, <1>4, ConsumerAssumption
     DEF Behind, Sequences, UserEvents, NoCheckpoint
<1>10. QED BY <1>5, <1>6, <1>7, <1>8, <1>9 DEF IInv

LEMMA NextPreserves == IInv /\ [Next]_vars => IInv'
<1> SUFFICES ASSUME IInv, [Next]_vars PROVE IInv'
  OBVIOUS
<1>1. CASE UNCHANGED vars
  <2>1. TypeOK' /\ InOrder'
    <3>1. CommitterTypeOK'
      BY <1>1 DEF vars, committerVars, IInv, TypeOK, CommitterTypeOK
    <3>2. QED BY <1>1, <3>1 DEF vars, hostVars, IInv, TypeOK, InOrder, Sequences
  <2>2. Accounted' /\ Faithful'
    BY <1>1 DEF vars, committerVars, hostVars, IInv, Accounted, Faithful, Sequences
  <2>3. Behind' /\ NoEventLost'
    BY <1>1 DEF vars, committerVars, hostVars, IInv, Behind, NoEventLost, Sequences, Frontier
  <2>4. ExactFrontier'
    BY <1>1 DEF vars, committerVars, hostVars, IInv, ExactFrontier, EndsRun, Sequences,
       Frontier
  <2>5. QED BY <2>1, <2>2, <2>3, <2>4 DEF IInv
<1>2. CASE Next
  BY <1>2, SkipEventPreserves, DeliverEventPreserves, FinishHandlingPreserves,
     CommitEventPreserves, CommitterTimerPreserves, ClosePreserves, RestartPreserves
     DEF Next
<1>3. QED BY <1>1, <1>2

\* Every reachable state is well typed.
THEOREM TypeCorrect == Spec => []TypeOK
<1>1. IInv => TypeOK
  BY DEF IInv
<1>2. QED BY <1>1, InitInvariant, NextPreserves, PTL DEF Spec

\* At-least-once delivery: nothing before the stored checkpoint is unhandled.
THEOREM NothingIsLost == Spec => []NoEventLost
<1>1. IInv => NoEventLost
  BY DEF IInv
<1>2. QED BY <1>1, InitInvariant, NextPreserves, PTL DEF Spec

\* The committer's frontier is the end of the contiguous run, neither less nor more.
THEOREM FrontierIsExact == Spec => []ExactFrontier
<1>1. IInv => ExactFrontier
  BY DEF IInv
<1>2. QED BY <1>1, InitInvariant, NextPreserves, PTL DEF Spec

-----------------------------------------------------------------------------
\* Every step is a step of CheckpointProgress, or leaves its variables alone.
LEMMA StoreStepIsProgress ==
    ASSUME IInv, IInv', UNCHANGED <<handled, next>>,
           checkpoint' = checkpoint \/ checkpoint' > checkpoint
    PROVE  [Progress!ProgressNext]_(Progress!progressVars)
<1>1. CASE checkpoint' = checkpoint
  BY <1>1 DEF Progress!progressVars
<1>2. CASE checkpoint' > checkpoint
  <2>1. /\ checkpoint' \in UserEvents
        /\ \A q \in UserEvents : q <= checkpoint' => q \in handled
    BY <1>2, ConsumerAssumption DEF IInv, Behind, NoEventLost, UserEvents, NoCheckpoint
  <2>2. Progress!MoveCheckpoint
    BY <1>2, <2>1 DEF Progress!MoveCheckpoint
  <2>3. QED BY <2>2 DEF Progress!ProgressNext
<1>3. QED BY <1>1, <1>2

LEMMA StoreMovesForward ==
    ASSUME IInv, checkpoint' = checkpoint
                 \/ (committer.hasUncommittedPos /\ checkpoint' = committer.uncommittedPos)
    PROVE  checkpoint' = checkpoint \/ checkpoint' > checkpoint
<1>1. CASE checkpoint' = checkpoint
  BY <1>1
<1>2. CASE committer.hasUncommittedPos /\ checkpoint' = committer.uncommittedPos
  <2>1. checkpoint <= committer.uncommittedPos /\ checkpoint \in Int
    BY <1>2, ConsumerAssumption DEF IInv, Behind, UserEvents, NoCheckpoint
  <2>2. committer.uncommittedPos \in Nat
    BY DEF IInv, TypeOK, CommitterTypeOK, IsCommitter
  <2>3. QED BY <1>2, <2>1, <2>2
<1>3. QED BY <1>1, <1>2

LEMMA StepIsProgress ==
    IInv /\ IInv' /\ [Next]_vars => [Progress!ProgressNext]_(Progress!progressVars)
<1> SUFFICES ASSUME IInv, IInv', [Next]_vars
             PROVE  [Progress!ProgressNext]_(Progress!progressVars)
  OBVIOUS
<1>1. CASE UNCHANGED vars \/ SkipEvent \/ DeliverEvent \/ Restart
  BY <1>1 DEF vars, hostVars, committerVars, SkipEvent, DeliverEvent, Restart,
     Progress!progressVars
<1>2. ASSUME NEW s \in Sequences, FinishHandling(s)
      PROVE  [Progress!ProgressNext]_(Progress!progressVars)
  <2>1. delivered[s] \in UserEvents
    BY DEF IInv, TypeOK, Sequences
  <2>2. Progress!HandleEvent
    BY <1>2, <2>1 DEF FinishHandling, committerVars, Progress!HandleEvent
  <2>3. QED BY <2>2 DEF Progress!ProgressNext
<1>3. ASSUME NEW s \in Sequences, CommitEvent(s)
      PROVE  [Progress!ProgressNext]_(Progress!progressVars)
  <2>1. PICK ok \in BOOLEAN : Commit(delivered[s], s, ok)
    BY <1>3 DEF CommitEvent
  <2>2. /\ delivered[s] \in Nat /\ s \in Nat \ {0} /\ CommitterTypeOK
    BY ConsumerAssumption DEF IInv, TypeOK, Sequences, UserEvents
  <2>3. PICK n \in Nat : checkpoint' = checkpoint
           \/ (n > Frontier(committer) /\ n = Frontier(committer')
               /\ checkpoint' = Recorded(committer.pending, s, delivered[s])[n]
               /\ EndsRun(Frontier(committer), n, DOMAIN committer.pending \union {s}))
    BY <2>1, <2>2, CommitAdvances
  <2>4. CASE checkpoint' # checkpoint
    <3>1. Frontier(committer) \in Nat
      BY <2>2 DEF Frontier, CommitterTypeOK, IsCommitter
    <3>2. n \in Sequences /\ checkpoint' = delivered[n]
      <4>1. n \in DOMAIN committer.pending \union {s}
        BY <2>3, <2>4, <3>1, SMTT(60) DEF EndsRun
      <4>2. CASE n = s
        BY <2>3, <2>4, <4>2 DEF Recorded
      <4>3. CASE n # s
        <5>1. n \in DOMAIN committer.pending
          BY <4>1, <4>3
        <5>2. committer.pending[n] = delivered[n] /\ n \in Sequences
          BY <5>1 DEF IInv, Faithful, TypeOK
        <5>3. Recorded(committer.pending, s, delivered[s])[n] = committer.pending[n]
          BY <4>3, <5>1 DEF Recorded
        <5>4. QED BY <2>3, <2>4, <5>2, <5>3
      <4>4. QED BY <4>2, <4>3
    <3>3. checkpoint' > checkpoint
      BY <2>3, <2>4, <3>2, ConsumerAssumption
         DEF IInv, Behind, TypeOK, Sequences, UserEvents, NoCheckpoint
    <3>4. QED BY <1>3, <3>3, StoreStepIsProgress DEF CommitEvent
  <2>5. QED BY <1>3, <2>4, StoreStepIsProgress DEF CommitEvent
<1>4. CASE CommitterTimer
  <2>1. checkpoint' = checkpoint
        \/ (committer.hasUncommittedPos /\ checkpoint' = committer.uncommittedPos)
    BY <1>4 DEF CommitterTimer, Tick, TimerFires, TimerFlush, StoreUncommitted, StoreFails,
       IInv, TypeOK, CommitterTypeOK, IsCommitter
  <2>2. QED BY <1>4, <2>1, StoreMovesForward, StoreStepIsProgress
          DEF CommitterTimer, hostVars
<1>5. ASSUME NEW ok \in BOOLEAN, BeginClose \/ FinishClose(ok)
      PROVE  [Progress!ProgressNext]_(Progress!progressVars)
  <2>1. checkpoint' = checkpoint
        \/ (committer.hasUncommittedPos /\ checkpoint' = committer.uncommittedPos)
    BY <1>5 DEF BeginClose, FinishClose, StopTimer, Flush, StoreUncommitted, StoreFails
  <2>2. QED BY <1>5, <2>1, StoreMovesForward, StoreStepIsProgress
          DEF BeginClose, FinishClose
<1>6. QED BY <1>1, <1>2, <1>3, <1>4, <1>5 DEF Next

\* The checkpoint only moves forward, past handled events, for ever.
THEOREM ImplementsProgress == Spec => CheckpointIsProgress
<1>1. Init => Progress!ProgressInit
  BY DEF Init, Progress!ProgressInit, NoCheckpoint
<1>2. QED BY <1>1, InitInvariant, NextPreserves, StepIsProgress, PTL
          DEF Spec, CheckpointIsProgress, Progress!ProgressSpec
-----------------------------------------------------------------------------
\* What the committer has stored it has stored with the checkpoint: no event that
\* it counts as committed is beyond it.
Covers ==
    /\ committer.lastCommittedSeq <= Len(delivered)
    /\ \A s \in Sequences : s <= committer.lastCommittedSeq => delivered[s] <= checkpoint

\* Commit leaves the last committed number alone, or stores that number's position.
LEMMA CommitStores ==
    ASSUME CommitterTypeOK, NEW position \in Nat, NEW sequence \in Nat \ {0},
           NEW ok \in BOOLEAN, Commit(position, sequence, ok)
    PROVE  \/ committer'.lastCommittedSeq = committer.lastCommittedSeq
           \/ \E n \in DOMAIN Recorded(committer.pending, sequence, position) :
                 /\ committer'.lastCommittedSeq = n
                 /\ checkpoint' = Recorded(committer.pending, sequence, position)[n]
<1> DEFINE recorded == Recorded(committer.pending, sequence, position)
           start    == Frontier(committer)
           left(n)  == [s \in DOMAIN recorded \ ((start + 1)..n) |-> recorded[s]]
           kept(n)  == [committer EXCEPT !.pending = left(n)]
           ahead(n) == Advanced(kept(n), n, recorded[n])
<1>1. IsCommitter(committer)
  BY DEF CommitterTypeOK
<1>2. PICK n \in {start} \union DOMAIN recorded :
        /\ EndsRun(start, n, DOMAIN recorded)
        /\ \/ n = start /\ committer' = kept(n)
           \/ n > start /\ committer' = ahead(n)
           \/ n > start /\ StoreUncommitted(ahead(n), ok)
  BY DEF Commit
<1>3. /\ kept(n).lastCommittedSeq = committer.lastCommittedSeq
      /\ ahead(n).lastCommittedSeq = committer.lastCommittedSeq
      /\ ahead(n).uncommittedSeq = n /\ ahead(n).uncommittedPos = recorded[n]
  BY <1>1 DEF IsCommitter, Advanced
<1>4. start \in Nat
  BY <1>1 DEF Frontier, IsCommitter
<1>5. CASE n > start /\ StoreUncommitted(ahead(n), ok)
  <2>1. n \in DOMAIN recorded
    BY <1>2, <1>4, <1>5
  <2>2. CASE committer' = ahead(n)
    BY <1>3, <2>2
  <2>3. CASE committer' = Stored(ahead(n)) /\ checkpoint' = ahead(n).uncommittedPos
    <3>1. Stored(ahead(n)).lastCommittedSeq = ahead(n).uncommittedSeq
      BY <1>1 DEF Stored, Advanced, IsCommitter
    <3>2. QED BY <1>3, <2>1, <2>3, <3>1
  <2>4. QED BY <1>5, <2>2, <2>3 DEF StoreUncommitted, StoreFails
<1>6. QED BY <1>2, <1>3, <1>5

\* Covering is kept by what only moves the checkpoint forward or adds an event, and
\* by what stores the position of the number it makes the last committed.
LEMMA CoversStays ==
    ASSUME IInv, IInv', Covers,
           committer'.lastCommittedSeq = committer.lastCommittedSeq,
           delivered' = delivered \/ \E p \in UserEvents : delivered' = Append(delivered, p),
           checkpoint' = checkpoint \/ checkpoint' > checkpoint
    PROVE  Covers'
<1>1. PICK last \in Nat : last = committer.lastCommittedSeq
  BY DEF IInv, TypeOK, CommitterTypeOK, IsCommitter
<1>2. PICK before \in Int, after \in Int : before = checkpoint /\ after = checkpoint'
  BY ConsumerAssumption DEF IInv, Behind, UserEvents, NoCheckpoint
<1>3. /\ Len(delivered) \in Nat /\ Len(delivered') >= Len(delivered)
      /\ \A s \in Sequences : delivered'[s] = delivered[s] /\ delivered[s] \in Nat
  <2>1. PICK old \in Seq(UserEvents) : old = delivered
    BY DEF IInv, TypeOK
  <2>2. \A s \in 1..Len(old) : old[s] \in Nat
    BY ConsumerAssumption DEF UserEvents
  <2>3. CASE delivered' = delivered
    BY <2>1, <2>2, <2>3 DEF Sequences
  <2>4. ASSUME NEW p \in UserEvents, delivered' = Append(delivered, p)
        PROVE  Len(delivered') >= Len(old) /\ \A s \in 1..Len(old) : delivered'[s] = old[s]
    BY <2>1, <2>4
  <2>5. QED BY <2>1, <2>2, <2>3, <2>4 DEF Sequences
<1>4. last <= Len(delivered) /\ \A s \in Sequences : s <= last => delivered[s] <= before
  BY <1>1, <1>2 DEF Covers
<1>5. \A s \in 1..Len(delivered') : s <= last => delivered'[s] <= after
  BY <1>2, <1>3, <1>4 DEF Sequences
<1>6. Len(delivered') \in Nat
  BY DEF IInv, TypeOK
<1>7. QED BY <1>1, <1>2, <1>3, <1>4, <1>5, <1>6 DEF Covers, Sequences

LEMMA CoversStored ==
    ASSUME IInv, NEW n \in Sequences, committer'.lastCommittedSeq = n,
           checkpoint' = delivered[n], delivered' = delivered
    PROVE  Covers'
<1>1. \A s \in Sequences : s <= n => delivered[s] <= delivered[n]
  <2>1. \A s \in Sequences : s < n => delivered[s] < delivered[n]
    BY DEF IInv, InOrder
  <2>2. \A s \in Sequences : delivered[s] \in Nat /\ s \in Nat
    BY ConsumerAssumption DEF IInv, TypeOK, Sequences, UserEvents
  <2>3. QED BY <2>1, <2>2
<1>2. n <= Len(delivered)
  BY DEF Sequences
<1>3. QED BY <1>1, <1>2 DEF Covers, Sequences

\* storeUncommittedLocked, of the committer as it is or with a goroutine less.
LEMMA StoreCovers ==
    ASSUME IInv, IInv', Covers, NEW com, NEW ok \in BOOLEAN, IsCommitter(com),
           com.lastCommittedSeq = committer.lastCommittedSeq,
           com.uncommittedSeq = committer.uncommittedSeq,
           com.uncommittedPos = committer.uncommittedPos,
           com.hasUncommittedPos = committer.hasUncommittedPos,
           StoreUncommitted(com, ok), delivered' = delivered
    PROVE  Covers'
<1>1. CASE committer' = Stored(com) /\ com.hasUncommittedPos
           /\ checkpoint' = com.uncommittedPos
  <2>1. committer'.lastCommittedSeq = committer.uncommittedSeq
    BY <1>1 DEF Stored, IsCommitter
  <2>2. /\ committer.uncommittedSeq \in Sequences
        /\ checkpoint' = delivered[committer.uncommittedSeq]
    BY <1>1 DEF IInv, TypeOK, Faithful, ExactFrontier
  <2>3. QED BY <2>1, <2>2, CoversStored
<1>2. CASE committer' = com /\ (checkpoint' = checkpoint
           \/ (com.hasUncommittedPos /\ checkpoint' = com.uncommittedPos))
  <2>1. checkpoint' = checkpoint \/ checkpoint' > checkpoint
    BY <1>2, StoreMovesForward
  <2>2. QED BY <1>2, <2>1, CoversStays
<1>3. QED BY <1>1, <1>2 DEF StoreUncommitted, StoreFails

LEMMA StepCovers == IInv /\ IInv' /\ Covers /\ [Next]_vars => Covers'
<1> SUFFICES ASSUME IInv, IInv', Covers, [Next]_vars PROVE Covers'
  OBVIOUS
<1>1. IsCommitter(committer)
  BY DEF IInv, TypeOK, CommitterTypeOK
<1>2. CASE UNCHANGED vars \/ SkipEvent
           \/ \E s \in Sequences : FinishHandling(s)
  BY <1>2, CoversStays DEF vars, committerVars, hostVars, SkipEvent, FinishHandling
<1>3. CASE DeliverEvent
  BY <1>3, CoversStays DEF DeliverEvent, committerVars
<1>4. ASSUME NEW s \in Sequences, CommitEvent(s) PROVE Covers'
  <2>1. PICK ok \in BOOLEAN : Commit(delivered[s], s, ok)
    BY <1>4 DEF CommitEvent
  <2>2. /\ delivered[s] \in Nat /\ s \in Nat \ {0} /\ CommitterTypeOK
        /\ delivered' = delivered
    BY <1>4, ConsumerAssumption DEF IInv, TypeOK, Sequences, UserEvents, CommitEvent
  <2>3. CASE committer'.lastCommittedSeq = committer.lastCommittedSeq
    <3>1. [Progress!ProgressNext]_(Progress!progressVars)
      BY StepIsProgress
    <3>2. checkpoint' = checkpoint \/ checkpoint' > checkpoint
      BY <3>1 DEF Progress!ProgressNext, Progress!progressVars, Progress!HandleEvent,
         Progress!MoveCheckpoint
    <3>3. QED BY <2>2, <2>3, <3>2, CoversStays
  <2>4. CASE \E n \in DOMAIN Recorded(committer.pending, s, delivered[s]) :
                /\ committer'.lastCommittedSeq = n
                /\ checkpoint' = Recorded(committer.pending, s, delivered[s])[n]
    <3>1. \A n \in DOMAIN Recorded(committer.pending, s, delivered[s]) :
             /\ n \in Sequences
             /\ Recorded(committer.pending, s, delivered[s])[n] = delivered[n]
      BY DEF Recorded, IInv, TypeOK, Faithful
    <3>2. QED BY <2>2, <2>4, <3>1, CoversStored
  <2>5. QED BY <2>1, <2>2, <2>3, <2>4, CommitStores
<1>5. CASE CommitterTimer
  <2>1. delivered' = delivered
    BY <1>5 DEF CommitterTimer, hostVars
  <2>2. CASE Tick \/ TimerFires
    BY <1>1, <2>1, <2>2, CoversStays DEF Tick, TimerFires, IsCommitter
  <2>3. CASE TimerFlush
    <3>1. PICK ok \in BOOLEAN :
             /\ committer.flushes > 0
             /\ StoreUncommitted([committer EXCEPT !.flushes = @ - 1], ok)
      BY <2>3 DEF TimerFlush
    <3>2. PICK com : com = [committer EXCEPT !.flushes = @ - 1]
      OBVIOUS
    <3>3. /\ IsCommitter(com)
          /\ com.lastCommittedSeq = committer.lastCommittedSeq
          /\ com.uncommittedSeq = committer.uncommittedSeq
          /\ com.uncommittedPos = committer.uncommittedPos
          /\ com.hasUncommittedPos = committer.hasUncommittedPos
      BY <1>1, <3>1, <3>2, FailuresAssumption DEF IsCommitter
    <3>4. QED BY <2>1, <3>1, <3>2, <3>3, StoreCovers
  <2>4. QED BY <1>5, <2>2, <2>3 DEF CommitterTimer
<1>6. CASE BeginClose
  <2>1. committer'.lastCommittedSeq = committer.lastCommittedSeq
    BY <1>1, <1>6 DEF BeginClose, StopTimer, IsCommitter
  <2>2. QED BY <1>6, <2>1, CoversStays DEF BeginClose, StopTimer
<1>7. ASSUME NEW ok \in BOOLEAN, FinishClose(ok) PROVE Covers'
  <2>1. StoreUncommitted(committer, ok) /\ delivered' = delivered
    BY <1>7 DEF FinishClose, Flush
  <2>2. QED BY <1>1, <2>1, StoreCovers
<1>8. CASE Restart
  <2>1. delivered' = <<>> /\ committer'.lastCommittedSeq = 0
    BY <1>8 DEF Restart, NewCheckpointCommitter
  <2>2. QED BY <2>1 DEF Covers, Sequences
<1>9. QED BY <1>2, <1>3, <1>4, <1>5, <1>6, <1>7, <1>8 DEF Next

\* A Close whose flush succeeds covers with the stored checkpoint every event that
\* is completed without a gap, in whatever order they were and whatever failed before.
THEOREM CloseLeavesNothingBehind == Spec => CloseStoresFrontier
<1>1. Init => Covers
  BY DEF Init, NewCheckpointCommitter, Covers, Sequences
<1>2. ASSUME IInv, Covers', NEW n \in Sequences, 1..n \subseteq completed, FinishClose(TRUE)
      PROVE  checkpoint' >= delivered[n]
  <2>1. n <= Frontier(committer)
    <3>1. Frontier(committer) \in Nat /\ n \in Nat \ {0}
      BY <1>2 DEF IInv, TypeOK, CommitterTypeOK, IsCommitter, Frontier, Sequences
    <3>2. Frontier(committer) + 1 \notin completed
      BY <1>2 DEF IInv, ExactFrontier, EndsRun
    <3>3. QED BY <1>2, <3>1, <3>2
  <2>2. committer'.lastCommittedSeq = Frontier(committer) /\ delivered' = delivered
    BY <1>2 DEF FinishClose, Flush, StoreUncommitted, Stored, Frontier, IInv, TypeOK,
       CommitterTypeOK, IsCommitter
  <2>3. n \in Sequences' /\ delivered'[n] <= checkpoint'
    BY <2>1, <2>2, <1>2 DEF Covers, Sequences
  <2>4. checkpoint' \in Int /\ delivered[n] \in Nat
    <3>1. checkpoint' = checkpoint \/ checkpoint' = committer.uncommittedPos
      BY <1>2 DEF FinishClose, Flush, StoreUncommitted, StoreFails
    <3>2. checkpoint \in Int /\ committer.uncommittedPos \in Int
      BY <1>2 DEF IInv, TypeOK, CommitterTypeOK, IsCommitter, NoCheckpoint
    <3>3. delivered[n] \in UserEvents
      BY <1>2 DEF IInv, TypeOK, Sequences
    <3>4. QED BY <3>1, <3>2, <3>3, ConsumerAssumption DEF UserEvents
  <2>5. QED BY <2>2, <2>3, <2>4
<1>3. ASSUME IInv, Covers', [Next]_vars
      PROVE  [\A n \in Sequences :
                 1..n \subseteq completed /\ FinishClose(TRUE)
                    => checkpoint' >= delivered[n]]_vars
  BY <1>2, <1>3
<1>4. QED BY <1>1, <1>3, InitInvariant, NextPreserves, StepCovers, PTL
          DEF Spec, CloseStoresFrontier
=============================================================================

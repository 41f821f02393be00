------------------------ MODULE CheckpointCommitter ------------------------
(***************************************************************************)
(* The checkpoint committer of core/subscription/committer.go and the      *)
(* checkpoint store it writes to.  Commit, Flush and the timer's Flush     *)
(* hold the committer's mutex throughout, the call of StoreCheckpoint      *)
(* included, so each is one step; Close releases it between stopping the   *)
(* timer and flushing.                                                     *)
(***************************************************************************)
EXTENDS Integers, FiniteSets

CONSTANTS MaxFailures,   \* how many calls of StoreCheckpoint may fail
          MaxFlushes     \* how many expired timers may wait for the mutex

ASSUME FailuresAssumption == MaxFailures \in Nat /\ MaxFlushes \in Nat

VARIABLES committer,    \* the CheckpointCommitter
          checkpoint,   \* the stored position, or NoCheckpoint
          failures      \* the calls of StoreCheckpoint that have failed

committerVars == <<committer, checkpoint, failures>>

NoCheckpoint == -1
Empty == [s \in {} |-> 0]

\* A faulty constructor that numbers events from 0.
NewCommitterFromZero(batchSize, interval) ==
    [batchSize |-> batchSize, interval |-> interval, pending |-> Empty,
     lastCommittedSeq |-> -1, uncommittedSeq |-> 0, uncommittedPos |-> 0,
     hasUncommittedPos |-> FALSE, count |-> 0, due |-> FALSE,
     timer |-> IF interval THEN "armed" ELSE "none", flushes |-> 0]

\* "due" says that the interval has passed since lastCommitTime; "flushes"
\* counts the timer's goroutines that have not got the mutex yet.
NewCheckpointCommitter(batchSize, interval) ==
    [batchSize         |-> batchSize,
     interval          |-> interval,
     pending           |-> Empty,
     lastCommittedSeq  |-> 0,
     uncommittedSeq    |-> 0,
     uncommittedPos    |-> 0,
     hasUncommittedPos |-> FALSE,
     count             |-> 0,
     due               |-> FALSE,
     timer             |-> IF interval THEN "armed" ELSE "none",
     flushes           |-> 0]

IsCommitter(com) ==
    /\ com \in
         [batchSize : Nat, interval : BOOLEAN, pending : {com.pending},
          lastCommittedSeq : Nat, uncommittedSeq : Nat, uncommittedPos : Nat,
          hasUncommittedPos : BOOLEAN, count : Nat, due : BOOLEAN,
          timer : {"none", "armed", "expired", "stopped"}, flushes : 0..MaxFlushes]
    /\ DOMAIN com.pending \subseteq Nat \ {0}
    /\ \A s \in DOMAIN com.pending : com.pending[s] \in Nat

CommitterTypeOK ==
    /\ IsCommitter(committer)
    /\ checkpoint \in Nat \union {NoCheckpoint}
    /\ failures \in 0..MaxFailures

\* A faulty frontier that forgets what has advanced and is not stored yet.
FrontierOfStored(com) == com.lastCommittedSeq

\* The last sequence number up to which everything is known to be processed.
Frontier(com) ==
    IF com.hasUncommittedPos THEN com.uncommittedSeq ELSE com.lastCommittedSeq

\* A faulty Stored that does not start the timer again.
StoredWithoutTimer(com) ==
    [com EXCEPT !.lastCommittedSeq = com.uncommittedSeq, !.hasUncommittedPos = FALSE,
                !.count = 0, !.due = FALSE]

\* The committer after StoreCheckpoint succeeded.
Stored(com) ==
    [com EXCEPT !.lastCommittedSeq = com.uncommittedSeq,
                !.hasUncommittedPos = FALSE,
                !.count = 0,
                !.due = FALSE,
                !.timer = IF com.interval THEN "armed" ELSE @]

\* A faulty error path that drops the position it could not store.
StoreFailsDropping(com) ==
    /\ failures < MaxFailures
    /\ failures' = failures + 1
    /\ checkpoint' \in {checkpoint, com.uncommittedPos}
    /\ committer' = [com EXCEPT !.hasUncommittedPos = FALSE]

\* StoreCheckpoint fails: nothing was written, or the write succeeded and its
\* answer was lost.
StoreFails(com) ==
    /\ failures < MaxFailures
    /\ failures' = failures + 1
    /\ checkpoint' \in {checkpoint, com.uncommittedPos}
    /\ committer' = com

\* storeUncommittedLocked of the committer "com"; "ok" is whether it returns nil.
StoreUncommitted(com, ok) ==
    \/ /\ ~com.hasUncommittedPos /\ ok
       /\ committer' = com /\ UNCHANGED <<checkpoint, failures>>
    \/ /\ com.hasUncommittedPos /\ ok
       /\ committer' = Stored(com)
       /\ checkpoint' = com.uncommittedPos
       /\ UNCHANGED failures
    \/ com.hasUncommittedPos /\ ~ok /\ StoreFails(com)

ShouldCommit(com) ==
    \/ com.batchSize > 0 /\ com.count >= com.batchSize
    \/ com.interval /\ com.due
    \/ com.batchSize = 0 /\ ~com.interval

Recorded(pending, sequence, position) ==
    [s \in DOMAIN pending \union {sequence} |->
        IF s = sequence THEN position ELSE pending[s]]

\* A faulty walk that goes on to the highest number, whatever is missing.
EndsRunOverGaps(start, n, S) ==
    n >= start /\ \A s \in S : s <= n

\* n ends the run of consecutive sequence numbers of S that follows "start".
EndsRun(start, n, S) ==
    n >= start /\ (start + 1)..n \subseteq S /\ n + 1 \notin S

\* The walk has moved the frontier to n, at the given position.
Advanced(com, n, position) ==
    [com EXCEPT !.uncommittedSeq = n,
                !.uncommittedPos = position,
                !.hasUncommittedPos = TRUE,
                !.count = @ + 1]

Commit(position, sequence, ok) ==
    LET recorded == Recorded(committer.pending, sequence, position)
        start    == Frontier(committer)
    IN  \E n \in {start} \union DOMAIN recorded :
          /\ EndsRun(start, n, DOMAIN recorded)
          /\ LET left == [s \in DOMAIN recorded \ ((start + 1)..n) |-> recorded[s]]
                 com  == [committer EXCEPT !.pending = left]
                 ahead == Advanced(com, n, recorded[n])
             IN  \/ /\ n = start /\ ok
                    /\ committer' = com /\ UNCHANGED <<checkpoint, failures>>
                 \/ /\ n > start /\ ~ShouldCommit(ahead) /\ ok
                    /\ committer' = ahead /\ UNCHANGED <<checkpoint, failures>>
                 \/ n > start /\ ShouldCommit(ahead) /\ StoreUncommitted(ahead, ok)

\* A faulty Flush that waits for a full batch as Commit does.
FlushWhenDue(ok) ==
    IF ShouldCommit(committer) THEN StoreUncommitted(committer, ok)
    ELSE ok /\ UNCHANGED committerVars

Flush(ok) == StoreUncommitted(committer, ok)

\* The interval has passed since the last commit.
Tick ==
    /\ committer.interval /\ ~committer.due
    /\ committer' = [committer EXCEPT !.due = TRUE]
    /\ UNCHANGED <<checkpoint, failures>>

\* The timer, set when lastCommitTime was, starts a goroutine that calls Flush.
TimerFires ==
    /\ committer.timer = "armed" /\ committer.due
    /\ committer.flushes < MaxFlushes
    /\ committer' = [committer EXCEPT !.timer = "expired", !.flushes = @ + 1]
    /\ UNCHANGED <<checkpoint, failures>>

\* That goroutine gets the mutex; nobody looks at the error of its Flush.
TimerFlush ==
    /\ committer.flushes > 0
    /\ \E ok \in BOOLEAN :
          StoreUncommitted([committer EXCEPT !.flushes = @ - 1], ok)

\* The first half of Close; the second is Flush.
StopTimer ==
    /\ committer' = [committer EXCEPT !.timer = IF @ = "armed" THEN "stopped" ELSE @]
    /\ UNCHANGED <<checkpoint, failures>>
=============================================================================

-------------------------- MODULE AggregateService --------------------------
(***************************************************************************)
(* The aggregate command service, core/command/aggservice.go: Handle loads *)
(* an aggregate, checks that it is new or existing as the handler expects, *)
(* lets the handler apply events to it and stores its changes.             *)
(***************************************************************************)
EXTENDS CommandCalls, Aggregate

VARIABLE agg    \* the aggregate of each call

AggregateInit == agg = [c \in AggCallers |-> NewAggregate]

Aggregates ==
    [state : Seq(Payloads), changes : Seq(Payloads), originalVersion : Int]

AggregateTypeOK == agg \in [AggCallers -> Aggregates]

Discard(c) == agg' = [agg EXCEPT ![c] = NewAggregate]

AggHandle(c, k) ==
    /\ BeginCall(c, k)
    /\ UNCHANGED agg

AggLoad(c, found, raw) ==
    /\ pc[c] = "load"
    /\ Proceed(c, "decide")
    /\ agg' = [agg EXCEPT ![c] = LoadAggregate(found, raw)]

\* EnsureNew or EnsureExists for the handler's expected state.
EnsureFails(c) ==
    \/ ExpectedOf(cmd[c]) = "IsNew" /\ ~IsNewAggregate(agg[c])
    \/ ExpectedOf(cmd[c]) = "IsExisting" /\ IsNewAggregate(agg[c])

AggRefuse(c) ==
    /\ pc[c] = "decide"
    /\ EnsureFails(c)
    /\ Return(c, Failure(IF ExpectedOf(cmd[c]) = "IsNew"
                         THEN "aggregateExists" ELSE "aggregateMissing"))
    /\ Discard(c)

\* The handler's act, which applies its events to the aggregate, and the
\* test for changes.
AggAct(c) ==
    /\ pc[c] = "decide"
    /\ ~EnsureFails(c)
    /\ LET decision == Act(cmd[c], agg[c].state)
       IN  \/ /\ decision.err
              /\ Return(c, Failure("rejected")) /\ Discard(c)
           \/ /\ ~decision.err /\ decision.events = <<>>
              /\ Return(c, NoOp(agg[c].state, agg[c].originalVersion)) /\ Discard(c)
           \/ /\ ~decision.err /\ decision.events # <<>>
              /\ \E new \in Batches :
                    new = decision.events /\ agg' = [agg EXCEPT ![c] = ApplyAll(@, new)]
              /\ Proceed(c, "append")

\* StoreAggregate's AppendEvents succeeded and the changes are cleared.  Handle
\* read the changes it reports before it stored them.
AggStored(c, appended, known) ==
    /\ pc[c] = "append"
    /\ Return(c, AppendedResult(agg[c].state, agg[c].changes, appended, known))
    /\ agg' = [agg EXCEPT ![c] = ClearChanges(@)]

AggConflict(c) ==
    /\ pc[c] = "append"
    /\ Return(c, Failure("conflict"))
    /\ Discard(c)
=============================================================================

--------------------------- MODULE CommandService ---------------------------
(***************************************************************************)
(* The functional command service, core/command/service.go: Handle loads   *)
(* the state of a stream, lets the handler decide, and appends what it     *)
(* decided on condition that the stream is still at the version loaded.    *)
(* The steps take the store's answers as parameters, so that a module that *)
(* composes the service with a store supplies them.                        *)
(***************************************************************************)
EXTENDS CommandCalls

VARIABLES seen,      \* the payloads LoadState folded into the state
          version,   \* the expected version LoadState returned
          fresh      \* the events Act returned

serviceVars == <<seen, version, fresh>>

ServiceInit ==
    /\ seen = [c \in Callers |-> <<>>]
    /\ version = [c \in Callers |-> VersionNoStream]
    /\ fresh = [c \in Callers |-> <<>>]

ServiceTypeOK ==
    /\ seen \in [Callers -> Seq(Payloads)]
    /\ version \in [Callers -> Int]
    /\ fresh \in [Callers -> Batches \union {<<>>}]

\* The locals of a call die when it returns.
Forget(c) ==
    /\ seen' = [seen EXCEPT ![c] = <<>>]
    /\ version' = [version EXCEPT ![c] = VersionNoStream]
    /\ fresh' = [fresh EXCEPT ![c] = <<>>]

Handle(c, k) ==
    /\ BeginCall(c, k)
    /\ UNCHANGED serviceVars

\* A faulty load that reads again until LoadState has no error.
LoadUntilFound(c, found, raw) ==
    /\ pc[c] = "load"
    /\ LET loaded == LoadState(found, raw, ExpectedOf(cmd[c]))
       IN  /\ loaded.err = "none"
           /\ Proceed(c, "decide")
           /\ seen' = [seen EXCEPT ![c] = loaded.payloads]
           /\ version' = [version EXCEPT ![c] = loaded.version]
           /\ UNCHANGED fresh

\* LoadState, on what the store answered to ReadEvents.
Load(c, found, raw) ==
    /\ pc[c] = "load"
    /\ LET loaded == LoadState(found, raw, ExpectedOf(cmd[c]))
       IN  IF loaded.err = "none"
           THEN /\ Proceed(c, "decide")
                /\ seen' = [seen EXCEPT ![c] = loaded.payloads]
                /\ version' = [version EXCEPT ![c] = loaded.version]
                /\ UNCHANGED fresh
           ELSE Return(c, Failure(loaded.err)) /\ UNCHANGED serviceVars

\* The handler rejects the command, or decides that nothing happens, or
\* decides on events that go to the store.
Decide(c) ==
    /\ pc[c] = "decide"
    /\ LET decision == Act(cmd[c], seen[c])
       IN  \/ /\ decision.err
              /\ Return(c, Failure("rejected")) /\ Forget(c)
           \/ /\ ~decision.err /\ decision.events = <<>>
              /\ Return(c, NoOp(seen[c], version[c])) /\ Forget(c)
           \/ /\ ~decision.err /\ decision.events # <<>>
              /\ \E new \in Batches :
                    new = decision.events /\ fresh' = [fresh EXCEPT ![c] = new]
              /\ Proceed(c, "append") /\ UNCHANGED <<seen, version>>

\* AppendEvents succeeded with the given AppendResult, and the TypeMap knows the
\* types of the payloads "known".
Appended(c, appended, known) ==
    /\ pc[c] = "append"
    /\ Return(c, AppendedResult(seen[c] \o fresh[c], fresh[c], appended, known))
    /\ Forget(c)

\* AppendEvents returned ErrOptimisticConcurrency.
Conflict(c) ==
    /\ pc[c] = "append"
    /\ Return(c, Failure("conflict"))
    /\ Forget(c)
=============================================================================

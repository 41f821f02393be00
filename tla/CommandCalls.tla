---------------------------- MODULE CommandCalls ----------------------------
(***************************************************************************)
(* What the two command services of core/command have in common: calls of  *)
(* Handle made by concurrent callers, a registry of handlers, and the      *)
(* results of core/command/result.go.                                      *)
(*                                                                         *)
(* The folded state is the list of payloads it is folded from (see         *)
(* Eventuous), and a handler is the pure function Act of a command and of  *)
(* that list.                                                              *)
(***************************************************************************)
EXTENDS Eventuous

CONSTANTS Callers,      \* goroutines that call Service.Handle
          AggCallers,   \* goroutines that call AggregateService.Handle
          Commands,     \* commands, each of a type of its own
          NoCommand,    \* the command of a caller that has made no call yet
          Handlers,     \* registered commands -> [stream, expected]
          Act(_, _),    \* the handler's decision: [err, events]
          Batches       \* the event lists handlers return

AllCallers == Callers \union AggCallers

ASSUME CallersAssumption == Callers \intersect AggCallers = {}
ASSUME HandlersAssumption ==
    /\ DOMAIN Handlers \subseteq Commands
    /\ \A k \in DOMAIN Handlers :
          Handlers[k].stream \in Streams /\ Handlers[k].expected \in ExpectedStates
    /\ NoCommand \notin Commands
ASSUME BatchesAssumption == Batches \subseteq Seq(Payloads)

VARIABLES pc,       \* where each caller is: "idle", or the step of Handle it is at
          cmd,      \* the command of its current or last call
          result    \* what its last call returned, "pending" while it runs

callVars == <<pc, cmd, result>>

StreamOf(k) == Handlers[k].stream
ExpectedOf(k) == Handlers[k].expected

Outcomes == {"none", "pending", "ok", "noop", "handlerNotFound", "streamNotFound",
             "streamExists", "aggregateExists", "aggregateMissing", "rejected",
             "conflict", "storeFailed", "typeUnknown"}

Results ==
    [outcome : Outcomes, state : Seq(Payloads), changes : Seq(Payloads),
     version : Int, global : Nat]

\* Handle returned a nil Result and an error.
Failure(outcome) ==
    [outcome |-> outcome, state |-> <<>>, changes |-> <<>>,
     version |-> VersionNoStream, global |-> 0]

\* Handle returned a Result: of a call that decided nothing, or of one whose
\* events the store accepted with the answer "appended".
NoOp(state, version) ==
    [outcome |-> "noop", state |-> state, changes |-> <<>>,
     version |-> version, global |-> 0]

Success(state, changes, appended) ==
    [outcome |-> "ok", state |-> state, changes |-> changes,
     version |-> appended.version, global |-> appended.global]

\* The events are in the store by the time their type names are looked up, and
\* one whose type the TypeMap does not know makes the call fail.
AppendedResult(state, changes, appended, known) ==
    IF \A i \in 1..Len(changes) : changes[i] \in known
    THEN Success(state, changes, appended)
    ELSE Failure("typeUnknown")

CallsInit ==
    /\ pc = [c \in AllCallers |-> "idle"]
    /\ cmd = [c \in AllCallers |-> NoCommand]
    /\ result = [c \in AllCallers |-> Failure("none")]

CallsTypeOK ==
    /\ pc \in [AllCallers -> {"idle", "load", "decide", "append"}]
    /\ cmd \in [AllCallers -> Commands \union {NoCommand}]
    /\ result \in [AllCallers -> Results]
    /\ \A c \in AllCallers : pc[c] # "idle" => cmd[c] \in DOMAIN Handlers

\* A faulty start of Handle that does not look the handler up.
BeginCallUnchecked(c, k) ==
    /\ pc[c] = "idle"
    /\ cmd' = [cmd EXCEPT ![c] = k]
    /\ pc' = [pc EXCEPT ![c] = "load"]
    /\ result' = [result EXCEPT ![c] = Failure("pending")]

\* Handle(command) is called; a command with no handler fails at once.
BeginCall(c, k) ==
    /\ pc[c] = "idle"
    /\ cmd' = [cmd EXCEPT ![c] = k]
    /\ IF k \in DOMAIN Handlers
       THEN /\ pc' = [pc EXCEPT ![c] = "load"]
            /\ result' = [result EXCEPT ![c] = Failure("pending")]
       ELSE /\ pc' = pc
            /\ result' = [result EXCEPT ![c] = Failure("handlerNotFound")]

Proceed(c, step) ==
    /\ pc' = [pc EXCEPT ![c] = step]
    /\ UNCHANGED <<cmd, result>>

Return(c, r) ==
    /\ pc' = [pc EXCEPT ![c] = "idle"]
    /\ result' = [result EXCEPT ![c] = r]
    /\ UNCHANGED cmd
=============================================================================

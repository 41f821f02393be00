--------------------------- MODULE AtomicCommands ---------------------------
(***************************************************************************)
(* What a caller of a command service is promised, without loads, versions *)
(* or conflicts between steps: every call takes effect, or is answered, on *)
(* the events of its stream as they are at one instant between the call    *)
(* and its return.                                                         *)
(***************************************************************************)
EXTENDS Integers, Sequences

CONSTANTS AllCallers, Commands, NoCommand, Handlers, Act(_, _), Streams, Registered

VARIABLES log,      \* the payloads of each stream
          calling,  \* the command each caller waits for, or NoCommand
          since,    \* the length of its stream when it called
          answer    \* the outcome of its last call, with the state and version

abstractVars == <<log, calling, since, answer>>

Answer(outcome, state) ==
    [outcome |-> outcome, state |-> state, version |-> Len(state) - 1]
NoAnswer(outcome) == Answer(outcome, <<>>)

AtomicInit ==
    /\ log = [s \in Streams |-> <<>>]
    /\ calling = [c \in AllCallers |-> NoCommand]
    /\ since = [c \in AllCallers |-> 0]
    /\ answer = [c \in AllCallers |-> NoAnswer("none")]

Invoke(c, k) ==
    /\ calling[c] = NoCommand
    /\ IF k \in DOMAIN Handlers
       THEN /\ calling' = [calling EXCEPT ![c] = k]
            /\ since' = [since EXCEPT ![c] = Len(log[Handlers[k].stream])]
            /\ answer' = [answer EXCEPT ![c] = NoAnswer("pending")]
       ELSE /\ answer' = [answer EXCEPT ![c] = NoAnswer("handlerNotFound")]
            /\ UNCHANGED <<calling, since>>
    /\ UNCHANGED log

Reply(c, a) ==
    /\ calling' = [calling EXCEPT ![c] = NoCommand]
    /\ since' = [since EXCEPT ![c] = 0]
    /\ answer' = [answer EXCEPT ![c] = a]

\* The expected state admits a stream that holds these events.
Admits(k, events) ==
    CASE Handlers[k].expected = "IsNew"      -> events = <<>>
      [] Handlers[k].expected = "IsExisting" -> events # <<>>
      [] Handlers[k].expected = "IsAny"      -> TRUE

\* The command takes effect on the whole of its stream as it is.
Commit(c) ==
    /\ calling[c] # NoCommand
    /\ LET k    == calling[c]
           s    == Handlers[k].stream
           made == Act(k, log[s])
       IN  /\ Admits(k, log[s]) /\ ~made.err /\ made.events # <<>>
           /\ log' = [log EXCEPT ![s] = @ \o made.events]
           /\ Reply(c, IF \A i \in 1..Len(made.events) : made.events[i] \in Registered
                       THEN Answer("ok", log[s] \o made.events)
                       ELSE NoAnswer("typeUnknown"))

\* The call has no effect and its answer is right for the events the stream
\* held at some instant since the call.
Observe(c) ==
    /\ calling[c] # NoCommand
    /\ LET k == calling[c]
           s == Handlers[k].stream
       IN  \E n \in since[c]..Len(log[s]) :
             LET then == SubSeq(log[s], 1, n)
                 made == Act(k, then)
             IN  \/ /\ ~Admits(k, then)
                    /\ \E e \in {"streamNotFound", "streamExists",
                                 "aggregateExists", "aggregateMissing"} :
                          /\ (e \in {"streamExists", "aggregateExists"}) = (n > 0)
                          /\ Reply(c, NoAnswer(e))
                 \/ /\ Admits(k, then) /\ made.err
                    /\ Reply(c, NoAnswer("rejected"))
                 \/ /\ Admits(k, then) /\ ~made.err /\ made.events = <<>>
                    /\ Reply(c, Answer("noop", then))
    /\ UNCHANGED log

\* The call has no effect because others extended the stream meanwhile.
GiveUp(c) ==
    /\ calling[c] # NoCommand
    /\ Len(log[Handlers[calling[c]].stream]) > since[c]
    /\ Reply(c, NoAnswer("conflict"))
    /\ UNCHANGED log

AtomicNext ==
    \E c \in AllCallers :
        \/ \E k \in Commands : Invoke(c, k)
        \/ Commit(c)
        \/ Observe(c)
        \/ GiveUp(c)

AtomicSpec == AtomicInit /\ [][AtomicNext]_abstractVars
=============================================================================

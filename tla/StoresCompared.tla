--------------------------- MODULE StoresCompared ---------------------------
(***************************************************************************)
(* The tests of the core run on the in-memory store.  Here it is given     *)
(* every call that is made of the KurrentDB store, with the same           *)
(* arguments, beside it.                                                   *)
(***************************************************************************)
EXTENDS KurrentCommands

VARIABLES streams, globalPosition,   \* the in-memory store
          apart    \* history: streams the two answered differently about, or
                   \* that were truncated beyond their end

Mem == INSTANCE MemStore

memVars == <<streams, globalPosition, apart>>
comparedVars == <<vars, memVars>>

ComparedInit == Init /\ Mem!StoreInit /\ apart = {}

ComparedTypeOK == TypeOK /\ Mem!StoreTypeOK /\ apart \subseteq Streams

\* The in-memory store takes the call too, or refuses it as it would; "taken" is
\* whether the KurrentDB store took it.
Answers(s, expected, taken) ==
    apart' = IF Mem!VersionMatches(s, expected) <=> taken
             THEN apart ELSE apart \union {s}

BothAppend(c) ==
    LET s == CallStream(c)
    IN  /\ ServiceStore(c)
        /\ IF pc[c] = "append" /\ (log' # log \/ failures' = failures)
           THEN /\ Answers(s, version[c], log' # log)
                /\ \/ Mem!AppendEvents(s, version[c], fresh[c])
                   \/ Mem!AppendConflict(s, version[c])
           ELSE UNCHANGED memVars

BothDelete(s, expected) ==
    /\ Delete(s, expected)
    /\ Answers(s, expected, TRUE)
    /\ Mem!DeleteStream(s, expected) \/ Mem!AppendConflict(s, expected)

\* A truncation beyond the end hides events to come, but for the in-memory store.
BothTruncate(m, s, position, expected) ==
    /\ CheckVersion(m, s, position, expected)
    /\ apart' = IF (Mem!VersionMatches(s, expected) /\ position <= Len(log[s]))
                THEN apart ELSE apart \union {s}
    /\ Mem!TruncateStream(s, position, expected) \/ Mem!AppendConflict(s, expected)

\* What other programs append never reaches the in-memory store.
OneAppends(s) ==
    ForeignAppend(s) /\ apart' = apart \union {s} /\ UNCHANGED <<streams, globalPosition>>

OneSteps ==
    /\ \/ \E c \in Callers : ServiceLocal(c) \/ \E k \in Commands : ServiceCall(c, k)
       \/ \E m \in Maintainers : WriteMetadata(m)
       \/ \E t \in GoTypes, n \in Names : RegisterType(t, n)
    /\ UNCHANGED memVars

ComparedNext ==
    \/ OneSteps
    \/ \E c \in Callers : BothAppend(c)
    \/ \E s \in Streams, expected \in Expectable :
          \/ BothDelete(s, expected)
          \/ \E m \in Maintainers, position \in Positions :
                BothTruncate(m, s, position, expected)
    \/ \E s \in Streams : OneAppends(s)

ComparedSpec == ComparedInit /\ [][ComparedNext]_comparedVars

-----------------------------------------------------------------------------
Settled(s) == \A m \in Maintainers : truncating[m] # NoTruncation => truncating[m].stream # s

\* The in-memory store stands in for KurrentDB.  A stream nobody else appends to,
\* deletes or truncates is the same in both, for every expected version and every
\* read.  Once it has been deleted or truncated they show the same payloads for as
\* long as they take the same calls.
StandsIn ==
    \A s \in Streams :
        /\ touched[s] = 0 /\ s \notin apart =>
              /\ AsRead(log[s]) = [i \in 1..Len(streams[s]) |->
                                      [streams[s][i] EXCEPT !.global = log[s][i].global]]
              /\ \A v \in Expectable : Matches(s, v) <=> Mem!VersionMatches(s, v)
              /\ \A v \in Expectable : TruncateAllowed(s, v) <=> Mem!VersionMatches(s, v)
              /\ \A new \in Batches :
                    KurrentResult(s, new).version = Mem!AppendResult(s, new).version
              /\ KurrentFound(s) <=> Mem!StreamFound(s)
              /\ \A start, count \in 0..MaxEvents :
                    /\ PayloadsOf(ReadEvents(s, start, count)) =
                          PayloadsOf(Mem!ReadEvents(s, start, count))
                    /\ start < Len(log[s]) =>
                          PayloadsOf(ReadEventsBackwards(s, start, count)) =
                              PayloadsOf(Mem!ReadEventsBackwards(s, start, count))
        /\ touched[s] <= 1 /\ s \notin apart /\ Settled(s) =>
              /\ StreamExists(s) <=> Mem!StreamExists(s)
              /\ StreamExists(s) =>
                    PayloadsOf(ReadEvents(s, 0, Everything)) = PayloadsOf(streams[s])
=============================================================================

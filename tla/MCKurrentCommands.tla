------------------------- MODULE MCKurrentCommands -------------------------
(***************************************************************************)
(* A small instance of the two stores: accounts that are opened, with two  *)
(* events, used and noted.  The type of a note is registered late or not   *)
(* at all, and another program writes notes under the name it has there.   *)
(***************************************************************************)
EXTENDS StoresCompared, TLC

MCHandlers ==
    [k \in {"open", "use", "note"} |->
        [stream   |-> "s1",
         expected |-> CASE k = "open" -> "IsNew" [] k = "use" -> "IsExisting"
                        [] k = "note" -> "IsAny"]]

\* Using an account a second time is rejected, noting it a second time a no-op.
MCAct(k, events) ==
    CASE k = "open" -> [err |-> FALSE, events |-> <<"opened", "used">>]
      [] k = "use"  -> [err |-> Len(events) > 2, events |-> <<"used">>]
      [] k = "note" -> [err |-> FALSE,
                        events |-> IF Len(events) > 1 THEN <<>> ELSE <<"noted">>]

MCBatches == {<<"opened", "used">>, <<"used">>, <<"noted">>}

\* A payload stands for its Go type.
MCTypeOf(payload) == payload

MCInitially == [t \in {"opened", "used"} |-> IF t = "opened" THEN "Opened" ELSE "Used"]

MCCallers == Permutations(Callers)

MCForeign == {[name |-> "Noted", payload |-> "noted"]}
=============================================================================

------------------------------ MODULE TypeMap ------------------------------
(***************************************************************************)
(* The TypeMap of core/codec/typemap.go: the Go types of events and the    *)
(* names they are stored under, in both directions.  Each method holds the *)
(* map's mutex, so each is one atomic step.                                *)
(***************************************************************************)
CONSTANTS GoTypes,   \* the Go types of a program's events
          Names      \* the event type names in use

Unmapped == "unmapped"

ASSUME TypeMapAssumption == Unmapped \notin GoTypes \union Names

VARIABLES toName,    \* the name of each Go type, or Unmapped
          fromName   \* the Go type of each name, or Unmapped

typeMapVars == <<toName, fromName>>

NewTypeMap ==
    /\ toName = [t \in GoTypes |-> Unmapped]
    /\ fromName = [n \in Names |-> Unmapped]

TypeMapTypeOK ==
    /\ toName \in [GoTypes -> Names \union {Unmapped}]
    /\ fromName \in [Names -> GoTypes \union {Unmapped}]

\* A faulty Register that does not look at the name.
RegisterOverName(t, n) ==
    IF toName[t] = Unmapped
    THEN /\ toName' = [toName EXCEPT ![t] = n]
         /\ fromName' = [fromName EXCEPT ![n] = t]
    ELSE UNCHANGED typeMapVars

\* Register: a type or a name that is taken is left as it is, and the call
\* returns an error unless they are mapped to each other.
Register(t, n) ==
    IF toName[t] = Unmapped /\ fromName[n] = Unmapped
    THEN /\ toName' = [toName EXCEPT ![t] = n]
         /\ fromName' = [fromName EXCEPT ![n] = t]
    ELSE UNCHANGED typeMapVars

\* TypeName succeeds for a value of type t; NewInstance does for the name n.
HasTypeName(t) == t \in GoTypes /\ toName[t] # Unmapped

HasInstance(n) == fromName[n] # Unmapped
=============================================================================

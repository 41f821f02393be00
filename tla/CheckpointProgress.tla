------------------------- MODULE CheckpointProgress -------------------------
(***************************************************************************)
(* What a checkpoint promises: it moves forward only, and only past events *)
(* that have all been handled, so that nothing is lost to a subscriber     *)
(* that resumes after it.                                                  *)
(***************************************************************************)
EXTENDS Integers

CONSTANT UserEvents   \* the positions of the events a subscriber must handle

VARIABLES handled,    \* the positions handled at least once
          checkpoint  \* the stored position, -1 when there is none

progressVars == <<handled, checkpoint>>

ProgressInit == handled = {} /\ checkpoint = -1

HandleEvent ==
    /\ \E p \in UserEvents : handled' = handled \union {p}
    /\ UNCHANGED checkpoint

MoveCheckpoint ==
    /\ checkpoint' \in {p \in UserEvents :
          p > checkpoint /\ \A q \in UserEvents : q <= p => q \in handled}
    /\ UNCHANGED handled

ProgressNext == HandleEvent \/ MoveCheckpoint

ProgressSpec == ProgressInit /\ [][ProgressNext]_progressVars
=============================================================================

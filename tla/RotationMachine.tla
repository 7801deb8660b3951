--------------------------- MODULE RotationMachine ---------------------------
(***************************************************************************)
(* RotationMachine of gp-core: the states a guardian rotation goes through,  *)
(* by the events that the machine is told of.  Certificates are valid; the   *)
(* time that has passed and the records that are prepared come with events.  *)
(***************************************************************************)
VARIABLES
  elapsed,      \* whether the time of the event is past not_before
  prepared,     \* the successor records that are reported as durable
  successors,   \* the successor records that are expected
  state,
  ambiguous

vars == <<state, ambiguous>>

Init == state = "Proposed" /\ ambiguous = FALSE

\* An aborted rotation has a tombstone, and an ambiguous one fails closed.
Move(from, to) == /\ ~ambiguous
                  /\ state = from
                  /\ state' = to
                  /\ UNCHANGED ambiguous

BeginAccepted == Move("Proposed", "DelayPending")

ReleaseAccepted == elapsed /\ Move("DelayPending", "Preparing")

PreparationComplete == /\ successors # {}
                       /\ prepared' = successors
                       /\ Move("Preparing", "Ready")

ActivationAuthorized == Move("Ready", "Activating")

WitnessQcObserved == Move("Activating", "Active")

DrainStarted == Move("Active", "Draining")

DrainDeadlineReached == elapsed /\ Move("Draining", "Retired")

\* OwnerCancelObserved and AbortObserved.
AbortObserved ==
  \E from \in {"Proposed", "DelayPending", "Preparing", "Ready", "Activating"} :
    Move(from, "Aborted")

ConflictObserved == /\ ~ambiguous
                    /\ state # "Aborted"
                    /\ ambiguous' = TRUE
                    /\ UNCHANGED state

apply == \/ BeginAccepted \/ ReleaseAccepted \/ PreparationComplete
         \/ ActivationAuthorized \/ WitnessQcObserved
         \/ DrainStarted \/ DrainDeadlineReached
         \/ AbortObserved \/ ConflictObserved

Spec == Init /\ [][apply]_vars
=============================================================================

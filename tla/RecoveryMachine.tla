--------------------------- MODULE RecoveryMachine ---------------------------
(***************************************************************************)
(* RecoveryMachine of gp-core: the states a recovery goes through on the     *)
(* client, by the events that it is told of.                                 *)
(***************************************************************************)
EXTENDS Naturals

CONSTANTS delay, None

VARIABLES
  now,        \* the time that apply is given
  state,
  not_before

vars == <<state, not_before>>

Terminal == {"Cancelled", "Expired"}

Init == state = "Created" /\ not_before = None

Move(from, to) == state = from /\ state' = to

RequestCreated == Move("Created", "AwaitingApprovals") /\ UNCHANGED not_before

ApprovalThresholdReached == Move("AwaitingApprovals", "Authorized") /\ UNCHANGED not_before

BeginAccepted == Move("Authorized", "DelayPending") /\ not_before' = now + delay

ReleaseCertificateReady ==
  /\ Move("DelayPending", "Releasing")
  /\ now >= not_before
  /\ UNCHANGED not_before

GuardianThresholdReached == Move("Releasing", "Completed") /\ UNCHANGED not_before

OwnerCancelObserved ==
  /\ state \in {"AwaitingApprovals", "Authorized", "DelayPending"}
  /\ state' = "Cancelled"
  /\ UNCHANGED not_before

ExpiryReached ==
  /\ state \notin Terminal
  /\ state' = "Expired"
  /\ UNCHANGED not_before

apply == \/ RequestCreated \/ ApprovalThresholdReached \/ BeginAccepted
         \/ ReleaseCertificateReady \/ GuardianThresholdReached
         \/ OwnerCancelObserved \/ ExpiryReached

Spec == Init /\ [][apply]_vars
=============================================================================

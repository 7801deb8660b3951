-------------------------- MODULE MCRecoveryNetwork --------------------------
(* Small instances of RecoveryNetwork for TLC. *)
EXTENDS RecoveryNetwork

CONSTANT q1

OwnIds == [q \in Request |-> q]

\* Requests are fresh at all times.
RequestedAt == [q \in Request |-> 0]
Expiry == [q \in Request |-> 1]
=============================================================================

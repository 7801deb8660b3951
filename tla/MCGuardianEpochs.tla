-------------------------- MODULE MCGuardianEpochs --------------------------
(* Instances of GuardianEpochs for TLC: p1 and s1 are rotations of the first  *)
(* epoch, q1 is a recovery bound to it.                                       *)
EXTENDS GuardianEpochs, TLC

CONSTANTS p1, s1, q1

MCRotationId == [p \in Plan |-> IF p = p1 THEN "rp" ELSE "rs"]
MCPredecessor == [p \in Plan |-> Genesis]
MCRequestId == [q \in Request |-> "id1"]
MCNonce == [q \in Request |-> "nonce1"]
MCConfigRef == [q \in Request |-> Genesis]
=============================================================================

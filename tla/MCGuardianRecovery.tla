------------------------- MODULE MCGuardianRecovery -------------------------
(* Instances of GuardianRecovery for TLC: q1 and q2 are different requests    *)
(* under one request id.                                                      *)
EXTENDS GuardianRecovery, TLC

CONSTANTS q1, q2

MCRequestId == [q \in Request |-> "id1"]
MCNonce == [q \in Request |-> IF q = q2 THEN "nonce2" ELSE "nonce1"]
MCRequestedAt == [q \in Request |-> 1]
MCExpiry == [q \in Request |-> 3]

MCSymmetry == Permutations(Honest)
=============================================================================

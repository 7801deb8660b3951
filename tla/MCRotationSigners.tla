-------------------------- MODULE MCRotationSigners --------------------------
(* Instances of RotationSigners for TLC: plans p1 and q1 are of two rotations *)
(* of the genesis epoch; cp and dp are capsules of p1, cq is of q1.  The       *)
(* context of p1 expires while q1 can still be prepared.                       *)
EXTENDS RotationSigners, TLC

CONSTANTS p1, q1, cp, dp, cq

MCRotationId == [x \in Plan |-> IF x = p1 THEN "r1" ELSE "r2"]
MCPredecessor == [x \in Plan |-> Genesis]
MCPlanOf == [c \in Capsule |-> IF c = cq THEN q1 ELSE p1]
MCNotBefore == [x \in Plan |-> 1]
MCDeadline == [x \in Plan |-> IF x = p1 THEN 2 ELSE 4]
MCExpiry == [r \in Rotation |-> IF r = "r1" THEN 3 ELSE 4]
=============================================================================

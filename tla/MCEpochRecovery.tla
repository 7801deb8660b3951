--------------------------- MODULE MCEpochRecovery ---------------------------
(* Small instances of EpochRecovery for TLC. *)
EXTENDS EpochRecovery

CONSTANTS q1, q2

\* The rotation replaces the first of three guardians.
OneRotation == <<{1, 2, 3}, {2, 3, 4}>>

TwoRotations == <<{1, 2, 3}, {2, 3, 4}, {3, 4, 5}>>
=============================================================================

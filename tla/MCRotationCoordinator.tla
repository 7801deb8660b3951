------------------------ MODULE MCRotationCoordinator ------------------------
(* Small instances of RotationCoordinator for TLC. *)
EXTENDS RotationCoordinator

\* Run 1 replaces the first guardian, run 2 the second.
RemoveInTurn == [r \in 1..MaxRuns |-> r]

=============================================================================

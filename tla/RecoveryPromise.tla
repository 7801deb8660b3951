--------------------------- MODULE RecoveryPromise ---------------------------
(***************************************************************************)
(* What the commands of the program promise about a recovery request: it is  *)
(* reported as recovered or as permanently cancelled, never as both, and a   *)
(* report stands.                                                            *)
(***************************************************************************)
CONSTANT Request

VARIABLE outcome     \* outcome[q]: what has been reported of q

Init == outcome = [q \in Request |-> {}]

Report(q, result) == /\ outcome[q] = {}
                     /\ outcome' = [outcome EXCEPT ![q] = {result}]

Next == \E q \in Request, result \in {"recovered", "cancelled"} : Report(q, result)

Spec == Init /\ [][Next]_outcome
=============================================================================

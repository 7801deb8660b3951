--------------------------- MODULE MCWitnessEpochs ---------------------------
(* Instances of WitnessEpochs for TLC: a and b are siblings, the children of   *)
(* the genesis capsule; a2 is the child of a.                                  *)
EXTENDS WitnessEpochs, TLC

CONSTANTS a, b, a2

MCPred == [c \in Successor |-> IF c = a2 THEN a ELSE Genesis]

MCEpoch == [c \in Capsule |-> CASE c = Genesis -> 1
                                [] c \in {a, b} -> 2
                                [] OTHER -> 3]

\* Honest witnesses, readers and certificates are interchangeable.
MCSymmetry == Permutations(Honest) \cup Permutations(Reader) \cup Permutations(CancelCert)
=============================================================================

\* Four witnesses, f = 1, one of them faulty; two sibling rotations, a rotation
\* of the second epoch and a fresh client.
SPECIFICATION Spec
CONSTANTS
  Witness = {w1, w2, w3, w4}
  Faulty = {w4}
  witness_fault_bound = 1
  Genesis = g
  Successor = {a, b, a2}
  a = a
  b = b
  a2 = a2
  Pred <- MCPred
  Epoch <- MCEpoch
  CancelCert = {k1}
  Reader = {r1}
  SaveMayFail = FALSE
  None = None
SYMMETRY MCSymmetry
INVARIANTS
  TypeOK
  ForkNeedsVeto
  WriteExcludesVeto
  ReadsAreFresh
CHECK_DEADLOCK FALSE

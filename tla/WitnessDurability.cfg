\* Four witnesses, f = 1, one faulty; state files may fail to be written and
\* witnesses restart; one rotation, one owner cancellation and a fresh client.
SPECIFICATION Spec
CONSTANTS
  Witness = {w1, w2, w3, w4}
  Faulty = {w4}
  witness_fault_bound = 1
  Genesis = g
  Successor = {a}
  a = a
  b = b
  a2 = a2
  Pred <- MCPred
  Epoch <- MCEpoch
  CancelCert = {k1}
  Reader = {r1}
  SaveMayFail = TRUE
  None = None
SYMMETRY MCSymmetry
INVARIANTS
  ServedEpochIsDurable
  VetoIsDurable
CHECK_DEADLOCK FALSE

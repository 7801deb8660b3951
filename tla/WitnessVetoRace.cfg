\* Four honest witnesses: a completed owner cancellation against a QC whose acks
\* had already been collected.
SPECIFICATION Spec
CONSTANTS
  Witness = {w1, w2, w3, w4}
  Faulty = {}
  witness_fault_bound = 1
  Genesis = g
  Successor = {a}
  a = a
  b = b
  a2 = a2
  Pred <- MCPred
  Epoch <- MCEpoch
  CancelCert = {k1}
  Reader = {r1}
  SaveMayFail = FALSE
  None = None
SYMMETRY MCSymmetry
INVARIANTS
  VetoedIsNeverSelected
CHECK_DEADLOCK FALSE

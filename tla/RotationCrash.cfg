SPECIFICATION Spec
CONSTANTS
  signer_count = 3
  signer_threshold = 2
  guardian_count = 3
  guardian_threshold = 2
  witness_fault_bound = 1
  relay_count = 2
  remove_guardian <- RemoveInTurn
  MaxRuns = 1
  MaxCancels = 0
  MaxLosses = 0
  MaxCrashes = 1
  None = None
INVARIANT StoppedRotationIsServed
CHECK_DEADLOCK FALSE

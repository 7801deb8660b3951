SPECIFICATION Spec
CONSTANTS
  signer_count = 3
  signer_threshold = 2
  guardian_count = 3
  guardian_threshold = 2
  witness_fault_bound = 1
  relay_count = 2
  remove_guardian <- RemoveInTurn
  MaxRuns = 2
  MaxCancels = 1
  MaxLosses = 1
  MaxCrashes = 1
  None = None
INVARIANTS
  TypeOK
  OneOutcome
  FinalizedIsHeld
  OldEpochServes
CHECK_DEADLOCK FALSE
PROPERTIES
  UndisturbedRotationCompletes
  RotationFollowsMachine

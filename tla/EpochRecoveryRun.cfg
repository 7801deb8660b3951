SPECIFICATION Spec
CONSTANTS
  q1 = q1
  q2 = q2
  Signer = {1, 2}
  signer_threshold = 2
  roster <- TwoRotations
  guardian_threshold = 2
  Witness = {1}
  relay_count = 2
  minimum_recovery_delay = 1
  read_lifetime = 1
  Request = {q1}
  FreeTime = 1
  MaxLosses = 1
  None = None
INVARIANTS
  TypeOK
PROPERTIES
  CutoverIsFinal
  StaleReadsExpire
  BegunIsRecovered
  GuardianFollowsMachine
CHECK_DEADLOCK FALSE

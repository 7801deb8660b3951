SPECIFICATION Spec
CONSTANTS
  q1 = q1
  q2 = q2
  Signer = {1, 2}
  signer_threshold = 2
  roster <- OneRotation
  guardian_threshold = 2
  Witness = {1}
  relay_count = 1
  minimum_recovery_delay = 1
  read_lifetime = 1
  Request = {q1, q2}
  FreeTime = 0
  MaxLosses = 0
  None = None
PROPERTIES
  DrainingIsServed
CHECK_DEADLOCK FALSE

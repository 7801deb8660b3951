\* Three guardians, one of them malicious, any two reconstruct; two requests under
\* one id are begun, cancelled and released while state files fail, processes
\* restart and machines reboot.
SPECIFICATION Spec
CONSTANTS
  Guardian = {g1, g2, g3}
  Malicious = {g3}
  guardian_threshold = 2
  minimum_recovery_delay = 1
  Request = {q1, q2}
  q1 = q1
  q2 = q2
  request_id <- MCRequestId
  nonce <- MCNonce
  requested_at <- MCRequestedAt
  expiry <- MCExpiry
  WallTime = {0, 2, 3}
  MaxTime = 1
  MaxReboots = 1
  SaveMayFail = TRUE
  None = None
SYMMETRY MCSymmetry
INVARIANTS
  TypeOK
  HardCancelIsFinal
PROPERTIES
  ReleaseWaits
CHECK_DEADLOCK FALSE

SPECIFICATION NetSpec
CONSTANTS
  q1 = q1
  Guardian = {1, 2, 3}
  Malicious = {}
  guardian_threshold = 2
  minimum_recovery_delay = 1
  Request = {q1}
  request_id <- OwnIds
  nonce <- OwnIds
  requested_at <- RequestedAt
  expiry <- Expiry
  WallTime = {0}
  MaxTime = 20
  MaxReboots = 1
  SaveMayFail = TRUE
  Signer = {1, 2, 3}
  signer_threshold = 2
  relay_count = 2
  store_count = 2
  FreeTime = 1
  MaxLosses = 1
  None = None
INVARIANTS
  NetTypeOK
  CardIsUsable
  ReportIsTrue
PROPERTIES
  PromiseKept
  ClientFollowsMachine
  GuardianFollowsMachine
  SingleOutageIsSurvived
CHECK_DEADLOCK FALSE

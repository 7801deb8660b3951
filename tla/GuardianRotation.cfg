\* One guardian that one rotation keeps and a sibling rotation removes, one recovery
\* bound to the old epoch; one write fails or the machine reboots once.
SPECIFICATION Spec
CONSTANTS
  Plan = {p1, s1}
  p1 = p1
  s1 = s1
  rotation_id <- MCRotationId
  Genesis = g
  predecessor <- MCPredecessor
  old_roster = {p1, s1}
  new_roster = {p1}
  Candidate = FALSE
  Request = {q1}
  q1 = q1
  request_id <- MCRequestId
  nonce <- MCNonce
  config_ref <- MCConfigRef
  recovery_delay = 1
  rotation_delay = 1
  MaxTime = 1
  MaxFaults = 1
  None = None
INVARIANTS
  TypeOK
  OneAnswer
  BegunIsServable
  PreparedIsKept
  RotationCancelIsFinal
  DrainsForUnreleased
PROPERTIES
  MaterialWaits
CHECK_DEADLOCK FALSE

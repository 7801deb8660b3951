\* Three signers, any two certify; one plan, whose context expires.
SPECIFICATION Spec
CONSTANTS
  Signer = {s1, s2, s3}
  Faulty = {}
  signer_threshold = 2
  Genesis = g
  Capsule = {cp}
  Plan = {p1}
  p1 = p1
  q1 = q1
  cp = cp
  dp = dp
  cq = cq
  PlanOf <- MCPlanOf
  rotation_id <- MCRotationId
  predecessor <- MCPredecessor
  not_before_wall <- MCNotBefore
  preparation_deadline <- MCDeadline
  expiry <- MCExpiry
  SaveMayFail = {}
  None = None
INVARIANTS
  TimedOutPlanAborts
CHECK_DEADLOCK FALSE

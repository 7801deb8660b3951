\* Three signers, one of them faulty, all three votes certify; two rotations of one
\* epoch, the first of which has two possible successor capsules; one signer's state
\* file fails any number of times.
SPECIFICATION Spec
CONSTANTS
  Signer = {s1, s2, s3}
  Faulty = {s3}
  signer_threshold = 3
  Genesis = g
  Capsule = {cp, dp, cq}
  Plan = {p1, q1}
  p1 = p1
  q1 = q1
  cp = cp
  dp = dp
  cq = cq
  PlanOf <- MCPlanOf
  rotation_id <- MCRotationId
  predecessor <- MCPredecessor
  not_before_wall <- MCNotBefore
  preparation_deadline <- MCDeadline
  expiry <- MCExpiry
  SaveMayFail = {s1}
  None = None
INVARIANTS
  TypeOK
  AbortIsFinal
  SiblingNeedsTombstone
  LockFollowsPlan
CHECK_DEADLOCK FALSE

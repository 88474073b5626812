CONSTANTS
  A = A  B = B
  a0 = a0  a1 = a1  a2 = a2  b0 = b0
  onA0 = onA0  onA1 = onA1  onB = onB
  Endpoint <- MCEndpoint
  Plan <- PlanSameEpoch
  Loc0 <- MCLoc0
  Binding0 <- MCBinding0
  Bindings <- OneBinding
  Profiles = {0, 3}
  CHALLENGE_EXPIRY = 1
  PROPOSAL_LIFE = 2
  RESULT_LIFE = 3
  OLD_BINDING_GRACE = 3
  PROPOSAL_TOKENS = 1
  MaxTime = 2
  Closing = {A}
SPECIFICATION Spec
CHECK_DEADLOCK FALSE
INVARIANTS EndsAgree VerdictsConsistent AdmissionsAgree

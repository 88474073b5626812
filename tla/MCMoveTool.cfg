CONSTANTS
  Server = Server
  C1 = C1  C2 = C2
  a0 = a0  a1 = a1  a2 = a2  b0 = b0  b1 = b1
  OldLoc <- MCOldLoc
  NewLoc <- MCNewLoc
  Setups <- MCSetups
  CHALLENGE_EXPIRY = 1
  PROPOSAL_LIFE = 2
  RESULT_LIFE = 3
  OLD_BINDING_GRACE = 3
  PROPOSAL_TOKENS = 2
SPECIFICATION Spec
CHECK_DEADLOCK FALSE
INVARIANTS EndpointFollowsManager ProofBeforeTraffic SuccessGenuine
PROPERTIES Terminates MoveSucceeds

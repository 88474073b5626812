CONSTANTS
  a1 = a1  a2 = a2  b1 = b1
  onA1 = onA1  onA2 = onA2
  Loc0 = b0  PeerLoc0 = a0  Binding0 = onA0
  Setups <- CompetingSetup
  CHALLENGE_EXPIRY = 3
  PROPOSAL_LIFE = 5
  RESULT_LIFE = 10
  OLD_BINDING_GRACE = 10
  PROPOSAL_TOKENS = 2
  MaxTime = 5
SPECIFICATION Spec
CHECK_DEADLOCK FALSE
PROPERTIES PromotesProvenBinding

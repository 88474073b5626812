CONSTANTS
  a1 = a1  a2 = a2  b1 = b1
  onA1 = onA1  onA2 = onA2
  Loc0 = b0  PeerLoc0 = a0  Binding0 = onA0
  Setups <- AllSetups
  CHALLENGE_EXPIRY = 1
  PROPOSAL_LIFE = 2
  RESULT_LIFE = 3
  OLD_BINDING_GRACE = 3
  PROPOSAL_TOKENS = 2
  MaxTime = 3
SPECIFICATION Spec
CHECK_DEADLOCK FALSE
INVARIANTS CachesBounded ProveFindsCandidate
PROPERTIES EpochsAdvance PromotesProvenMove AdmittedOnce

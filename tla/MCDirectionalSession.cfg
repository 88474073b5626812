CONSTANTS
  h1 = h1
  h2 = h2
  Holder <- MCHolder
  REPLAY_WINDOW = 2
  REPLAY_JUMP_MAX = 2
  U64_MAX = 6
  MaxSessions = 2
SPECIFICATION Spec
INVARIANTS NonceUnique WindowExact
PROPERTY ImplementsAtMostOnce
CHECK_DEADLOCK FALSE

CONSTANTS
  h1 = h1  h2 = h2
  Holder = {h1, h2}
  REPLAY_WINDOW = 2
  REPLAY_JUMP_MAX = 3
  U64_MAX = 5
  DELIVERED_WINDOW_IDS = 2
  DELIVERY_GAP = 2
  Setups <- MCSetups
  QUEUE_PACKETS = 1
  DEDUP_IDS = 2
  DEDUP_LIFETIME = 1
SPECIFICATION Spec
CHECK_DEADLOCK FALSE
INVARIANTS WindowExact NoDivergence NothingReservedInVain DecisionCurrent
PROPERTIES ImplementsAtMostOnce

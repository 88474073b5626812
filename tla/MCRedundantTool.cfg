CONSTANTS
  h1 = h1
  Holder = {h1}
  REPLAY_WINDOW = 2
  REPLAY_JUMP_MAX = 3
  U64_MAX = 5
  DELIVERED_WINDOW_IDS = 4
  DELIVERY_GAP = 2
  Setups <- MCSetups
  Drives <- MCDrives
  QUEUE_PACKETS = 1
  DEDUP_IDS = 2
  DEDUP_LIFETIME = 1
SPECIFICATION FairToolSpec
CHECK_DEADLOCK FALSE
INVARIANTS StagesMatch
PROPERTIES ToolSettles

CONSTANTS
  a1 = a1  a2 = a2  b1 = b1  b2 = b2  c1 = c1  c2 = c2
  Attempt = {a1}
  Scid = {c1}
  Binding = {b1}
  Profile = 1
  PENDING_LIMIT = 1
  ESTABLISHED_LIMIT = 1
  OPEN_TIMEOUT = 1
  PENDING_TIMEOUT = 1
  BUCKET = 2
  KEY_RETENTION = 4
  ROTATION = 9
  IDLE_TIMEOUT = 2
  COUNTER_MAX = 2
  MaxStart = 1
  MaxTime = 3
  MaxAcks = 1
  MaxRotations = 0
  MaxRestarts = 0
SPECIFICATION Spec
CHECK_DEADLOCK FALSE
INVARIANTS IdleFromLastPacket

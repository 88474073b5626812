CONSTANTS
  a1 = a1  a2 = a2  b1 = b1  b2 = b2  c1 = c1  c2 = c2
  Attempt = {a1, a2}
  Scid = {c1, c2}
  Binding = {b1, b2}
  Profile = 3
  PENDING_LIMIT = 2
  ESTABLISHED_LIMIT = 1
  OPEN_TIMEOUT = 1
  PENDING_TIMEOUT = 1
  BUCKET = 2
  KEY_RETENTION = 4
  ROTATION = 9
  IDLE_TIMEOUT = 2
  COUNTER_MAX = 1
  MaxStart = 1
  MaxTime = 1
  MaxAcks = 2
  MaxRotations = 0
  MaxRestarts = 0
SPECIFICATION Spec
SYMMETRY Interchange
CHECK_DEADLOCK FALSE
INVARIANTS TypeOK OneEntryPerScid Agreement RoutableBinding BootstrapOnce

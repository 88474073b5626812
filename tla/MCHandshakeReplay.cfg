CONSTANTS
  a1 = a1  a2 = a2  b1 = b1  b2 = b2  c1 = c1  c2 = c2
  Attempt = {a1}
  Scid = {c1}
  Binding = {b1}
  Profile = 3
  PENDING_LIMIT = 1
  ESTABLISHED_LIMIT = 1
  OPEN_TIMEOUT = 1
  PENDING_TIMEOUT = 1
  BUCKET = 1
  KEY_RETENTION = 2
  ROTATION = 2
  IDLE_TIMEOUT = 2
  COUNTER_MAX = 2
  MaxStart = 0
  MaxTime = 3
  MaxAcks = 2
  MaxRotations = 1
  MaxRestarts = 1
SPECIFICATION FairSpec
CHECK_DEADLOCK FALSE
INVARIANTS CookieSurvivesRotation OpeningDiesWithCookie
PROPERTIES AcceptedOnce HandshakeCompletes

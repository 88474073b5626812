CONSTANTS
  s1 = s1  s2 = s2  s3 = s3
  Source = {s1, s2, s3}
  Size = {1, 2, 3}
  RESPONSE = 2
  BURST = 3
  REFILL = 2
  SECOND = 2
  WINDOW = 2
  TABLE = 2
  U32 = 4
  MaxTime = 6
SPECIFICATION Spec
CHECK_DEADLOCK FALSE
PROPERTIES RefillComplete

CONSTANTS
  s1 = s1  s2 = s2  s3 = s3
  Source = {s1, s2, s3}
  Size = {1, 2, 3}
  RESPONSE = 2
  BURST = 3
  REFILL = 2
  SECOND = 2
  WINDOW = 2
  TABLE = 2
  U32 = 16
  MaxTime = 5
SPECIFICATION Spec
SYMMETRY Symmetry
CHECK_DEADLOCK FALSE
INVARIANTS RatioKept Paced

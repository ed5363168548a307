SPECIFICATION Spec
CONSTANTS
  Win = {w1, w2}
  Url = {p1, p2}
  NULL = NULL
  Garbage = Garbage
  MaxDepth = 1
  MaxQueue = 3
  MaxErrors = 1
CHECK_DEADLOCK FALSE
INVARIANTS
  UrlDataIsPassed

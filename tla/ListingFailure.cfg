SPECIFICATION Spec
CONSTANTS
  a = a
  b = b
  t1 = t1
  u1 = u1
  tok = tok
  h1 = h1
  h2 = h2
  f = f
  g = g
  Empty = Empty
  NULL = NULL
  NewDiskItem = NewDiskItem
  Name <- TwoNames
  Type <- OneType
  User <- OneUser
  Token <- OneToken
  Fold <- Distinct
  DefaultName <- Default
  Cap = 2
  MaxRefused = 0
  MaxLoops = 1
  Converted <- Distinct
  Handle <- OneHandle
  FileName <- OneFile
  MaxFiles = 1
INVARIANTS
  FailedRunIsReported

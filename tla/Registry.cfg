SPECIFICATION FewSpec
CONSTANTS
  a = a
  b = b
  c = c
  t1 = t1
  u1 = u1
  u2 = u2
  tok = tok
  Empty = Empty
  NULL = NULL
  Name <- ThreeNames
  Type <- OneType
  User <- TwoUsers
  Token <- OneToken
  Fold <- SameCase
  DefaultName <- Default
  Cap = 2
  MaxRefused = 1
  MaxLoops = 2
  Converted <- Lossy
INVARIANTS
  RestartKeepsDisks
  TornSave
  NoLostValueAtRest
  ListedNamesResolve
PROPERTIES
  TokenGoesToListedDisk
  SavesMoveOn

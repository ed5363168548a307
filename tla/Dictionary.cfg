SPECIFICATION Spec
CONSTANTS
  k1 = k1
  k2 = k2
  k3 = k3
  v1 = v1
  v2 = v2
  n1 = n1
  n2 = n2
  n3 = n3
  NULL = NULL
  Key <- ThreeKeys
  Value <- TwoValues
  Node <- ThreeNodes
SYMMETRY Symmetry
INVARIANTS
  ListShape
  UniqueKeys
  CursorInList
  TraverseInOrder
PROPERTIES
  LostOnlyOnFailure
  Implements
  LoopsMoveOn

SPECIFICATION Spec
CONSTANTS
  Script = {a, b, c}
  None = None
  MaxDepth = 2
  MaxRows = 1
  MaxStack = 4
INVARIANTS LoaderOutcome CredentialsGoToOwnScript
PROPERTY ListingsBalance

SPECIFICATION Spec
CONSTANTS
  NULL = NULL
  Garbage = Garbage
  MaxCalls = 2
  MaxLines = 4
  MaxRepeats = 1
CHECK_DEADLOCK FALSE
INVARIANTS
  ConnectionsClosed
  BodyIsTheAnswers
  CompleteAnswerIsSafe

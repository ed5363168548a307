INIT Init
NEXT Next
CONSTANTS
  IntKey = {1, 2, 3}
  StrKey = {a, b}
  Event = {a}
  Value = {v}
  None = None
  ArraySizes = {0}
  HashSizes = {0, 4}
  MaxInt = 2
  Main = Main
  Coroutines = {c1, c2}
  MaxCCalls = 4
  Extra = 2
  MaxFrames = 3
  Subjects <- MCSubjects
  Patterns <- MCPatterns
  Replacements <- MCReplacements
  Keep <- MCKeep
  MaxCaptures = 3
  Programs <- Chunks
  MaxIndexRK = 2
  MaxArgC = 2
  FieldsPerFlush = 2
  MaxStack = 20
  MaxVars = 12
  MaxUpvalues = 3
  Collation <- Alphabet
  StackSize = 30
  MaxSteps = 200
INVARIANTS TableIsAMap TraversalIsComplete StatusIsTrue DepthIsCounted
INVARIANTS MatchMeansPattern EveryMatchOnce
PROPERTIES ChunkMeansText ChunkIsSound
CHECK_DEADLOCK FALSE

SPECIFICATION GCFairSpec
CONSTANTS
  Tables = {t, w}
  Closures = {f}
  Upvals = {u}
  Strings = {s}
  Udata = {d}
  Threads = {m, c}
  Main = m
  WeakKeys = {w}
  WeakValues = {}
  Finalized0 = {}
  Nil = Nil
  MaxLive = 3
  MaxHeld = 2
INVARIANTS BlackSeesNoWhite NoDangling
CHECK_DEADLOCK FALSE
PROPERTY GarbageIsFreed

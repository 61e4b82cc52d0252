SPECIFICATION ThreadSpec
CONSTANTS
  a = a
  b = b
  g = g
  i1 = i1
  i2 = i2
  NoThread = NoThread
  ThreadObjects = {a, b, g}
  Guarded = {g}
  Ids = {i1, i2}
  Assigns = TRUE
INVARIANTS
  GuardedCatches
CHECK_DEADLOCK FALSE

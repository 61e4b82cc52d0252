CONSTANTS
  t1 = t1
  t2 = t2
  m1 = m1
  m2 = m2
  m3 = m3
  NoThread = NoThread
  MaxArity = 3
  Threads <- MCThreads
  Mutexes <- MCMutexes
  Calls <- MCCalls
  GThreads <- MCThreads
  GMutexes <- MCGMutexes
  Kind <- MCKind
  GuardSetups = {{"a", "c"}, {"b"}, {"d", "e"}}
  MaxGuards = 2
  MaxHeld = 2
SPECIFICATION AllSpec
INVARIANTS AllOrNothing NoHoldAndWait GuardsExact
PROPERTIES ReleasedByOwnerOnly

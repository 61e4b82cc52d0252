SPECIFICATION AllSpec
CONSTANTS
  c1 = c1
  c2 = c2
  thread1 = thread1
  apc1 = apc1
  dpc1 = dpc1
  isr1 = isr1
  thread2 = thread2
  dpc2 = dpc2
  h1 = h1
  Nobody = Nobody
  NoOwner = Nobody
  NoHandler = NoHandler
  StdAbort = StdAbort
  g1 = g1
  g2 = g2
  g3 = g3
  l1 = l1
  l2 = l2
  l3 = l3
  t1 = t1
  t2 = t2
  Null = Null
  a = a
  b = b
  g = g
  i1 = i1
  i2 = i2
  NoThread = NoThread
  w1 = w1
  w2 = w2
  w3 = w3
  n1 = n1
  n2 = n2
  Cpus = {c1, c2}
  Contexts = {thread1, apc1, dpc1, isr1, thread2, dpc2}
  Home <- MCHome
  Level <- MCLevel
  Handlers = {h1}
  Callers = {thread1, isr1, thread2}
  Globals <- MCGlobals
  Preloads = {g1, g3}
  Locals = {l1, l2, l3}
  DriverThreads = {t1, t2}
  MaxDtors = 6
  MaxInits = 2
  StackLimit = 3
  ThreadObjects = {a, b, g}
  Guarded = {g}
  Ids = {i1, i2}
  Assigns = TRUE
  Waiters = {w1, w2, w3}
  Notifiers = {n1, n2}
  Crews = {{w1}, {w1, w2, w3}}
  Rounds = 1
  Polling = TRUE
  p1 = p1
  p2 = p2
  q1 = q1
  b1 = b1
  b2 = b2
  b3 = b3
  Producers = {p1, p2}
  Consumers = {q1}
  Blocks = {b1, b2, b3}
  TagCount = 9
INVARIANTS
  SpinLocksSound
  ContextUntorn
  DriverOrder
  ThreadsExact
  
PROPERTIES
  AlwaysStops
  
  
  CallsReturn
CHECK_DEADLOCK FALSE

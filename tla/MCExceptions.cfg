SPECIFICATION AllSpec
CONSTANTS
  t1 = t1
  o1 = o1
  o2 = o2
  o3 = o3
  m1 = m1
  m2 = m2
  Threads = {t1}
  Objects = {o1, o2, o3}
  Messages = {m1, m2}
  SlotCount = 2
  HeapCount = 1
  Program <- MCProgram
  Catchables <- MCCatchables
  Callable = {"f", "g"}
  EntryPoint = "f"
  MaxDepth = 4
  MaxThrows = 2
  Avoided = {"the probe moves the throw frame"}
SYMMETRY MCSymmetry
INVARIANTS
  MessageKept
  BuffersConserved
  ScopesKept
  
CHECK_DEADLOCK FALSE

SPECIFICATION RethrowSpec
CONSTANTS
  Threads = {t1}
  Objects = {o1}
  Messages = {m1}
  SlotCount = 1
  HeapCount = 1
  Program <- MCProgram
  Catchables <- MCCatchables
  Callable = {"f", "g"}
  EntryPoint = "f"
  MaxDepth = 4
  MaxThrows = 2
  Avoided = {}
INVARIANT ContextIsCatchers
CHECK_DEADLOCK FALSE

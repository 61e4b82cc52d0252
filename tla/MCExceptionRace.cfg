SPECIFICATION Spec
CONSTANTS
  Threads = {t1, t2}
  Objects = {o1, o2, o3}
  Messages = {m1}
  SlotCount = 2
  HeapCount = 1
INVARIANTS
  SlotInRange
CHECK_DEADLOCK FALSE

SPECIFICATION Spec
CONSTANTS
  p1 = p1
  p2 = p2
  c1 = c1
  c2 = c2
  b1 = b1
  b2 = b2
  b3 = b3
  Null = Null
  Producers = {p1, p2}
  Consumers = {c1, c2}
  Blocks = {b1, b2, b3}
  TagCount = 9
  Crews <- MCCrews
SYMMETRY MCSymmetry
INVARIANTS
  NothingLost
PROPERTIES
  IsFifo
  EmptyIsTrue
CHECK_DEADLOCK FALSE

SPECIFICATION AllSpec
CONSTANTS
  t1 = t1
  t2 = t2
  b1 = b1
  b2 = b2
  b3 = b3
  junk = junk
  Null = Null
  Initial = 2
  TagCount = 4
  Threads <- MCThreads
  PtrThreads <- MCThreads
  Blocks <- MCBlocks
  Data <- MCData
  Uniques = {"a", "b"}
  UObjects = {"x", "y", "z"}
  Deleters = {"d", "e"}
  NoObject = "nil"
  Intrusives = {"p", "q"}
  Nodes = {"m", "n"}
  NoNode = "nil"
  MaxRefs = 1
  Optionals = {"o", "q", "r"}
  OptValues = {1, 2}
  Raw = 0
  Moved = 9
  OptionalAvoided = {"emplace throws after destroying", "converting assigns to no object"}
  NoCounter = NoCounter
  Crews = {{t1}, {t2}, {t1, t2}}
  Racy = FALSE
  Shared = {s1, s2, s3}
  Weak = {w1}
  Counters = {c1, c2}
SYMMETRY MCSymmetry
INVARIANTS
  Exclusive
  AbaSafe
  NothingLeaked
  OneOwner
  IntrusiveCountsExact
  OptionalSound
  NothingDangles
  CountersExact
CHECK_DEADLOCK FALSE

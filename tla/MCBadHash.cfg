SPECIFICATION TableSpec
CONSTANTS
  TableSetups <- MCBadHash
  Mapped = {0}
  MaxMask = 31
  Null = Null
  Nil = Nil
  Raw = Raw
  Moved = Moved
  CopyBudgets = {99}
  Shunned <- MCShunnedButOverflow
INVARIANT NeverOverflowsMoving
CHECK_DEADLOCK FALSE

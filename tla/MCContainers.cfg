SPECIFICATION AllSpec
CONSTANTS
  Raw = Raw
  Moved = Moved
  Null = Null
  Nil = Nil
  TableSetups <- MCSetups
  Mapped = {0, 1}
  MaxMask = 15
  CopyBudgets = {0, 1, 9}
  Shunned <- MCShunned
INVARIANTS VectorsSound StringsSound TablesSound PoolsConserved
CHECK_DEADLOCK FALSE

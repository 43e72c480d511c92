SPECIFICATION Spec
CONSTANTS
  Txn = {t1, t2}
  Column = {k1, k2}
  Card = {a, b, c, d}
  MaxScale = 0
  None = None
SYMMETRY MoveSymmetry
INVARIANT DistinctRanks
CHECK_DEADLOCK FALSE

SPECIFICATION Spec
CONSTANTS
  Txn = {t1, t2, t3}
  Column = {k1, k2}
  Card = {a, b, c}
  MaxScale = 1
  None = None
SYMMETRY MoveSymmetry
INVARIANT DistinctRanks
PROPERTIES LandsAfterAnchor OthersKeepOrder
CHECK_DEADLOCK FALSE

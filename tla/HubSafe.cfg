SPECIFICATION Spec
CONSTANTS
  Conn = {c1, c2}
  Room = {r1}
  MaxRoomsPerConnection = 1
  DrainDeadline = TRUE
  Regrants = 1
  Resubscribes = FALSE
  Free = Free
INVARIANTS TypeOK RefsCovered RefsExact EndedIsForgotten
CHECK_DEADLOCK FALSE
SYMMETRY ConnSymmetry
VIEW MembershipView

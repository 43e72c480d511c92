SPECIFICATION Spec
CONSTANTS
  Conn = {c1, c2}
  Room = {r1}
  MaxRoomsPerConnection = 1
  DrainDeadline = FALSE
  Regrants = 0
  Resubscribes = FALSE
  Free = Free
INVARIANT ToldIsDelivered
CHECK_DEADLOCK FALSE

SPECIFICATION FairSpec
CONSTANTS
  Conn = {c1}
  Room = {r1}
  MaxRoomsPerConnection = 1
  DrainDeadline = FALSE
  Regrants = 1
  Resubscribes = FALSE
  Free = Free
PROPERTIES RevokedLeaves ClosedFinishes ShutdownStops
CHECK_DEADLOCK FALSE

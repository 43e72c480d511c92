SPECIFICATION FairSpec
CONSTANTS
  MaxSlots = 2
  Budget = 3
  MaxEvents = 1
  MaxFaults = 2
  MaxTimers = 2
INVARIANTS TypeOK LastWord MissedIsOwed SignedOutIsOver
PROPERTIES StoppedStaysStopped SettlesLive GoneReleases
CHECK_DEADLOCK FALSE

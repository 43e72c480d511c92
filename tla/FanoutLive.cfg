SPECIFICATION FairSpec
CONSTANTS
  Conn = {c1}
  SendBuffer = 1
  BrokerBuffer = 2
  MaxEvents = 2
  MaxControl = 1
INVARIANTS NoSilentGap DrainClosesAll
PROPERTIES DispatchNeverStalls ClosedPumpEnds KeepsPromise
CHECK_DEADLOCK FALSE

SPECIFICATION Spec
CONSTANTS
  Proc = {p1, p2}
  MaxSessions = 2
  MaxTokens = 3
  Faults = TRUE
SYMMETRY RequestSymmetry
CONSTRAINT FewTokens
INVARIANTS TypeOK UsablePointer NoLaterUse MembershipRechecked RevokedStaysRevoked
CHECK_DEADLOCK FALSE

SPECIFICATION FairSpec
CONSTANTS
  c1 = c1
  c2 = c2
  p1 = p1
  r1 = r1
  r2 = r2
  Door = Door
  Calls = {c1, c2}
  Pages = {p1}
  Renewals = {r1, r2}
  MaxTokens = 6
  Budgets <- Small
INVARIANTS SessionSurvives OwnSession BlipKeeps SignedOutIsOver JoinsItsOwn
PROPERTY CallsSettle
CHECK_DEADLOCK FALSE

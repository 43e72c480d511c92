SPECIFICATION Spec
CONSTANTS
  OtherCards = {3, 4}
  Handled = {4}
  Start <- Small
INVARIANTS DrawnOnce StandInsAside MovesQueue DropsWhereDrawn QueueDrains Converges
CHECK_DEADLOCK FALSE

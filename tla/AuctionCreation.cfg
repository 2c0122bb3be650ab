SPECIFICATION Spec
CONSTANTS
  NumPrizes = 3
  NotMine = {1, 3}
  BatchSize = 1
  GroupSize = 2
  FullPages = 1
  Glitches = 1
INVARIANTS
  AcceptedInOrder
  OutcomeTold
PROPERTIES
  ImplementsRetry
CHECK_DEADLOCK FALSE

SPECIFICATION FairSpec
CONSTANTS
  Worker = {w1, w2}
  Pre = 2
  Target = 1
CHECK_DEADLOCK FALSE
INVARIANTS
  Books
  DeliveredIsPaid
PROPERTIES
  EventuallyRefunded

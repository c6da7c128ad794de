SPECIFICATION FairHome
CONSTANTS
  Sessions = {1, 2}
  Old = 1
  MAX_ITEMS = 1
  MaxReplies = 1
  MaxLosses = 2
  Absent = Absent
  Pending = Pending
INVARIANT ListIsTrue
PROPERTY GoneIsLeft
CHECK_DEADLOCK FALSE

CONSTANTS
  a = a
  b = b
  x = x
  y = y
  Order <- Preferred
  Subscriptions = {x, y}
  Budget <- TimeFor
  ReadBudget = 2
  LockWait <- WaitFor
  Requests <- AllRequests
  MaxUpsets = 1
  Patience = 2
  Grace = 1
  Room = 1
  LineLimit = 3
  Plans <- TwoPlans
  MaxOdd = 1
SPECIFICATION BothSpec
INVARIANT ReadTruly
PROPERTIES HandedOutTrue UnavailableTrue AnsweredInTime ReadEnds
CHECK_DEADLOCK FALSE

CONSTANTS
  Homes = {h1, h2, h3}
  Sound = {h3}
  Budget = 10
  ReadBudget = 6
  BusyPause = 1
  Quick = 2
  Lengths = {2, 4, 5, 7}
  Holds = {0}
  RetryAfter = 1
  Latest = 3
  Advancing = {2}
  Keep = 0
SPECIFICATION Spec
INVARIANTS InForceUsable
PROPERTIES QueueTakesTurns DeliveredInTheEnd

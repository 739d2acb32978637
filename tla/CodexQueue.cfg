\* Two slow homes take nine of the ten, and the third is left the last one.
CONSTANTS
  Homes = {a, b, c}
  Sound = {c}
  Budget = 10
  ReadBudget = 6
  BusyPause = 1
  Quick = 2
  Lengths = {4, 5}
  Holds = {0}
  RetryAfter = 1
SPECIFICATION Spec
PROPERTY EveryoneRead

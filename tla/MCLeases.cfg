CONSTANTS
  LeaseIds = {a, b, c}
  Owners = {"x"}
  Durations = {1, 2}
  Longest = 2
  PauseMinutes = {0, 2}
  Retention = 2
  Capacity = 2
  MaxDelay = 1
  MaxTime = 3
SPECIFICATION Spec
SYMMETRY Interchangeable
INVARIANTS LedgerAccepted PauseExact ReleaseSticks AnswersTrue
PROPERTY KeepsContract
CHECK_DEADLOCK FALSE

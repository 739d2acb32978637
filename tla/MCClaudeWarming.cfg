CONSTANTS
  Slots = {a}
  Identities = {x, y}
  DayLength = 4
  WindowLength = 3
  Slack = 1
  Verification = 1
  Floor = 2
  Staleness = 1
  DailyLimit = 2
  Fragile = {"marks"}
  MaxSignIns = 1
  MaxTime = 4
SPECIFICATION Spec
INVARIANTS DuplicatesSuppressed Sparing DeadLeftAlone

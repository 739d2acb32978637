CONSTANTS
  Wakes = {w}
  Routes = {r}
  Savers = {s1, s2}
  Pausers = {}
  MaxTime = 0
SPECIFICATION FairSpec
PROPERTY LocksComeFree

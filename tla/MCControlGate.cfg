CONSTANTS
  Wakes = {w}
  Routes = {r}
  Savers = {s1, s2}
  Pausers = {p}
  MaxTime = 1
SPECIFICATION Spec
INVARIANTS AdmittedUnderControl WakesObeyAtOnce
PROPERTY NoEditLost

CONSTANTS
  a = a
  b = b
  r = r
  Prefer <- Preferred
  Reserve = {r}
  Most = 3
  Floor = 1
  Enter = 1
  Exit = 2
  Dwell = 2
  Advantage = 0
  Margin = 2
  Hysteresis = 1
  WeekMargin = 3
  MaxUpsets = 1
SPECIFICATION Spec
PROPERTIES DwellKept TakenWell Settles

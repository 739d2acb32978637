CONSTANTS
  Slots = {a, b}
  Subscriptions = {x, y}
  Parkers = {c}
  Enrollers = {c}
  Homes = {h}
  Accounts = {x, y}
  Plans = {plus, free}
  Length = 6
  Confirm = 5
  Near = 1
  MaxTime = 5
  MaxSignIns = 2
  MaxUpsets = 2
  Full = 4
  Cycle = 12
  Early = 1
  Fresh = 1
  Stall = 1
  Overdue = 3
  Spacing = 2
  Lately = 7
  Stored = 8
  MostRows = 4
  MostEvents = 2
  MaxWakes = 7
  MaxMishaps = 1
SPECIFICATION AccountsSpec
SYMMETRY Interchangeable
INVARIANTS NeverForgotten HomeRecordTrue InsightsTrue
PROPERTY ParkedAsChosen
\* The conversations with a home come to their bounds.
CHECK_DEADLOCK FALSE

CONSTANTS
  one = one
  two = two
  sub = sub
  Threads = {one, two, sub}
  Host <- RunBy
  Accounts = {a, b}
  NoAccount = none
  Refused = {"login"}
  Woken = {sub}
  MaxSerial = 2
  MaxInbox = 2
SPECIFICATION Spec
SYMMETRY Interchangeable
INVARIANT HeldHasWork
PROPERTIES AccountKept ContinueOwed

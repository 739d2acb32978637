CONSTANTS
  pa = pa
  pb = pb
  ia = ia
  ib = ib
  Registered <- BothRegistered
  Identities = {ia, ib}
  ShortPoll = 1
  LongPoll = 2
  LocalDelay = 1
  FirstDelay = 2
  LongestDelay = 3
  FailureLimit = 2
  MaxSignIns = 1
SPECIFICATION Spec
INVARIANT NoDoubleCapacity
PROPERTIES WaitsKept Recovers

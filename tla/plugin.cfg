SPECIFICATION MCSpec
CONSTANTS
  Procs = {p1, p2}
  Leaving = {p1}
  Ids = {1, 2, 3, 4, 5}
  RetryInitial = 1
  RetryMaximum = 3
  MaxDials = 2
  MaxFaults = 3
INVARIANT NoSilentLoss
PROPERTY ComesToRest

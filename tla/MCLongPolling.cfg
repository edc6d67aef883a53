SPECIFICATION Spec
CONSTANTS
  Workers = {w1, w2}
  c1 = c1
  c2 = c2
  Clients = {c1, c2}
  Scenarios <- MCLongPolls
  None = None
  Skew = 0
  MaxMessages = 3
  MaxTime = 2
  MaxGot = 4
SYMMETRY Symmetry
INVARIANT LongPollingSkipsNothing
CHECK_DEADLOCK FALSE

SPECIFICATION Spec
CONSTANTS
  Workers = {w1, w2}
  c1 = c1
  c2 = c2
  Clients = {c1, c2}
  Scenarios <- MCScenarios
  None = None
  Skew = 0
  MaxMessages = 4
  MaxTime = 2
  MaxGot = 2
SYMMETRY Symmetry
INVARIANTS TypeOK 
PROPERTY ImplementsLog
\* clients may stay away
CHECK_DEADLOCK FALSE

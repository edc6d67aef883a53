SPECIFICATION Spec
CONSTANTS
  Workers = {w1, w2}
  Messages = {m1, m2}
  None = None
  MaxStored = 1
  MessageTTL = 1
  ObjectsTTL = 2
  HandlerTime = 1
  MaxTime = 3
  MaxCrashes = 1
SYMMETRY Symmetry
INVARIANTS TypeOK NoDanglingPointer RefCountIsExact LinkedOnce NoLeak
PROPERTY ImplementsLifetime

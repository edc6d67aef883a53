SPECIFICATION Spec
CONSTANTS
  Workers = {w1, w2}
  Channels = {c1}
  Messages = {m1, m2}
  None = None
  Capacity = 2
  MaxOthers = 1
  MaxCrashes = 1
  CrashAt = {"idle", "alert", "read", "process", "respond", "obey"}
SYMMETRY Symmetry
INVARIANTS TypeOK NoLostWakeup

SPECIFICATION FairSpec
CONSTANTS
  Workers = {w1, w2}
  Channels = {c1}
  Messages = {m1, m2}
  None = None
  Capacity = 1
  MaxOthers = 0
  MaxCrashes = 0
  CrashAt = {}
PROPERTY Delivered

SPECIFICATION Spec
CONSTANTS
  Workers = {w1, w2}
  Requests = {r1, r2}
  Channels = {c1}
  Ids = {a}
  None = None
  EventsChannel = None
  MaxChannels = 2
  MaxStored = 1
  MaxSubscribers = 1
  MaxCrashes = 0
INVARIANT ReleasedHasNoSubscribers
CHECK_DEADLOCK FALSE

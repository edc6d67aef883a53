SPECIFICATION FairSpec
CONSTANTS
  Workers = {w1, w2}
  Requests = {r1, r2}
  Channels = {c1, c2}
  Ids = {a, b}
  None = None
  EventsChannel = None
  MaxChannels = 1
  MaxStored = 1
  MaxSubscribers = 1
  MaxCrashes = 0
INVARIANT WithinMaxChannels
PROPERTY DeletedIsReleased
CHECK_DEADLOCK FALSE

SPECIFICATION Spec
CONSTANTS
  Workers = {w1, w2}
  Requests = {r1, r2, r3}
  Channels = {c1, c2, e}
  Ids = {a, e}
  None = None
  EventsChannel = e
  MaxChannels = 3
  MaxStored = 1
  MaxSubscribers = 1
  MaxCrashes = 1
SYMMETRY Symmetry
INVARIANTS TypeOK PlacedOnce ChannelCountersExact OneChannelPerId
  EventsChannelStays SubscribersCounted OverbookedByRacesOnly
CHECK_DEADLOCK FALSE

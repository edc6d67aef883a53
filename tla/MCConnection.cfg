SPECIFICATION FairSpec
CONSTANTS
  r1 = r1
  r2 = r2
  chan_a = chan_a
  chan_b = chan_b
  Requests = {r1, r2}
  Channels = {chan_a, chan_b}
  Messages = {m1}
  Mode <- MCMode
  Wanted <- MCWanted
  ConnectionTtl = 2
  PingInterval = 1
  SendTimeout = 1
  ObjectsTtl = 1
  Discards = TRUE
  MayFail = TRUE
  MemoryFull = FALSE
  Off = Off
  Text = Text
  End = End
INVARIANTS TypeOK TimersAreLive WalkIsLive ListsExact KeptIsUnanswered
PROPERTY ConnectionEnds

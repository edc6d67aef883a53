SPECIFICATION FairSpec
CONSTANTS
  Workers = {w1, w2}
  Channels = {c1}
  None = None
  MaxSubscribers = 1
  MaxCrashes = 2
  MaxShutDowns = 1
INVARIANTS TypeOK CountsExact NeverUndercounted
PROPERTY GhostsVanish

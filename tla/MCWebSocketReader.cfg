SPECIFICATION FairSpec
CONSTANTS
  Streams <- MCStreams
  Subscriptions <- MCSubscriptions
  EventsChannel = "events"
  AllowPublish = TRUE
  EdgeTriggered = TRUE
INVARIANTS
  TypeOK
  PartsAreKept
PROPERTIES
  ImplementsMessages
  SpacedFramesAreRead
 
\* a stream ends, and a finalized connection does nothing more
CHECK_DEADLOCK FALSE

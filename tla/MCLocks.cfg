CONSTANTS
    Workers = {w1, w2}
    ChannelMutexes = {"channel_0", "events"}
    EventsMutex = "events"
    Idle = Idle
    NoWorker = NoWorker
    NoMutex = NoMutex
    Dead = Dead
    MayDieHolding = {"global_shpool", "shpool"}
    MaxDeaths = 1
SPECIFICATION Spec
INVARIANTS
    TypeOK
    NoCircularWait
PROPERTIES
    ImplementsOrderedLocks
    HandlersEnd

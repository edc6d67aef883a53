-------------------------------- MODULE Locks --------------------------------
(* The mutexes of the shared zones and every routine that takes more than one  *)
(* of them, as the sequence of its lock operations: what a handler does under  *)
(* a mutex is left out, which mutex it takes next and on which path it gives   *)
(* it back is kept.  A call is the sequence of the callee in place of the call *)
(* (no routine calls itself).  A loop is its body, done or skipped: nothing is *)
(* held from one round to the next but what is held around the loop.           *)
EXTENDS Integers, Sequences, FiniteSets

CONSTANTS
    Workers,
    ChannelMutexes,   \* channels_mutex[10] and events_channel_mutex
    EventsMutex,      \* the mutex of the events channel
    Idle,             \* the handler of a worker that runs none
    NoWorker, NoMutex, Dead,
    MayDieHolding,    \* the mutexes that a dying worker may hold
    MaxDeaths         \* bound on the workers that die holding a mutex

\* The mutexes of slab pools: nginx frees them when their owner dies, the ones
\* that the module creates it does not know of.
PoolMutexes == {"global_shpool", "shpool"}

ZoneMutexes == PoolMutexes \union
    {"cleanup", "channels_to_delete", "channels_queue", "channels_trash", "messages_trash"}

Mutexes == ZoneMutexes \union ChannelMutexes

ASSUME EventsAssumption ==
    /\ EventsMutex \in ChannelMutexes
    /\ ChannelMutexes \intersect (ZoneMutexes \union {"channel"}) = {}

\* The order in which mutexes are nested.
Rank == [m \in Mutexes |->
    CASE m \in {"global_shpool", "cleanup"} -> 0
      [] m = "channels_to_delete" -> 1
      [] m = "channels_queue" -> 2
      [] m = "channels_trash" -> 3
      [] m \in ChannelMutexes -> 4
      [] m = "messages_trash" -> 5
      [] m = "shpool" -> 6]

ASSUME DeathsAssumption == MaxDeaths \in Nat /\ MayDieHolding \subseteq Mutexes

-----------------------------------------------------------------------------
(* Pieces of a routine.  "channel" stands for the mutex of some channel.       *)

Lock(m) == <<[op |-> "lock", on |-> m]>>
Unlock(m) == <<[op |-> "unlock", on |-> m]>>
Section(m, body) == Lock(m) \o body \o Unlock(m)

\* A condition, a loop or an early return: skip over what is not done.
Maybe(body) == <<[op |-> "choose", over |-> Len(body)]>> \o body
Either(one, other) ==
    <<[op |-> "choose", over |-> Len(one) + 1]>> \o one
        \o <<[op |-> "jump", over |-> Len(other)]>> \o other

\* ngx_shmtx_trylock: the body is skipped when the mutex is taken.
TrySection(m, body) ==
    <<[op |-> "try", on |-> m, over |-> Len(body) + 1]>> \o body \o Unlock(m)

\* A short section that takes no other mutex is one step.
Touch(m) == <<[op |-> "touch", on |-> m]>>

-----------------------------------------------------------------------------
(* Routines, callees first.                                                    *)

ConvertCharToMsgOnShared == Touch("shpool")
FreeMessageMemory == Touch("shpool")
FreeWorkerMessageMemory == Touch("shpool")
ThrowTheMessageAway == Touch("messages_trash")

EnsureQtdOfMessages(channel) == Section(channel, Maybe(ThrowTheMessageAway))

SendWorkerMessage == Touch("shpool")

Broadcast(channel) == Section(channel, Maybe(SendWorkerMessage)) \o Maybe(ThrowTheMessageAway)

(* Mutant: the queue is trimmed inside the channel's mutex.               *)
AddMsgThenTrimLocked(channel, counted) ==
    Section(channel, Touch("shpool") \o ConvertCharToMsgOnShared \o EnsureQtdOfMessages(channel))
        \o counted \o Broadcast(channel)

AddMsgToChannel(channel, counted) ==
    LET stored == Unlock(channel) \o EnsureQtdOfMessages(channel) \o counted \o Broadcast(channel)
    IN  Lock(channel) \o Touch("shpool") \o ConvertCharToMsgOnShared
            \o Either(Unlock(channel), stored)

SendEvent == Maybe(AddMsgToChannel(EventsMutex, <<>>))

WorkerSubscriberCleanup == Maybe(Touch("channel") \o SendEvent) \o Touch("shpool")

\* send_response_finalize, through cleanup_request_context
SendResponseFinalize == Maybe(WorkerSubscriberCleanup)

DeleteChannelsData ==
    Section("channels_to_delete",
        Maybe(Touch("channel")
              \o Maybe(Touch("channel") \o SendEvent \o SendResponseFinalize)))

CollectDeletedChannelsData ==
    Section("channels_to_delete",
        Maybe(EnsureQtdOfMessages("channel")
              \o Maybe(Touch("channels_queue"))
              \o Maybe(Touch("channels_trash") \o SendEvent)))

CollectExpiredMessagesData ==
    Section("channels_queue", Maybe(EnsureQtdOfMessages("channel")))

CollectEmptyChannels ==
    Section("channels_queue", Maybe(Touch("channels_trash") \o SendEvent))

FreeChannelMemory == Maybe(FreeMessageMemory) \o Section("channel", Touch("shpool"))

FreeMemoryOfExpiredMessagesAndChannels ==
    Section("messages_trash", Maybe(FreeMessageMemory))
        \o Section("channels_trash", Maybe(FreeChannelMemory))

(* Mutant: the channel is queued for deletion inside the other mutex.     *)
DeleteChannelNested ==
    Section("channels_queue", Maybe(ConvertCharToMsgOnShared \o Touch("channels_to_delete")))

(* Mutant: an early return that keeps the mutex.                          *)
DeleteChannelKeepsLock ==
    Lock("channels_queue")
        \o Maybe(ConvertCharToMsgOnShared)
        \o Maybe(Unlock("channels_queue") \o Maybe(Touch("channels_to_delete")))

DeleteChannel ==
    LET move == Unlock("channels_queue") \o Maybe(Touch("channels_to_delete"))
    IN  Lock("channels_queue")
            \o Maybe(ConvertCharToMsgOnShared)
            \o Either(Unlock("channels_queue"), move)

FindChannel == Touch("channels_queue")

\* Found or too many; no memory, once or twice; created.
GetChannel ==
    LET allocate(then) == Touch("shpool") \o Either(Unlock("channels_queue"), then)
    IN  Lock("channels_queue")
            \o Either(Unlock("channels_queue"),
                      allocate(allocate(Unlock("channels_queue") \o SendEvent)))

SendOldMessages == Maybe(Touch("channel")) \o Maybe(Touch("channel"))

AssingSubscriptionToChannel ==
    Lock("channel") \o Maybe(Touch("shpool"))
        \o Either(Unlock("channel"), Unlock("channel") \o SendEvent)

UnsubscribeWorker == Section("channel", Maybe(Touch("shpool")))

CleanWorkerData ==
    Maybe(FreeWorkerMessageMemory) \o Section("channels_queue", Maybe(UnsubscribeWorker))

CensusOfChannels == Section("channels_queue", Maybe(Touch("channel")))

-----------------------------------------------------------------------------
(* What the event loop of a worker starts.  Timer stands for the ping timer,   *)
(* the disconnect timer and the end of a request by its client, which all come *)
(* down to send_response_finalize or cleanup_request_context; MemoryCleanup    *)
(* for the timer of that name and for the command that deletes channels, which *)
(* is its first call.                                                          *)
Handlers == [
    Subscribe |->
        FindChannel \o GetChannel \o Touch("shpool") \o SendOldMessages
            \o AssingSubscriptionToChannel,
    Publish |-> FindChannel \o GetChannel \o AddMsgToChannel("channel", Touch("channels_queue")),
    Delete |-> FindChannel \o DeleteChannel,
    Statistics |-> Touch("channels_queue"),
    CheckMessages |->
        Maybe(Either(SendResponseFinalize, UnsubscribeWorker) \o FreeWorkerMessageMemory),
    CensusSubscribers |->
        Section("global_shpool",
            CensusOfChannels \o Touch("shpool") \o Maybe(Touch("shpool") \o CensusOfChannels)),
    CleanupShuttingDownWorker |-> SendResponseFinalize \o CleanWorkerData,
    InitWorker |-> Section("global_shpool", CleanWorkerData \o Touch("shpool")),
    MemoryCleanup |->
        DeleteChannelsData
            \o Maybe(TrySection("cleanup",
                   CollectDeletedChannelsData \o CollectExpiredMessagesData
                       \o CollectEmptyChannels \o FreeMemoryOfExpiredMessagesAndChannels)),
    BufferCleanup |-> TrySection("cleanup", CollectExpiredMessagesData),
    Timer |-> Maybe(ConvertCharToMsgOnShared) \o SendResponseFinalize]

ASSUME IdleAssumption == Idle \notin DOMAIN Handlers

-----------------------------------------------------------------------------
VARIABLES
    owner,      \* owner[m]: the worker that holds m, NoWorker, or Dead
    wants,      \* wants[w]: the mutex that w waits for
    handler,    \* handler[w]: what the event loop of w runs
    at,         \* at[w]: the next operation of it
    deaths

vars == <<owner, wants, handler, at, deaths>>

Held(w) == {m \in Mutexes : owner[m] = w}

TypeOK ==
    /\ owner \in [Mutexes -> Workers \union {NoWorker, Dead}]
    /\ wants \in [Workers -> Mutexes \union {NoMutex}]
    /\ handler \in [Workers -> DOMAIN Handlers \union {Idle}]
    /\ at \in [Workers -> Nat]
    /\ \A w \in Workers :
          handler[w] # Idle => at[w] \in 1..(Len(Handlers[handler[w]]) + 1)
    /\ deaths \in 0..MaxDeaths

Init ==
    /\ owner = [m \in Mutexes |-> NoWorker]
    /\ wants = [w \in Workers |-> NoMutex]
    /\ handler = [w \in Workers |-> Idle]
    /\ at = [w \in Workers |-> 0]
    /\ deaths = 0

Start(w, h) ==
    /\ handler[w] = Idle
    /\ handler' = [handler EXCEPT ![w] = h]
    /\ at' = [at EXCEPT ![w] = 1]
    /\ UNCHANGED <<owner, wants, deaths>>

AtOp(w, op) ==
    /\ handler[w] # Idle
    /\ at[w] <= Len(Handlers[handler[w]])
    /\ wants[w] = NoMutex
    /\ Handlers[handler[w]][at[w]].op = op

Current(w) == Handlers[handler[w]][at[w]]

Named(w) == IF Current(w).on = "channel" THEN ChannelMutexes ELSE {Current(w).on}

Goto(w, i) == at' = [at EXCEPT ![w] = i]

Locks(w) ==
    /\ AtOp(w, "lock")
    /\ \E m \in Named(w) :
          \/ /\ owner[m] = NoWorker
             /\ owner' = [owner EXCEPT ![m] = w]
             /\ Goto(w, at[w] + 1)
             /\ UNCHANGED wants
          \/ /\ owner[m] # NoWorker
             /\ wants' = [wants EXCEPT ![w] = m]
             /\ UNCHANGED <<owner, at>>
    /\ UNCHANGED <<handler, deaths>>

Touches(w) ==
    /\ AtOp(w, "touch")
    /\ \E m \in Named(w) :
          \/ owner[m] = NoWorker /\ Goto(w, at[w] + 1) /\ UNCHANGED wants
          \/ owner[m] # NoWorker /\ wants' = [wants EXCEPT ![w] = m] /\ UNCHANGED at
    /\ UNCHANGED <<owner, handler, deaths>>

\* The mutex that a worker waits for is free: it takes it, or takes it, does
\* the short section and gives it back.
Obtain(w) ==
    /\ wants[w] # NoMutex
    /\ owner[wants[w]] = NoWorker
    /\ owner' = IF Current(w).op = "lock" THEN [owner EXCEPT ![wants[w]] = w] ELSE owner
    /\ wants' = [wants EXCEPT ![w] = NoMutex]
    /\ Goto(w, at[w] + 1)
    /\ UNCHANGED <<handler, deaths>>

(* Mutant: a trylock that fails leaves only its own step, not the section. *)
TriesTooFar(w) ==
    /\ AtOp(w, "try")
    /\ LET m == Current(w).on
       IN  \/ owner[m] = NoWorker /\ owner' = [owner EXCEPT ![m] = w] /\ Goto(w, at[w] + 1)
           \/ owner[m] # NoWorker /\ Goto(w, at[w] + 2 + Current(w).over) /\ UNCHANGED owner
    /\ UNCHANGED <<wants, handler, deaths>>

Tries(w) ==
    /\ AtOp(w, "try")
    /\ LET m == Current(w).on
       IN  \/ owner[m] = NoWorker /\ owner' = [owner EXCEPT ![m] = w] /\ Goto(w, at[w] + 1)
           \/ owner[m] # NoWorker /\ Goto(w, at[w] + 1 + Current(w).over) /\ UNCHANGED owner
    /\ UNCHANGED <<wants, handler, deaths>>

Unlocks(w) ==
    /\ AtOp(w, "unlock")
    /\ \E m \in Named(w) : owner[m] = w /\ owner' = [owner EXCEPT ![m] = NoWorker]
    /\ Goto(w, at[w] + 1)
    /\ UNCHANGED <<wants, handler, deaths>>

Branches(w) ==
    /\ \/ /\ AtOp(w, "choose")
          /\ \E skipped \in {0, Current(w).over} : Goto(w, at[w] + 1 + skipped)
       \/ AtOp(w, "jump") /\ Goto(w, at[w] + 1 + Current(w).over)
    /\ UNCHANGED <<owner, wants, handler, deaths>>

Returns(w) ==
    /\ handler[w] # Idle
    /\ at[w] > Len(Handlers[handler[w]])
    /\ handler' = [handler EXCEPT ![w] = Idle]
    /\ at' = [at EXCEPT ![w] = 0]
    /\ UNCHANGED <<owner, wants, deaths>>

\* A worker dies in a handler; the master frees the mutexes of slab pools
\* (ngx_unlock_mutexes) and starts another worker in its place.
Dies(w) ==
    /\ deaths < MaxDeaths
    /\ Held(w) # {} /\ Held(w) \subseteq MayDieHolding
    /\ deaths' = deaths + 1
    /\ owner' = [m \in Mutexes |->
          IF owner[m] # w THEN owner[m] ELSE IF m \in PoolMutexes THEN NoWorker ELSE Dead]
    /\ wants' = [wants EXCEPT ![w] = NoMutex]
    /\ handler' = [handler EXCEPT ![w] = "InitWorker"]
    /\ at' = [at EXCEPT ![w] = 1]

Proceeds(w) ==
    Locks(w) \/ Touches(w) \/ Tries(w) \/ Unlocks(w) \/ Branches(w) \/ Returns(w)

Next ==
    \E w \in Workers :
        \/ \E h \in DOMAIN Handlers : Start(w, h)
        \/ Proceeds(w)
        \/ Obtain(w)
        \/ Dies(w)

Fairness == \A w \in Workers : WF_vars(Proceeds(w)) /\ SF_vars(Obtain(w))

Spec == Init /\ [][Next]_vars /\ Fairness

-----------------------------------------------------------------------------
(* OrderedLocks is the discipline: a worker waits only for a mutex that ranks  *)
(* above all those it holds.                                                   *)
Ordered == INSTANCE OrderedLocks WITH
    Processes <- Workers, NoProcess <- NoWorker, MaxRank <- 6

ASSUME RanksAssumption == Ordered!Proper

(* Every routine nests its mutexes in the order of Rank, along every path and  *)
(* call: under channels_to_delete_mutex the events about subscribers and their *)
(* cleanup, under channels_queue_mutex the collection of messages and channels. *)
ImplementsOrderedLocks == Ordered!Spec

(* Workers never wait for one another in a circle, nor one for itself: events  *)
(* are published from under other mutexes, on a channel with a mutex too.      *)
NoCircularWait == Ordered!NoCircularWait

(* Every handler ends, also when a worker dies while it holds a mutex of a     *)
(* slab pool: every early return and failure to allocate gives back what is    *)
(* held, or the next worker would wait for ever.                               *)
HandlersEnd == \A w \in Workers : handler[w] # Idle ~> handler[w] = Idle

=============================================================================

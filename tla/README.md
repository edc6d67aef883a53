# TLA+ models of nginx-push-stream-module

nginx worker processes have no common event loop: they meet only in shared
memory, under spin locks, and through sockets that carry one-word commands.
These modules model what happens there. Paths below are relative to the
repository (`src/` is its C code, `include/` its headers, `docs/` its manual).

## 1. The system and its parts

| Part | State | Operations | Meets the others through |
|---|---|---|---|
| Messages (`utils.c`, `ipc.c`) | `ngx_http_push_stream_msg_t`: `expires`, `deleted`, `workers_ref_count`; `channel->message_queue`, `messages_trash`, `ipc[slot].messages_queue` | `add_msg_to_channel`, `ensure_qtd_of_messages`, `broadcast`, `throw_the_message_away`, `free_worker_message_memory`, `free_memory_of_expired_messages...` | mutex of the channel, of the trash, of the slab pool; the time to live of the trash |
| Channels (`rbtree_util.c`, `utils.c`, `subscriber.c`, `publisher.c`) | `tree` and `channels_queue`, `channels_to_delete`, `channels_trash`; `deleted`, `stored_messages`, `subscribers`, `expires`; the counters of `shm_data` | `get_channel`, `find_channel`, `validate_channels`, `assing_subscription_to_channel`, `worker_subscriber_cleanup`, `delete_channel`, `delete_channels_data`, `collect_*`, `free_memory_of_expired_channels` | a raw pointer kept by a request from its first lookup to the end of its body; four queue mutexes; the cleanup timers of all workers |
| Worker queues (`ipc.c`) | `ipc[slot].messages_queue`, the socket pairs, `workers_with_subscribers` of each channel | `broadcast`, `alert_worker`, `channel_handler`, `process_worker_message`, `init_worker`, `clean_worker_data` | CHECK_MESSAGES, DELETE_CHANNEL, CENSUS_SUBSCRIBERS, CLEANUP_SHUTTING_DOWN commands |
| Subscriber requests (`subscriber.c`) | the stamp and the event id that the client sends back | replay of stored messages (backtrack, If-Modified-Since and tag, Last-Event-Id), polling, long polling, streaming | the queue of messages of the channels |
| Connections (`utils.c`, `subscriber.c`, `ipc.c`) | the request context and its timers, `subscribers_queue`, the subscriptions in each sentinel, output that waits | registration, ping, disconnect and send timers, `send_response_finalize`, `cleanup_request_context`, `flush_pending_output`, the walks over subscriptions | the lists of one worker, which every handler of it changes |
| Census (`ipc.c`) | `slots_for_census`; `subscribers` of the zone, of workers, of channels | `init_worker`, `census_worker_subscribers`, the recount, `exit_worker` | commands and the counters of channels |
| Mutexes (everywhere) | one per queue, ten for channels and one for the events channel, those of two slab pools | lock, trylock, unlock in every routine | each other: they are nested |
| Publisher requests, statistics (`publisher.c`, `module.c`) | - | GET, POST, PUT, DELETE, statistics | channels, counters |
| WebSocket reader (`websocket.c`) | `frame`: step, opcode, lengths, mask, buffer; `ctx->temp_pool` | `websocket_handler`, `websocket_reading` | publishes what it reads |
| Formatting (`utils.c`, `module.c`) | templates | parse, split in lines, format | builds the copies of a message |
| Configuration (`setup.c`) | main and location configuration, shared zones | directives, `init_shm_zone` | the constants of everything else |
| JavaScript client (`misc/js/pushstream.js`) | wrapper of a transport | connect, reconnect, timeouts | HTTP |

Behaviours that are hard:

- **pointers used after an unlock**: `validate_channels` and `publisher_handler`
  find a channel under a lock and use it without; `broadcast` uses a message that
  it may no longer have any claim on;
- **grace periods instead of counts**: messages and channels rest in a trash for
  `NGX_HTTP_PUSH_STREAM_DEFAULT_SHM_MEMORY_CLEANUP_OBJECTS_TTL` (10 s), measured
  with the cached clock of whatever worker writes or reads the deadline;
- **edge-triggered wake-ups**: a worker is told only when its queue goes from
  empty to not empty, after the unlock, over a socket that can be full;
- **deaths**: a worker is replaced in the same slot and cleans up after the other;
- **counters updated apart from what they count**, saturating at zero, and
  counted anew by a census that overlaps with others and with what it counts;
- **lists changed while they are walked**, in memory that belongs to the requests;
- **nested mutexes**, taken inside calls several levels deep;
- **bytes that come in any pieces**, read by a state machine that gives back the
  memory of its parts at the end of each event.

What makes each part correct: a message or channel is in one place and is not
freed while anyone has it; what is counted is what is there; what is queued is
delivered and what is deleted is released; limits hold; ids are unique; a
client gets each message once, in order; nothing in a list or a timer outlives its
request; workers do not wait for one another in a circle.
The `hazards` of `PROJECT.json` list, by line, what endangers these.

## 2. The modules

### MessageMemory, RecordLifetime, MessageMemoryProofs

One channel, any number of workers and messages. Variables carry the names of
the fields (`expires`, `deleted`, `workers_ref_count`, `message_queue`,
`messages_trash`, `messages_queue`); `pc`, `hand` and `targets` are the local
state of the handler a worker runs; `channel_mutex` is a lock held across steps,
the other mutexes enclose one action each. A publisher is `AddMessage` (the
first locked part of `add_msg_to_channel`), `RemoveOldest`/`RemoveDone`
(`ensure_qtd_of_messages`, one message at a time), `BroadcastLock`,
`SendWorkerMessage` per worker, `BroadcastUnlock` and `DiscardUnstored`. A
consumer is `Respond`, then `Release`. The timers are `Cleanup` (removal of
expired messages, or of all those of a deleted channel) and `FreeHead`/`FreeDone`.
`Crash` kills a worker that holds no mutex; `Respawn`, `CleanQueue` and
`UnsubscribeWorker` are `clean_worker_data`. Time is discrete: `Tick` advances
`now`; a handler starts with `ngx_time[w]` refreshed, and `now` does not get more
than `HandlerTime` ahead of the cached clock of a busy worker. That bound is an
assumption on the environment: nothing in the code enforces it.

`RecordLifetime` is the abstract specification: records with users, passed on only by a
user, freed only without users. The refinement mapping takes for users of a
message the workers that have it in hand or in their queue.

### ChannelLifecycle, ChannelLifecycleProofs

The channels of one zone. `tree` is `data->tree` with `channels_queue` (always
changed together); the other queues are sets, since deadlines are abstracted to
"may be over". A request is `pc`, `worker`, and the pointer `channel` it keeps;
`task[w]` says what the event loop of `w` runs, so handlers of one worker do not
interleave, but a request that awaits its body lets others run. Subscribers:
`ValidateChannel`, `CreateOnSubscribe`, `AssignSubscription` or `AssignFails` (no
memory for the sentinel), `Disconnect`.
Publishers: `GetChannel`, `StoreMessage`, `EnsureQtdOfMessages`, `CountMessage`.
DELETE: `FindForDelete`, `MarkDeleted`, `MoveToDelete`. Timers: `DeleteChannels`
(alone on the command, or as the start of `memory_cleanup`), `CollectDeleted`,
`CollectExpired`, `CollectEmpty`, `FreeChannel`, `CleanupDone`. `stored`,
`subscribers` and the counters in `data` are numbers as in the code, with the
saturating `Decrement` macro. `Crash` kills a worker with its requests. `Respawn` is
what `clean_worker_data` does to channels: it takes the sentinels of the slot out of
those of `channels_queue` and leaves every counter as it is. `RecountChannel` is
the end of a census, which may come at any time, or never: it counts the channels
of `channels_queue`, and no others. The slab pool gives freed records out again, so a
pointer that a request kept may meet another channel; `stranded` is history, and
says whether a subscriber has ever entered a channel in the trash or beyond
(`MCChannelStaleSubscriber`), after which no count can be trusted. Messages are
counted only; events about channels are messages of `EventsChannel`. Wildcard
channels (a second counter with the same code) and `subscribers` of the whole zone
are left out.

### WorkerQueue, WorkerQueueProofs

`broadcast` at the grain of its two loops: `Broadcast` takes the mutex and starts
with an arbitrary `queue_was_empty` (the local array is not initialized), `Enqueue`
visits a worker, `Unlock`, `Alert` visits whoever is in the list *now*, `Return`.
`Wake` to `ReadAgain` are `channel_handler`; `Process`, `Release` and `ProcessDone`
the delivery loop, whose test of the queue takes no lock. `checks` and `others`
are the commands in the socket of a worker; `Fits` is a write that does not block.
`Crash`, `Respawn`, `CleanQueue`, `UnsubscribeWorker`, `Cleaned` are the replacement
of a worker.

### Delivery, ChannelLog, DeliveryProofs

What the clients of one channel receive, over all their requests. A publisher is
`AddMessage` (the stamp: time of the cached clock and a tag that counts the messages
of one second), `SetTime` and `SetTag` (the stamp is noted as the channel's
`last_message`, time before tag), `StoreMessage`, `EnsureQtdOfMessages`, `Broadcast`,
`SendWorkerMessage` per worker, `Unlock`. A poll or long poll
(`subscriber_polling_handler`) is `Poll`, `HasOldMessages`, then `CompareStamp`,
`ReadTime` and `ReadTag` (the stamp of the answer: `last_message` is read without the
mutex, each part once to compare it and again to take it), then `SendOldMessages`, or
`Assign` for a long poll with nothing to send. A stream is `Resume` and `SendAfterId`
(Last-Event-Id), or `AskBacktrack`, `ReadStart`, `SendBacktrack` (the count of stored
messages is read twice without the mutex), then `Assign`. `ProcessMessage` is
`respond_to_subscribers`; `Disconnect` and `Timeout` end a subscription. `since[c]` is
the stamp that the client sends back, `got[c]` what it was sent. Wake-ups
(`WorkerQueue`), reference counts (`MessageMemory`) and the life of the channel
(`ChannelLifecycle`) are left out: the channel exists and a worker looks at its queue
at any time. Pollers start with a stamp before all messages, and requests name one
channel.

`ChannelLog` is the abstract specification: one order of the messages, a position
in it for each worker that has had subscribers, deliveries to the subscribers of the
moment. The refinement mapping counts as delivered by a worker the messages that
were broadcast and are neither in its queue nor about to be put there.

Scenarios (`Scenarios`) fix what the two clients do and how many messages the
channel keeps: a long poll and a stream with one stored message of two, and a
poller alone with two stored messages of four. One run checks both.

### WebSocketReader, WebSocketMessages, WebSocketReaderProofs

One connection. `sent` is what the client sends and `stream` the bytes of it (both
chosen at the start); `EndOf(frames, n)` is the place in the stream where the n-th
frame ends. `arrived` and `taken` say how far the bytes have come, `buf` is what of
them the current step has. `Arrive`, `CloseByClient`, `ReadEvent` and `Disconnect` are
the environment. Events are edge-triggered, as nginx asks for them from epoll and
kqueue: the handler runs when something has arrived since it ran last, not because
something is left in the socket (`EdgeTriggered = FALSE` is for `select` and `poll`).
`ngx_http_push_stream_recv` asks for exactly the bytes that the step lacks (`Room`);
if they are not there, `ReadAgain` keeps what has come and returns to the event loop,
or `ReadEnd` ends the connection. Otherwise `ReadStart`, `ReadRealSize`, `ReadMaskKey`
and `ReadPayload` are the steps of `frame->step`; the last includes unmasking,
joining, publishing and what follows a frame, and may fail on the way (text that is
not UTF-8, no memory for the parts together or for the message of one more channel). A
byte is its frame, part and place with the set of mask bytes that it was XORed with,
so a payload unmasked twice, or with the wrong key, differs.

`WebSocketMessages` is the abstract specification: frames are taken whole, in
order; fragments are joined and published in every channel. The refinement mapping
has no bytes left: a message in hand is `consolidated`, each byte taken for the place
in its payload if it is clear, and for nothing if it is not.
What the code's promise leaves out is in the abstract specification as well: a
text whose last fragment is empty is never published (`websocket.c:313`, `367`), a
control frame between fragments ends the connection (`244`-`246`), a fragment with
another opcode than 0 is taken for a continuation, each fragment of a ping gets a
pong, UTF-8 is tested per fragment. Left out: the HTTP of the handshake.

### Connection, ConnectionProofs

The subscribers of one worker. `request[r]` is the context: the phase, the three
timers, the output that the client has not taken. `sentinel[c]` lists the
subscriptions of a channel in this worker, `subscribers_queue` the registered
subscribers. The loops that end requests on their way (`respond_to_subscribers`,
`delete_channels_data`, `cleanup_shutting_down_worker`) are walks: `walk` is the list
and where the loop stands, with the successor taken before the body as in the code.
`Finalize` is `send_response_finalize` with the cleanup it runs; `StreamFails` and
`AssignmentFails` are the error paths of `subscriber_handler`, before and after the
registration; `FlushPendingOutput` is `flush_pending_output`, `Gone` the end of the
request's memory. Timers count down with `Tick`. Messages are thrown away and freed by
other workers at any time that the deadlines allow. A walk that stands on a
subscription that is no longer in the list goes by memory that was freed: what it does
then is undefined, and the worker is not followed any further (`Respond` has the
guard). The proofs say for which requests this happens.

### Census, CensusProofs

All the workers and their counters. A start is `CleanWorkerData` (under the mutex
of the global zone), `Enrol` (which counts whom to wait for) and `Alert` per worker;
a census is `CensusWorkerSubscribers`, `Count`, `Answer`, and for the last one
`RecountTotal` and `RecountChannel`. `Register`, `CountInWorker`, `Assign`, `Unsubscribe`
and `Unregister` are the steps in which a subscriber comes and goes; `ShutDown`,
`CleanOwnData`, `Exit` a worker that leaves; `Crash`, `Respawn` a death. Channels are
neither created nor deleted.

### Locks, OrderedLocks, LocksProofs

Each routine that takes mutexes is the sequence of its lock operations, with a
call replaced by the sequence of the callee, `Maybe` for a condition or loop,
`Either` for an early return. `Handlers` are what the event loop starts. A section
that takes no other mutex is one step (`Touch`): whoever holds such a mutex never
waits, so nothing is lost about who waits for whom. The mutex of a channel may be
any of the pool, the same one for two channels, or that of the events channel.
A worker that dies may hold only the mutexes in `MayDieHolding`.
`OrderedLocks` is the abstract specification: wait only for a mutex that ranks
above all you hold.

### How they fit

The modules are views of the same code at different grains, and each names what
it takes from another: `Delivery` trusts that the head of a queue is a live
message (`NoDanglingPointer`) and that a worker comes to look at its queue
(`NoLostWakeup`); `MessageMemory` and `WorkerQueue` trust that the channel is not
freed under a request, which `ChannelLifecycle` shows, except where
`MCChannelStaleSubscriber` says otherwise; `ChannelLifecycle` lets a census end at any
time with the right count of a channel, and `Census` shows that counts taken while
subscribers come and go are right and that censuses do end;
`Connection` takes the order of messages from `Delivery` and adds what happens to
their memory under slow clients; all of them enclose sections under a mutex in
one step, or hold it across steps, and `Locks` shows that these sections end. The
`MC*` modules add symmetry sets and the definitions of structured constants.

## 3. What is checked

| cfg | Instance | Shows |
|---|---|---|
| `MCMessageMemory` | 2 workers, 2 messages, queue of 1, grace 2, handlers of 1, clock to 3, 1 death | `NoDanglingPointer`, `RefCountIsExact`, `LinkedOnce`, `NoLeak`, refinement of `RecordLifetime` |
| `MCChannelLifecycle` | 2 workers, 3 requests, 2 channels and the events channel, 1 death | `PlacedOnce`, `ChannelCountersExact`, `OneChannelPerId`, `EventsChannelStays`, `SubscribersCounted`, `OverbookedByRacesOnly` |
| `MCChannelEviction` | 2 workers, 2 requests, 2 ids and a limit of 1 channel, fair | `DeletedIsReleased`, `WithinMaxChannels` |
| `MCWorkerQueue` | 2 workers, 2 messages, sockets of 2, 1 death | `NoLostWakeup` and the capacity of the sockets |
| `MCWorkerQueueDelivery` | 2 workers, 2 messages, sockets of 1, fair | `Delivered` |
| `MCDelivery` | 2 workers; a stream and a long poll, 2 messages, 1 stored; a poller, 4 messages, 2 stored; clock to 2 | `PollingIsExactUnlessTorn` (no message skipped, none twice or out of order, but for torn stamps), refinement of `ChannelLog` |
| `MCWebSocketReader` | a connection to 2 channels and the events channel, all pairs of 12 frames, texts in two and three parts, any pieces, edge-triggered events | `PartsAreKept`, refinement of `WebSocketMessages`, `SpacedFramesAreRead` |
| `MCConnection` | a stream and a long poll in 2 channels, 1 message, timers of 1 and 2 ticks | `TimersAreLive`, `WalkIsLive`, `ListsExact`, `KeptIsUnanswered`, `ConnectionEnds` |
| `MCCensus` | 2 workers with a subscriber each, 1 channel, 2 deaths, 1 shut down | `CountsExact`, `NeverUndercounted`, `GhostsVanish` |
| `MCLocks` | 2 workers, a mutex of the pool for channels, that of the events channel, 1 death | refinement of `OrderedLocks`, `NoCircularWait`, `HandlersEnd` |

The bounds are the smallest where the interesting cases meet: two workers for
every race (publisher against consumer, timer or cleaner), a second message so
that one is evicted or published over a queue that is not empty, a third request
so that two DELETEs, or a DELETE and a subscriber, meet a creation, and a clock
that runs past a full grace period with slack. The poller has four messages
because a torn stamp needs the time of one and the tag of another, of an earlier
second, and then a message of the later second to be skipped, or to be sent again
once the answer went back. In
`MCConnection` the stream and the long poll are both in both channels, so that a
walk over one ends requests of the other; in `MCCensus` two deaths put a census
into another one. In `MCLocks` the refinement is about one worker at a time (what
it may wait for depends on what it holds), so more workers would add nothing to
it, and the proof covers them; `HandlersEnd` needs two. In `MCMessageMemory` the bound
`2 * HandlerTime <= ObjectsTTL` is tight: with `ObjectsTTL = 1` TLC finds a
publisher whose message is freed (a deadline computed from a clock one handler
behind, read by a worker whose clock is current, while the publisher runs on).
With the 10 seconds of the code: handlers of up to 5 seconds are safe.

Every property has a mutant, a plausible error in the code that breaks it, in
the module just before the definition it replaces.

### Fairness

`ChannelLifecycle`: a handler that began goes on (weak), a worker that died is
replaced (weak, the master does it), and `memory_cleanup` of each worker happens
again and again (strong: its timer is rearmed every time it fires, but a busy
worker is at times not able to run it). No client is assumed to do anything.
`WorkerQueue`: `broadcast` runs to its end (weak); the event loop returns to a
readable socket and reads what is in it in order (strong, since other handlers
of the worker disable these steps for a while); the delivery of a message
ends (strong: the events it publishes on the way do not repeat for ever). No
client is assumed to publish or to subscribe.

`WebSocketReader`: the event loop serves an event and the reader goes on (weak).
That bytes arrive, or that the client closes, is not assumed. That the client waits
for a frame to be read before it sends the next one (`Spaced`) is a premise of
`SpacedFramesAreRead`, not an assumption: the other properties of the run hold of
any client.
`Connection`: time passes, expired timers are served, the handlers that run go
on (weak each). Nothing is assumed of the client or of publishers.
`Census`: a handler goes on and a worker gets to the command in its socket
(strong: both need the mutex of the global zone, which others take and give
back); a dead worker is replaced (weak).
`Locks`: a handler goes on when it does not wait (weak), and a worker that waits
for a mutex that is free again and again gets it (strong: `ngx_shmtx_lock` spins
or sleeps on a semaphore and does not queue, so starvation is excluded by
assumption, not by the code). That the event loop starts a handler is not assumed.

`MessageMemory` and `Delivery` are checked for safety only.

Deadlock is checked except for `ChannelLifecycle`, where each request is made
once and the system may stop, its timers having nothing to do, for
`MCDelivery` and `MCLongPolling`, where the bound `MaxGot` keeps clients away, and
for `MCWebSocketReader`, where the client has sent all and the connection is closed.

## 4. Where the code does not do what it says

| cfg | Violated | Because |
|---|---|---|
| `MCChannelStaleSubscriber` | `ReleasedHasNoSubscribers` | a subscriber is registered in a channel released since its lookup |
| `MCLongPolling` | `LongPollingSkipsNothing` | a long poll that times out is answered with the clock: a message published before and not delivered is never asked for |

These properties are defined in the modules, too, and are violated under the
constants given (those not named as in the cfg of the module):

- `QueueDrains` (`ipc.c:223`; publishers.textile:15 says that DELETE will "disconnect
  any subscriber, and delete the channel"): `MCChannelEviction` with 1 channel, 1 id,
  `MaxChannels = 2`, `MaxCrashes = 1`. `clean_worker_data` does not visit
  `channels_to_delete`, and neither does the census: a channel deleted with
  subscribers of a worker that dies is kept for ever (`DeletedIsReleased` is violated as well).
- `StoredMessagesExact` (module.h:277, "# of messages being stored"), specification
  `Spec`, `MaxCrashes = 0`: with 1 request, 1 channel and the events channel, expired
  messages of the events channel are subtracted and were never added
  (`utils.c:1066`); with `EventsChannel = None`, 1 channel, 2 requests, a message is
  removed before its publisher counts it (`utils.c:435`), and the saturating
  decrement of the counter is lost.
- `WithinMaxSubscribers` (`main.textile:78`: "The maximum number of subscribers
  accepted per channel.") with the constants of `MCChannelStaleSubscriber`: two
  workers validate before either registers (`subscriber.c:328`).
  `OverbookedByRacesOnly` says how far this goes. A request that names one channel
  several times is not modelled; it is subscribed as many times.
- `QueuedIsAlerted`, 1 channel and 1 message: with `Capacity = 1`, `MaxOthers = 1`,
  `MaxCrashes = 0` the command does not fit in the socket (`ipc.c:484`); with
  `MaxOthers = 0`, `Capacity = 2`, `MaxCrashes = 1` and `CrashAt = {"alert"}` a
  publisher dies between insertion and alert, with `CrashAt = {"idle"}` a message
  enters the queue of a slot between the two parts of `clean_worker_data`. The
  message left in the queue is not the worst: as the queue is not empty, no later
  publisher alerts the worker either, and its subscribers get nothing until
  something else makes it look.
- `PollingSkipsNothing` and `PollingInOrder` with the constants of `MCDelivery`: the
  stamp of an answer can be torn. `add_msg_to_channel` notes the time (`utils.c:415`)
  and then the tag (`416`), and a poll reads them without the mutex
  (`subscriber.c:184`-`189`). After a message (1,5), while (2,1) is published, the
  answer may have the stamp (2,5): the poll after it skips (2,2) to (2,5). Between its
  own two reads it may also take an old time and a newer tag, and go back to what was sent.
  `PollingIsExactUnlessTorn` says that nothing else goes wrong; `TornBefore` and `TornAfter`
  name the messages that it may happen to.
- `PollingIsExactUnlessTorn` and `PollingSkipsNothing` with `Skew = 1`: two workers whose
  cached clocks differ publish a later message with an earlier stamp (`utils.c:397`),
  and a poller that has the first one is never sent the second.
- `LongPollingSkipsNothing` with `MaxStored = 2`, even without timeouts: a message
  that is published between `HasOldMessages` and `Assign` (`subscriber.c:182` and
  `215`) is skipped when a later one ends the poll.
- `FramesAreRead` with the constants of `MCWebSocketReader`: the reader returns after a
  frame (`websocket.c:403`) with a whole frame, or the client's close, left in the socket,
  and an edge-triggered event says nothing more until the client sends again
  (subscribers.textile:221: "Enable a WebSocket connection subscribers send messages
  to the channel(s) it is connected through the same connection"). `SpacedFramesAreRead`
  has the clients that wait for a frame to be read before they send more.
- `PendingIsLive` with the constants of `MCConnection`: the output of a slow client
  points to a message that is freed `ObjectsTtl` after it was thrown away, and each
  part that the client takes starts the send timer again (`utils.c:764`).
- `WalkIsLive` with a request of `MCConnection` that names one channel twice: the
  channels of the path are not compared with one another (`utils.c:2292`), so the
  request has two subscriptions side by side in one list; the loop of
  `respond_to_subscribers` (`ipc.c:508`) takes the second as successor, and the end of the
  request takes both. `ConnectionProofs` shows that such requests are the only ones
  (`OnlyDoublesAreLost`).
- `LongPollsAreSubscribed` with `MemoryFull = TRUE`: the result of
  `assing_subscription_to_channel` is ignored (`subscriber.c:215`), and the long poll
  is kept without the subscription.
- `TotalExact` with the constants of `MCCensus` (module.h:278, "# of subscribers in
  all channels"): the sum of the census is taken between the two steps of a
  registration (`subscriber.c:465` to `467`).
- `GhostsVanish` without `shut_downs > 0`: a worker that is told to stop after it was
  counted in `slots_for_census` never answers, and the counts of the dead stay
  until the next start.
- `HandlersEnd` with `MayDieHolding = Mutexes`: nginx frees the mutexes of slab pools
  for a process that dies, not those that the module creates.

These the models allow without a property that forbids them:

- `channel->subscribers` is too high after a death, until a census ends: the new worker
  takes the sentinels of the dead one out of the channels (`ipc.c:185`-`231`) and leaves
  the counter, which the last answer of a census sets (`ipc.c:352`-`377`), for the
  channels of `channels_queue` only. A DELETE in between makes it too high for ever.
  `SubscribersCounted` says that it is never too low, and exact as long as nobody dies.
- A POST keeps the pointer of its channel until its body has come (`publisher.c:247`).
  By then the channel may be in the trash, where nobody collects what is stored; or
  freed, and the record in use for another channel, which then gets the message, or is
  deleted by a DELETE. `ChannelLifecycle` has both. What becomes of the channel when
  its memory is in use for something else is undefined, and not modelled.
- A subscriber that has entered a released channel (`MCChannelStaleSubscriber`) stays linked
  in its memory when it is freed; `SubscribersCounted` and `OverbookedByRacesOnly` say
  nothing after that (`stranded`).
- The id of a message is given under one acquisition of the channel's mutex and
  the broadcast takes it again (`utils.c:444`): ids may reach all subscribers in the opposite
  order. `ChannelLog` has one order for all workers, that of the broadcasts.
- A backtrack may send nothing although messages are stored: `stored_messages` is read
  twice without the mutex (`subscriber.c:524`), and the number to skip wraps around
  when messages expire in between.
- The counter of a worker is too low after a stream fails before it is registered
  (`subscriber.c:124`): its cleanup takes away what was never added. `ListsExact` asks
  for a counter that is not too high then.

Two more, of comments: "Should never be called inside a locked block", of
`send_response_finalize` (`utils.c:876`), is not kept at `utils.c:140`, under
`channels_to_delete_mutex`; `Locks` has that call, and it does no harm to the order.
`free_memory_of_expired_messages_and_channels` does not pass `force` on
(`utils.c:1167`).

## 5. What is proved

`MessageMemoryProofs`, for all constants that satisfy the assumptions of the
module (finite set of workers; `2 * HandlerTime <= ObjectsTTL`):

- `TypeCorrect`, `NoUseAfterFree`, `ExactReferences`, `NoDoubleLink`,
  `MemoryDoesNotLeak`: the invariants of the run;
- `Refinement`: `Spec => ImplementsLifetime`.

`NoDanglingPointer` is not inductive: that a message in hand is live depends on
when it can be freed. `IInv` adds what is known of clocks (`ClocksInv`: a cached
clock is behind by at most `HandlerTime` in a worker with a handler running), of a
message in hand (`HandInv`: which handlers have one, that a responding worker's is
the head of its queue, that publishers' messages differ), of the lists
(`LinksInv`, `QueuesInv`: links are to live messages, each queue holds a message
once, and the count is the number of holders) and of the steps of a publisher
(`PublishInv`: the message it publishes is live, is not yet in the queues of the
workers it has still to visit and, if it was thrown away, has a deadline beyond
the end of the handler). The lemma `FreedIsUnused` carries the argument: what `FreeHead`
frees has no holder, by the count, and is in nobody's hand, by the deadline.
The refinement then follows step by step: the pointers change only by
allocating, passing on by a user, or dropping. `NoLeak` follows from the same
steps: a message leaves a list only for the trash or the free memory, and the
hands of a publisher only when it is linked or thrown away.

`WorkerQueueProofs`:

- `TypeCorrect`, with the capacity of the sockets;
- `NoWakeupIsLost`: `NoLostWakeup` if `MaxOthers < Capacity`. Without that
  assumption the alert may be lost (`QueuedIsAlerted` in section 4). `IInv` adds that a worker
  that responds has a message in its queue (so the unlocked test is of a queue
  that nobody else shortens), that a publisher holds its channel's mutex while it
  inserts, the bound on the other commands, and that without deaths all are up.
  An alert that does not fit is harmless because then a CHECK_MESSAGES is among
  the commands in the socket.

`LocksProofs`, for any workers, any mutexes of channels and any deaths (the mutex of
the events channel is one of those of channels, and none of them is one of the zone):

- `TypeCorrect`, `RoutinesAreOrdered` (`Spec => ImplementsOrderedLocks`), `NeverCircular`
  (`NoCircularWait`);
- `WhoReturnsHoldsNothing`: a worker in its event loop holds no mutex, whichever early
  return its last handler took.

The routines are long sequences with calls replaced by what they call, so they are
not looked at position by position: `Typed(code, H, G)` says that a sequence takes a
worker that holds the kinds of mutexes in `H` to one that holds `G`, that it
takes each mutex above what is held, and that its jumps land where as much is held.
There is a lemma for each way to build a sequence (`TypedSequence`, `TypedSection`,
`TypedMaybe`, `TypedEither` ...), then one for each routine, from those of its callees,
for all that its callers may hold. `IInv` says that a worker holds at most what
the typing of its handler has for its position. That there is no circle then follows
from the ranks: take the worker of the circle that waits for the highest one (from
the library's theorem about well-founded relations); who holds that mutex waits
for a higher one.

`ChannelLifecycleProofs`, for finite sets of workers (at least one), requests and
channels, and any ids and limits:

- `TypeCorrect`, `InOnePlace`, `CountersAreExact`, `IdsAreUnique`, `ChannelsAreLimited`,
  `EventsChannelIsKept`, `SubscribersAreCounted`: the invariants `TypeOK`, `PlacedOnce`,
  `ChannelCountersExact`, `OneChannelPerId`, `WithinMaxChannels`, `EventsChannelStays`
  and `SubscribersCounted`;
- `OverbookingIsBounded` (`OverbookedByRacesOnly`).

`IInv` adds to these invariants what a handler may rely on (`RequestInv`: it is what
its worker runs, and the channel it keeps has an id), where a channel can be by
its flag (`PlaceInv`), who is linked in it (`LinkedInv`) and who of them is counted
(`CountedInv`). The point is `PlaceInv`: "deleted" is tested and set under the mutex of
the queue, so the request that set it has the channel for itself until it puts it
into `channels_to_delete`. That a record is reused breaks none of this: it is allocated
from `freed` only, and an old pointer then meets a channel like any other. `CountedInv`
needs that nobody was stranded: then a subscriber that is connected is linked in
a channel that is in the tree or waits to be emptied, so neither a recount, which is
of the tree, nor a reuse can forget it, and what an eviction takes from the counter is
what it unlinks. `AdmittedInv` counts for each channel the requests that are past the
test of its limit, or will find it without one; they are handlers in different workers,
hence at most as many as workers, and one of them is the one that was tested last.

`CensusProofs`, for finite sets of workers (fewer than the word can count) and
channels, and any number of subscribers, deaths and stops:

- `TypeCorrect` and `NeverTooFew` (`NeverUndercounted`);
- `ExactAfterCensus` (`CountsExact`).

`IInv` has what each worker counts at each label (`JoinedInv`, `OwnInv`), that the labels
where the mutex of the global zone is held exclude each other (`MutexInv`; so the one that
adds up meets nobody between zero and its new counts) and who is in the registries
(`RegistryInv`). `CensusInv` says that a count that is too high is on its way to being
taken anew: a worker is missing or has not enrolled, or as many answers are
owed as `slots_for_census` awaits, or someone is adding up. It does not matter
whose census an answer belongs to: each takes one from what is owed and from what is
awaited, and whoever enrols last asks all that it waits for.

`DeliveryProofs`, for any workers, clients, scenarios and times:

- `TypeCorrect`: the types, among them that no stamp is negative and that a handler
  has a message that exists;
- `Refinement`: `Spec => ImplementsLog`;
- `PollingExact`: `PollingIsExactUnlessTorn` if `Skew = 0`. The hypothesis is there
  because it is needed (section 4): the code takes the time of a stamp from the cached
  clock of the publishing worker, and nothing makes these clocks agree.

`RequestsInv` says that a client has one request at a time, `CreatedInv` that queues
hold messages that were created, in order. For the refinement, `BroadcastInv` says
that only the holder of the channel's mutex is between two workers of its loop, and
that what a worker has in its queue is the end of the log, less the last message if it
is about to be put there. So what it takes next is what `ChannelLog` delivers next.
For polling, `StampsInv` says that stamps ascend with creation, `StoringInv` that one
publisher at a time stores, `NotedInv` what the channel has noted while it does (the
time of the new message and the tag of the one before, for a moment), and `AnswerInv`
what may be said of a stamp whose time and tag are compared and taken at different
moments. It may reach beyond the last message, but then its tag is from an earlier
second (`Covered`); it may be before what the client sent, but then its tag is from a
later one (`Overtaken`). `SinceInv`, `GotInv` and `MissedInv` are kept by every
answer: the client has what is stored up to its stamp, but for the messages that such
a stamp has skipped, and nothing after it, but for those that it goes back to.
`MissedInv` also looks ahead, to the message that a publisher is about to store: the
stamp may have reached it by then.

`ConnectionProofs`, for any requests, modes, channels and times:

- `TypeCorrect`, `TimersStayLive` (`TimersAreLive`), `ListsAreExact` (`ListsExact`),
  `LongPollsAnsweredOnce` (`KeptIsUnanswered`);
- `WalkLeavesForDoublesOnly`: `OnlyDoublesAreLost`, that a walk which has left its list stands
  on a subscription of a request that names the channel twice. For clients that name
  each channel once this is `WalkIsLive`, which the run checks; for others `WalkIsLive` is
  false (section 4), and the other theorems speak of what happens up to the step that
  would follow the lost pointer.

`RequestsInv` holds whatever handler runs: a subscriber is in the list of the worker
for as long as it is in its context (`KeptInv`), a subscription is in the list of its
own channel (`PlacesInv`), and nothing is listed of a request that is over. It is why
the walk survives: the body of the loop ends one request, which takes along its
subscriptions in other lists and, unless it has the channel twice, only that one in
the list of the walk, and the successor was taken before. `WalkInv` adds that a walk
about a message has that message in the queue, `UnansweredInv` that nothing was
written to a request that is not open yet.

`WebSocketReaderProofs`, for any streams of frames, of any number, length and opcode,
cut in any pieces, on any platform:

- `TypeCorrect`, with the bounds of what the reader takes and has in its buffer;
- `PartsStay` (`PartsAreKept`);
- `Refinement`: `Spec => ImplementsMessages`.

`IInv` says where the reader is: `PlaceInv`, that it has taken the frames that are
handled, what the steps of the next frame before this one have read (`Passed`), and
what is in its buffer, which are the bytes of the stream from there on; `HeaderInv`,
that what the steps before have kept (opcode, mask, key, length, flags) is what that
frame says; `MessageInv`, that between frames the flags say whether a message is in
hand; `TextInv`, that all that is joined or published is clear. None of this holds of a
connection that is over, where nobody looks. The lemma `StreamBytes` says that the
stream is the frames one after the other, so the bytes with which `recv` completes a
step (`StepBytes`) are those that the client put there: a header (`StartBytes`), a length,
a key, a payload, which the key makes clear (`UnmaskedPayload`). So each frame ends
where the next one begins, and the step that ends it is `Handle` or `PublishInSome` of
`WebSocketMessages`; the other steps are not seen, or are `End`.

The prover has no induction with an operator as a parameter, and no recursive
operators. The lemmas take instead the least number, or size of a set, where the
claim fails (`FiniteInduction` in `ConnectionProofs`; in `CensusProofs`, that sums over a
finite set are natural numbers, do not depend on the order, are monotone, and
change by as much as one element does). `FlattenSeq`, used as a filter in `Connection`, is
shown to keep the elements that it should and, of a list that has each once, each once.
Places and totals are cardinalities where that is enough (`EndOf` in
`WebSocketReader`, `Total` in `ChannelLifecycle`, `UpTo` in `Delivery`).

Only model-checked: the liveness properties (`GhostsVanish`, `DeletedIsReleased`,
`Delivered`, `ConnectionEnds`, `HandlersEnd`, `SpacedFramesAreRead`), which are beyond the
prover. All the others that the passing runs check are theorems (`WalkIsLive` as
`OnlyDoublesAreLost`, which is weaker by the requests that break it).

## 6. Not modelled

- A request that names a channel several times (`utils.c:2292`: the list is not
  de-duplicated). `Connection` has such requests, its proofs cover them and its run
  does not; in `ChannelLifecycle` a request names one channel.
- The answer of `process_worker_message` to a message of another process of its slot
  (`ipc.c:412`): it removes the sentinel of that process, which `UnsubscribeWorker` has
  done by then.
- If-Modified-Since on a stream of several channels, and the tags that messages of
  other channels of the zone take: `Delivery` has one channel.
- Wildcard channels: a second counter and limit with the same code.
- Texts: the answers of the statistics (`publisher.c`, `module.c`), templates, the
  splitting of messages in lines, chunks, JSONP, the padding for old browsers, MD5 and
  base64 of the handshake. They compute strings from strings and share nothing.
- Configuration (`setup.c`): directives are read once, by one process, before there
  are workers; the zones that it leaves are the `Init` of the modules.
- The JavaScript client: a library for browsers, which meets the module only
  through requests that are modelled.
- Tests, documents, examples, and `misc/tools`: the claims in section 4 quote them.

What would come next: requests for several channels in one subscription in
`Delivery`, and wildcard channels in `ChannelLifecycle`.

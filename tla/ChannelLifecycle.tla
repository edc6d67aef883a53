-------------------------- MODULE ChannelLifecycle --------------------------
(***************************************************************************)
(* The channels of one shared memory zone: how requests find, create, use  *)
(* and delete them, and how the cleanup timers of the workers collect and  *)
(* free them.                                                              *)
(*                                                                         *)
(* A channel record is found or created under channels_queue_mutex, and    *)
(* the pointer is then used without that lock: a subscriber enters later   *)
(* in the same handler, a publisher or a DELETE only when the body of the  *)
(* request has been read, while this worker serves other requests. A       *)
(* deleted or inactive channel leaves the tree, waits in channels_to_delete*)
(* for its subscribers to be disconnected, then in channels_trash, and is  *)
(* freed.                                                                  *)
(*                                                                         *)
(* Time is abstracted: what a deadline allows may happen at any moment, so *)
(* the order of a queue does not matter and queues are sets (a record put  *)
(* twice in a queue shows in the counters). The tree and channels_queue    *)
(* always change together, under one mutex: the set "tree" is both. What   *)
(* happens to the messages of a channel is MessageMemory's subject: here   *)
(* they are counted.                                                       *)
(*                                                                         *)
(* Freed records are used again for new channels: a request that still     *)
(* points to one then acts on another channel. (What the pool makes of the *)
(* memory in between, or for other objects, is left out.)                  *)
(***************************************************************************)
EXTENDS Integers, FiniteSets

CONSTANTS
  Workers,       \* the process slots
  Requests,      \* the clients' requests, each sent at most once
  Channels,      \* the channel records
  Ids,           \* the channel ids that clients ask for; that of the events
                 \* channel, if asked for, is written as its record
  None,          \* "no channel", "no worker", "no id"
  EventsChannel, \* the record of push_stream_events_channel_id, or None
  MaxChannels,   \* push_stream_max_number_of_channels
  MaxStored,     \* push_stream_max_messages_stored_per_channel
  MaxSubscribers,\* push_stream_max_subscribers_per_channel
  MaxCrashes     \* bound: worker processes that die

ASSUME ConstantsAssumption ==
  /\ None \notin Workers \cup Requests \cup Channels \cup Ids
  /\ Requests \cap {"idle", "dead", "collect_deleted", "collect_expired", "collect_empty", "free"} = {}
  /\ EventsChannel \in Channels \cup {None}
  /\ {MaxChannels, MaxStored, MaxSubscribers} \subseteq Nat \ {0}
  /\ MaxCrashes \in Nat
  /\ IsFiniteSet(Workers) /\ IsFiniteSet(Requests) /\ IsFiniteSet(Channels)
  /\ Workers # {}

VARIABLES
  tree,              \* data->tree and data->channels_queue
  channels_to_delete, channels_trash,  \* the other two queues of channels
  freed,             \* the records given back to the slab pool
  id,                \* id[c]: channel->id, None while c is not allocated
  deleted,           \* deleted[c]: channel->deleted
  stored,            \* stored[c]: channel->stored_messages
  subscribers,       \* subscribers[c]: channel->subscribers
  subscriptions,     \* subscriptions[c]: those linked in the workers' sentinels
  data,              \* the counters of ngx_http_push_stream_shm_data_t
  pc, worker, wanted, channel, qtd_removed, \* what each request's handler has
  task,              \* task[w]: what runs in the event loop of w
  crashes,           \* how many workers have died
  stranded           \* history: a subscriber has entered a released channel

places == <<tree, channels_to_delete, channels_trash, freed, id, deleted>>
use    == <<stored, subscribers, subscriptions>>
locals == <<worker, wanted, channel, qtd_removed>>
faults == <<crashes, stranded>>
vars   == <<places, use, data, pc, locals, task, faults>>

----------------------------------------------------------------------------
CleanupTasks == {"collect_deleted", "collect_expired", "collect_empty", "free"}

Least(x, y) == IF x <= y THEN x ELSE y

(* Mutant: the macro without its saturation.                               *)
DecrementWrapping(counter, qtd) == counter - qtd

(* Mutant: the macro that ignores how much to take away.                   *)
DecrementByOne(counter, qtd) == IF counter > 1 THEN counter - 1 ELSE 0

(* NGX_HTTP_PUSH_STREAM_DECREMENT_COUNTER_BY                               *)
Decrement(counter, qtd) == IF counter > qtd THEN counter - qtd ELSE 0

(* The counts of the channels cs, added up.                                *)
Total(counts, cs) == Cardinality(UNION {{c} \X (1..counts[c]) : c \in cs})

Goto(r, label) == pc' = [pc EXCEPT ![r] = label]

Begin(r, w) ==
  /\ pc[r] = "new"
  /\ task[w] = "idle"
  /\ worker' = [worker EXCEPT ![r] = w]

(* A request that is over has no pointer any more.                         *)
Forget(r) == channel' = [channel EXCEPT ![r] = None]

(* The handler goes on to its next step, and no other runs in its worker;  *)
(* or it returns to the event loop, and the worker is free.                *)
Continue(r, w, label) == Goto(r, label) /\ task' = [task EXCEPT ![w] = r]
Return(r, w, label) == Goto(r, label) /\ task' = [task EXCEPT ![w] = "idle"]

Running(r) == pc[r] # "new" /\ task[worker[r]] = r

(* send_event: one more message in the events channel, up to its limit,    *)
(* and none of the counters of data; nothing happens in the events channel *)
(* itself.                                                                 *)
EventsAbout(c) == IF c = EventsChannel THEN 0 ELSE 1

WithEvents(counts, events) ==
  IF EventsChannel = None THEN counts
  ELSE [counts EXCEPT ![EventsChannel] = Least(@ + events, MaxStored)]

(* find_channel_on_tree                                                    *)
Matches(i) == {c \in tree : id[c] = i}

FindChannel(i) == IF Matches(i) = {} THEN None ELSE CHOOSE c \in Matches(i) : TRUE

(* What the slab pool may hand out for a channel.                          *)
Unallocated(c) == id[c] = None \/ c \in freed

(* Mutant: the limit compared with the number of channels off by one.      *)
OneTooMany == data.channels # MaxChannels + 1

BelowMaxChannels == data.channels # MaxChannels

(* The part of get_channel for an id that is not in the tree; the fields   *)
(* of the record are set anew.                                             *)
InsertChannel(c, i) ==
  /\ BelowMaxChannels
  /\ Unallocated(c)
  /\ id' = [id EXCEPT ![c] = i]
  /\ deleted' = [deleted EXCEPT ![c] = FALSE]
  /\ subscribers' = [subscribers EXCEPT ![c] = 0]
  /\ subscriptions' = [subscriptions EXCEPT ![c] = {}]
  /\ freed' = freed \ {c}
  /\ tree' = tree \cup {c}
  /\ data' = [data EXCEPT !.channels = @ + 1]
  /\ stored' = WithEvents([stored EXCEPT ![c] = 0], 1)
  /\ UNCHANGED <<channels_to_delete, channels_trash>>

----------------------------------------------------------------------------
(* Subscribers                                                             *)

(* Mutant: one subscriber more than the limit is let in.                   *)
AdmitsOneMore(c) == subscribers[c] <= MaxSubscribers

Admits(c) == subscribers[c] < MaxSubscribers

(* validate_channels, first loop: look the channel up, refuse the request  *)
(* when it has too many subscribers.                                       *)
ValidateChannel(r, w, i) ==
  /\ Begin(r, w)
  /\ LET c == FindChannel(i) IN
     \/ /\ c = None
        /\ wanted' = [wanted EXCEPT ![r] = i]
        /\ Continue(r, w, "create")
        /\ UNCHANGED channel
     \/ /\ c # None
        /\ Admits(c)
        /\ channel' = [channel EXCEPT ![r] = c]
        /\ Continue(r, w, "assign")
        /\ UNCHANGED wanted
     \/ /\ c # None
        /\ ~Admits(c)
        /\ Return(r, w, "done")
        /\ UNCHANGED <<wanted, channel>>
  /\ UNCHANGED <<places, use, data, qtd_removed, faults>>

(* Mutant: the id is not looked up again under channels_queue_mutex.       *)
CreateUnchecked(r) ==
  /\ Running(r) /\ pc[r] = "create"
  /\ \E c \in Channels : InsertChannel(c, wanted[r]) /\ channel' = [channel EXCEPT ![r] = c]
  /\ Continue(r, worker[r], "assign")
  /\ wanted' = [wanted EXCEPT ![r] = None]
  /\ UNCHANGED <<worker, qtd_removed, faults>>

(* validate_channels, second loop: get_channel.                            *)
CreateOnSubscribe(r) ==
  /\ Running(r) /\ pc[r] = "create"
  /\ LET found == FindChannel(wanted[r]) IN
     \/ /\ found # None
        /\ channel' = [channel EXCEPT ![r] = found]
        /\ Continue(r, worker[r], "assign")
        /\ UNCHANGED <<places, use, data>>
     \/ /\ found = None      \* too many channels, or no memory for one more
        /\ Return(r, worker[r], "done")
        /\ UNCHANGED <<places, use, data, channel>>
     \/ /\ found = None
        /\ \E c \in Channels : InsertChannel(c, wanted[r])
                               /\ channel' = [channel EXCEPT ![r] = c]
        /\ Continue(r, worker[r], "assign")
  /\ wanted' = [wanted EXCEPT ![r] = None]
  /\ UNCHANGED <<worker, qtd_removed, faults>>

(* assing_subscription_to_channel, on whatever became of the channel ...   *)
AssignSubscription(r) ==
  /\ Running(r) /\ pc[r] = "assign"
  /\ LET c == channel[r] IN
     /\ subscribers' = [subscribers EXCEPT ![c] = @ + 1]
     /\ subscriptions' = [subscriptions EXCEPT ![c] = @ \cup {r}]
     /\ stored' = WithEvents(stored, EventsAbout(c))
     /\ stranded' = (stranded \/ c \in channels_trash \cup freed)
  /\ Return(r, worker[r], "subscribed")
  /\ UNCHANGED <<places, data, locals, crashes>>

(* ... or without memory for the sentinel of this worker: no subscription. *)
AssignFails(r) ==
  /\ Running(r) /\ pc[r] = "assign"
  /\ Return(r, worker[r], "done") /\ Forget(r)
  /\ UNCHANGED <<places, use, data, worker, wanted, qtd_removed, faults>>

(* The client goes away: worker_subscriber_cleanup.                        *)
Disconnect(r) ==
  /\ pc[r] = "subscribed" /\ task[worker[r]] = "idle"
  /\ LET c == channel[r] IN
     /\ subscribers' = [subscribers EXCEPT ![c] = Decrement(@, 1)]
     /\ subscriptions' = [subscriptions EXCEPT ![c] = @ \ {r}]
     /\ stored' = WithEvents(stored, EventsAbout(c))
  /\ Goto(r, "done") /\ Forget(r)
  /\ UNCHANGED <<places, data, worker, wanted, qtd_removed, task, faults>>

----------------------------------------------------------------------------
(* Publishers                                                              *)

(* publisher_handler of a POST: get_channel, then wait for the body.       *)
GetChannel(r, w, i) ==
  /\ Begin(r, w)
  /\ LET found == FindChannel(i) IN
     \/ /\ found \notin {None, EventsChannel}
        /\ channel' = [channel EXCEPT ![r] = found]
        /\ Return(r, w, "body")
        /\ UNCHANGED <<places, use, data>>
     \/ /\ found \in {None, EventsChannel}   \* no channel to be had, or 403
        /\ Return(r, w, "done")
        /\ UNCHANGED <<places, use, data, channel>>
     \/ /\ found = None
        /\ \E c \in Channels : InsertChannel(c, i)
                               /\ channel' = [channel EXCEPT ![r] = c]
        /\ Return(r, w, "body")
  /\ UNCHANGED <<wanted, qtd_removed, faults>>

(* publisher_body_handler, add_msg_to_channel, where messages are stored   *)
(* (push_stream_store_messages on): store the message ...                  *)
StoreMessage(r) ==
  /\ pc[r] = "body" /\ task[worker[r]] = "idle"
  /\ stored' = [stored EXCEPT ![channel[r]] = @ + 1]
  /\ Continue(r, worker[r], "limit")
  /\ UNCHANGED <<places, subscribers, subscriptions, data, locals, faults>>

(* ... remove the oldest beyond the limit (ensure_qtd_of_messages) ...     *)
EnsureQtdOfMessages(r) ==
  /\ Running(r) /\ pc[r] = "limit"
  /\ LET c == channel[r] IN
     /\ qtd_removed' = [qtd_removed EXCEPT ![r] = Decrement(stored[c], MaxStored)]
     /\ stored' = [stored EXCEPT ![c] = Least(@, MaxStored)]
  /\ Goto(r, "count")
  /\ UNCHANGED <<places, subscribers, subscriptions, data, worker, wanted,
                 channel, task, faults>>

(* ... and count both.                                                     *)
CountMessage(r) ==
  /\ Running(r) /\ pc[r] = "count"
  /\ data' = [data EXCEPT !.stored_messages = Decrement(@, qtd_removed[r]) + 1]
  /\ qtd_removed' = [qtd_removed EXCEPT ![r] = 0]
  /\ Return(r, worker[r], "done") /\ Forget(r)
  /\ UNCHANGED <<places, use, worker, wanted, faults>>

----------------------------------------------------------------------------
(* DELETE                                                                  *)

(* publisher_handler: find_channel, then wait for the body.                *)
FindForDelete(r, w, i) ==
  /\ Begin(r, w)
  /\ LET found == FindChannel(i) IN
     \/ /\ found # EventsChannel \/ found = None
        /\ channel' = [channel EXCEPT ![r] = found]
        /\ Return(r, w, "delete")
     \/ /\ found = EventsChannel /\ found # None      \* 403
        /\ Return(r, w, "done")
        /\ UNCHANGED channel
  /\ UNCHANGED <<places, use, data, wanted, qtd_removed, faults>>

(* Mutant: "deleted" is not looked at again under the lock.                *)
DeletableAlways(c) == c # None

Deletable(c) == c # None /\ ~deleted[c]

(* delete_channel, under channels_queue_mutex ...                          *)
MarkDeleted(r) ==
  /\ pc[r] = "delete" /\ task[worker[r]] = "idle"
  /\ LET c == channel[r] IN
     \/ /\ Deletable(c)
        /\ deleted' = [deleted EXCEPT ![c] = TRUE]
        /\ tree' = tree \ {c}
        /\ data' = [data EXCEPT !.channels = Decrement(@, 1)]
        /\ Continue(r, worker[r], "move")
        /\ UNCHANGED channel
     \/ /\ Return(r, worker[r], "done")   \* deleted already, or no memory for
        /\ Forget(r)                      \* the message that tells it
        /\ UNCHANGED <<tree, deleted, data>>
  /\ UNCHANGED <<channels_to_delete, channels_trash, freed, id, use, worker, wanted,
                 qtd_removed, faults>>

(* ... then under channels_to_delete_mutex; and the workers are alerted.   *)
MoveToDelete(r) ==
  /\ Running(r) /\ pc[r] = "move"
  /\ channels_to_delete' = channels_to_delete \cup {channel[r]}
  /\ data' = [data EXCEPT !.channels_in_delete = @ + 1]
  /\ Return(r, worker[r], "done") /\ Forget(r)
  /\ UNCHANGED <<tree, channels_trash, freed, id, deleted, use, worker, wanted, qtd_removed,
                 faults>>

----------------------------------------------------------------------------
(* The timers of a worker                                                  *)

(* delete_channels_data: disconnect this worker's subscribers from the     *)
(* deleted channels. It runs on the alert of a DELETE and at the start of  *)
(* memory_cleanup, which then collects if nobody else is (cleanup_mutex).  *)
Doomed(w) ==
  {r \in Requests : /\ pc[r] = "subscribed" /\ worker[r] = w
                    /\ channel[r] \in channels_to_delete /\ r \in subscriptions[channel[r]]}

(* Mutant: the test of the counter off by one.                             *)
EvictedButLast(w) == {r \in Doomed(w) : subscribers[channel[r]] > 1}

Evicted(w) == {r \in Doomed(w) : subscribers[channel[r]] > 0}

DeleteChannels(w, next) ==
  /\ task[w] = "idle"
  /\ LET gone(c) == {r \in Evicted(w) : channel[r] = c} IN
     /\ subscribers' = [c \in Channels |-> Decrement(subscribers[c], Cardinality(gone(c)))]
     /\ subscriptions' = [c \in Channels |-> subscriptions[c] \ gone(c)]
  /\ pc' = [r \in Requests |-> IF r \in Evicted(w) THEN "done" ELSE pc[r]]
  /\ channel' = [r \in Requests |-> IF r \in Evicted(w) THEN None ELSE channel[r]]
  /\ stored' = WithEvents(stored, Cardinality(Evicted(w)))
  /\ task' = [task EXCEPT ![w] = next]
  /\ UNCHANGED <<places, data, worker, wanted, qtd_removed, faults>>

DeleteWorkerChannel(w) == Evicted(w) # {} /\ DeleteChannels(w, "idle")

MemoryCleanup(w) ==
  DeleteChannels(w, IF \E v \in Workers : task[v] \in CleanupTasks
                    THEN "idle" ELSE "collect_deleted")

(* Mutant: the counter of subscribers is not looked at.                    *)
ReleasableAnyway(c) == TRUE

Releasable(c) == subscribers[c] = 0

(* collect_deleted_channels_data: drop the messages of the deleted         *)
(* channels, and move to the trash those without subscribers.              *)
CollectDeleted(w) ==
  /\ task[w] = "collect_deleted"
  /\ LET leaving == {c \in channels_to_delete : Releasable(c)}
         dropped == Total(stored, channels_to_delete)
     IN
     /\ stored' = WithEvents([c \in Channels |-> IF c \in channels_to_delete THEN 0 ELSE stored[c]],
                             Cardinality(leaving))
     /\ channels_to_delete' = channels_to_delete \ leaving
     /\ channels_trash' = channels_trash \cup leaving
     /\ data' = [data EXCEPT
                   !.stored_messages = Decrement(@, dropped),
                   !.channels_in_delete = Decrement(@, Cardinality(leaving)),
                   !.channels_in_trash = @ + Cardinality(leaving)]
  /\ task' = [task EXCEPT ![w] = "collect_expired"]
  /\ UNCHANGED <<tree, freed, id, deleted, subscribers, subscriptions, pc, locals, faults>>

(* collect_expired_messages_data, under channels_queue_mutex: in each      *)
(* channel, the oldest messages past their time to live.                   *)
CollectExpired(w) ==
  /\ task[w] = "collect_expired"
  /\ \E expired \in [tree -> 0..(MaxStored + Cardinality(Requests))] :
       /\ \A c \in tree : expired[c] <= stored[c]
       /\ stored' = [c \in Channels |-> IF c \in tree THEN stored[c] - expired[c] ELSE stored[c]]
       /\ data' = [data EXCEPT !.stored_messages =
                     Decrement(@, Total(expired, tree))]
  /\ task' = [task EXCEPT ![w] = "collect_empty"]
  /\ UNCHANGED <<places, subscribers, subscriptions, pc, locals, faults>>

(* collect_expired_messages_and_empty_channels_data, under                 *)
(* channels_queue_mutex: of the empty channels, those that are inactive.   *)
(* The mutant forgets channel->for_events.                                 *)
EmptyOrEvents(c) == stored[c] = 0 /\ subscribers[c] = 0

Empty(c) == stored[c] = 0 /\ subscribers[c] = 0 /\ c # EventsChannel

CollectEmpty(w) ==
  /\ task[w] = "collect_empty"
  /\ \E inactive \in SUBSET {c \in tree : Empty(c)} :
     /\ deleted' = [c \in Channels |-> deleted[c] \/ c \in inactive]
     /\ tree' = tree \ inactive
     /\ channels_trash' = channels_trash \cup inactive
     /\ stored' = WithEvents(stored, Cardinality(inactive))
     /\ data' = [data EXCEPT !.channels = Decrement(@, Cardinality(inactive)),
                             !.channels_in_trash = @ + Cardinality(inactive)]
  /\ task' = [task EXCEPT ![w] = "free"]
  /\ UNCHANGED <<channels_to_delete, freed, id, subscribers, subscriptions, pc, locals, faults>>

(* free_memory_of_expired_channels: those of the trash whose time is over, *)
(* one after the other; then cleanup_mutex is released.                    *)
FreeChannel(w, c) ==
  /\ task[w] = "free"
  /\ c \in channels_trash
  /\ freed' = freed \cup {c}
  /\ channels_trash' = channels_trash \ {c}
  /\ data' = [data EXCEPT !.channels_in_trash = Decrement(@, 1)]
  /\ UNCHANGED <<tree, channels_to_delete, id, deleted, use, pc, locals, task, faults>>

CleanupDone(w) ==
  /\ task[w] = "free"
  /\ task' = [task EXCEPT ![w] = "idle"]
  /\ UNCHANGED <<places, use, data, pc, locals, faults>>

----------------------------------------------------------------------------
(* A worker dies with its requests, holding no mutex ...                   *)
Crash(w) ==
  /\ crashes < MaxCrashes
  /\ task[w] \in {"idle"} \cup Requests
  /\ crashes' = crashes + 1
  /\ task' = [task EXCEPT ![w] = "dead"]
  /\ pc' = [r \in Requests |-> IF worker[r] = w THEN "done" ELSE pc[r]]
  /\ channel' = [r \in Requests |-> IF worker[r] = w THEN None ELSE channel[r]]
  /\ wanted' = [r \in Requests |-> IF worker[r] = w THEN None ELSE wanted[r]]
  /\ qtd_removed' = [r \in Requests |-> IF worker[r] = w THEN 0 ELSE qtd_removed[r]]
  /\ UNCHANGED <<places, use, data, worker, stranded>>

(* ... and is replaced. clean_worker_data removes the sentinels of the     *)
(* slot from the channels of channels_queue; the counters of the channels  *)
(* stay as they are ...                                                    *)
Respawn(w) ==
  /\ task[w] = "dead"
  /\ subscriptions' = [c \in Channels |-> IF c \in tree
                                          THEN {r \in subscriptions[c] : worker[r] # w}
                                          ELSE subscriptions[c]]
  /\ task' = [task EXCEPT ![w] = "idle"]
  /\ UNCHANGED <<places, stored, subscribers, data, pc, locals, faults>>

(* Mutant: the census adds up the sentinel of its own worker only.         *)
RecountOwn(w, c) ==
  /\ task[w] = "idle"
  /\ c \in tree
  /\ subscribers' = [subscribers EXCEPT ![c] = Cardinality({r \in subscriptions[c] : worker[r] = w})]
  /\ UNCHANGED <<places, stored, subscriptions, data, pc, locals, task, faults>>

(* ... until a census ends in this worker, which adds up the sentinels of  *)
(* each channel of channels_queue. When censuses begin and end, and deaths *)
(* in the middle of one, are the subject of Census: here one may end at    *)
(* any time.                                                               *)
RecountChannel(w, c) ==
  /\ task[w] = "idle"
  /\ c \in tree
  /\ subscribers' = [subscribers EXCEPT ![c] = Cardinality(subscriptions[c])]
  /\ UNCHANGED <<places, stored, subscriptions, data, pc, locals, task, faults>>

----------------------------------------------------------------------------
Init ==
  LET events == {EventsChannel} \ {None} IN
  /\ tree = events
  /\ channels_to_delete = {} /\ channels_trash = {} /\ freed = {}
  /\ id = [c \in Channels |-> IF c \in events THEN c ELSE None]
  /\ deleted = [c \in Channels |-> FALSE]
  /\ stored = [c \in Channels |-> 0]
  /\ subscribers = [c \in Channels |-> 0]
  /\ subscriptions = [c \in Channels |-> {}]
  /\ data = [channels |-> Cardinality(events), channels_in_delete |-> 0,
             channels_in_trash |-> 0, stored_messages |-> 0]
  /\ pc = [r \in Requests |-> "new"]
  /\ worker = [r \in Requests |-> None]
  /\ wanted = [r \in Requests |-> None]
  /\ channel = [r \in Requests |-> None]
  /\ qtd_removed = [r \in Requests |-> 0]
  /\ task = [w \in Workers |-> "idle"]
  /\ crashes = 0 /\ stranded = FALSE

(* What a client makes happen ...                                          *)
Arrival(r) ==
  \/ \E w \in Workers, i \in Ids :
       ValidateChannel(r, w, i) \/ GetChannel(r, w, i) \/ FindForDelete(r, w, i)
  \/ Disconnect(r)
  \/ StoreMessage(r)
  \/ MarkDeleted(r)

(* ... what the worker then does without waiting for anybody ...           *)
Handle(r) ==
  \/ CreateOnSubscribe(r)
  \/ AssignSubscription(r) \/ AssignFails(r)
  \/ EnsureQtdOfMessages(r)
  \/ CountMessage(r)
  \/ MoveToDelete(r)

(* ... and what its timers do.                                             *)
Timer(w) ==
  \/ DeleteWorkerChannel(w)
  \/ MemoryCleanup(w)
  \/ CollectDeleted(w)
  \/ CollectExpired(w)
  \/ CollectEmpty(w)
  \/ \E c \in Channels : FreeChannel(w, c)
  \/ CleanupDone(w)

Next ==
  \/ \E r \in Requests : Arrival(r) \/ Handle(r)
  \/ \E w \in Workers : \/ Timer(w) \/ Crash(w) \/ Respawn(w)
                         \/ \E c \in Channels : RecountChannel(w, c)

Spec == Init /\ [][Next]_vars

(* A handler that has begun runs on; a timer of a worker fires again and   *)
(* again; the master replaces a dead worker.                               *)
Fairness ==
  /\ \A r \in Requests : WF_vars(Handle(r))
  /\ \A w \in Workers :
       /\ SF_vars(MemoryCleanup(w))
       /\ WF_vars(CollectDeleted(w) \/ CollectExpired(w) \/ CollectEmpty(w) \/ CleanupDone(w))
       /\ WF_vars(Respawn(w))

FairSpec == Spec /\ Fairness

----------------------------------------------------------------------------
Labels == {"new", "create", "assign", "subscribed", "body", "limit", "count",
           "delete", "move", "done"}

(* The types of all the variables: what is in shared memory, and what each *)
(* request keeps.                                                          *)
TypeOK ==
  /\ {tree, channels_to_delete, channels_trash, freed} \subseteq SUBSET Channels
  /\ id \in [Channels -> Ids \cup {None, EventsChannel}]
  /\ deleted \in [Channels -> BOOLEAN]
  /\ stored \in [Channels -> Nat]
  /\ subscribers \in [Channels -> Nat]
  /\ subscriptions \in [Channels -> SUBSET Requests]
  /\ data \in [channels : Nat, channels_in_delete : Nat, channels_in_trash : Nat,
               stored_messages : Nat]
  /\ pc \in [Requests -> Labels]
  /\ worker \in [Requests -> Workers \cup {None}]
  /\ wanted \in [Requests -> Ids \cup {None}]
  /\ channel \in [Requests -> Channels \cup {None}]
  /\ qtd_removed \in [Requests -> Nat]
  /\ task \in [Workers -> CleanupTasks \cup Requests \cup {"idle", "dead"}]
  /\ crashes \in Nat
  /\ stranded \in BOOLEAN

(* The channels that a DELETE has taken out of the tree and not yet queued *)
InTransit == {channel[r] : r \in {q \in Requests : pc[q] = "move"}}

(* A channel record is in one place only, whatever DELETEs and timers race *)
(* for it with pointers of any age: a second insertion would corrupt the   *)
(* queues and a second release the slab pool. "deleted" tells which side.  *)
PlacedOnce ==
  /\ LET where == <<tree, channels_to_delete, channels_trash, freed, InTransit>> IN
     \A i, j \in 1..5 : i # j => where[i] \cap where[j] = {}
  /\ \A q, r \in Requests : pc[q] = "move" /\ pc[r] = "move" /\ channel[q] = channel[r] => q = r
  /\ \A c \in Channels : c \in tree <=> id[c] # None /\ ~deleted[c]

(* The counters that the statistics show count the channels in each queue, *)
(* although they saturate and are updated apart from one another.          *)
ChannelCountersExact ==
  /\ data.channels = Cardinality(tree)
  /\ data.channels_in_delete = Cardinality(channels_to_delete)
  /\ data.channels_in_trash = Cardinality(channels_trash)

(* get_channel looks the id up again under the lock: two workers never     *)
(* create a channel each for the same id.                                  *)
OneChannelPerId == \A c, d \in tree : id[c] = id[d] => c = d

(* push_stream_max_number_of_channels is never exceeded, with creations by *)
(* subscribers and by publishers in several workers.                       *)
WithinMaxChannels == Cardinality(tree) <= MaxChannels

(* The routines that send events use data->events_channel without a check: *)
(* no DELETE and no timer ever takes it away.                              *)
EventsChannelStays == EventsChannel # None => EventsChannel \in tree

Connected(c) == {r \in Requests : pc[r] = "subscribed" /\ channel[r] = c}

(* collect_deleted_channels_data and collect_..._empty_channels_data go by *)
(* channel->subscribers alone: it may count dead workers' subscribers, for *)
(* a while or for ever, but never misses one that is connected, through    *)
(* replacements, recounts, deletions and records used again. No channel is *)
(* therefore released under a subscriber, but by the race that             *)
(* ReleasedHasNoSubscribers is about, after which nothing is said here.    *)
SubscribersCounted ==
  ~stranded => \A c \in Channels :
    /\ Cardinality(Connected(c)) <= subscribers[c]
    /\ crashes = 0 => subscribers[c] = Cardinality(Connected(c))
    /\ c \in channels_trash \cup freed => Connected(c) = {}

(* What a DELETE promises: a deleted channel gets rid of its subscribers   *)
(* and leaves channels_to_delete.                                          *)
DeletedIsReleased ==
  \A c \in Channels : deleted[c] ~> c \in channels_trash \cup freed

(* The queue of the deleted channels empties.                              *)
QueueDrains ==
  \A c \in Channels : c \in channels_to_delete ~> c \notin channels_to_delete

(* collect_deleted_channels_data, collect_..._empty_channels_data: a       *)
(* channel is released because it has no subscribers.                      *)
ReleasedHasNoSubscribers ==
  \A c \in channels_trash \cup freed : subscriptions[c] = {}

(* The limit of subscribers is tested without a lock and before the        *)
(* registration, so it may be exceeded; but not by more than one for each  *)
(* other worker, and not again by later arrivals: the next test sees all.  *)
(* (A stranded subscriber that leaves is taken off another channel's count *)
(* if the record is used again.)                                           *)
OverbookedByRacesOnly ==
  ~stranded =>
    \A c \in Channels : subscribers[c] <= MaxSubscribers + Cardinality(Workers) - 1

(* The directive push_stream_max_subscribers_per_channel, as it is stated. *)
WithinMaxSubscribers == \A c \in tree : subscribers[c] <= MaxSubscribers

(* data->stored_messages, "# of messages being stored" (those of the       *)
(* events channel are never counted), once no publisher is about to count. *)
StoredMessagesExact ==
  (\A r \in Requests : pc[r] \notin {"limit", "count"}) =>
    data.stored_messages
      = Total(stored, (tree \cup channels_to_delete \cup InTransit) \ {EventsChannel})
============================================================================

--------------------------- MODULE MessageMemory ---------------------------
(***************************************************************************)
(* The life of a message record (ngx_http_push_stream_msg_t) in the shared *)
(* memory of the worker processes, for one channel:                        *)
(*                                                                         *)
(*   add_msg_to_channel allocates it and, when the location stores         *)
(*   messages, links it in channel->message_queue; broadcast links one     *)
(*   worker_msg per worker with subscribers in the queue of that worker,   *)
(*   counted in workers_ref_count; the workers answer their subscribers    *)
(*   and drop the reference; ensure_qtd_of_messages moves stored messages  *)
(*   to messages_trash; the cleanup timer frees the head of the trash when *)
(*   nobody counts a reference and its grace period is over.               *)
(*                                                                         *)
(* The worker that published a message holds an uncounted pointer to it    *)
(* until its handler returns: only the grace period protects that pointer. *)
(* A worker process runs one handler at a time; handlers of different      *)
(* workers interleave at every lock they release.                          *)
(***************************************************************************)
EXTENDS Integers, FiniteSets, Sequences, SequencesExt

CONSTANTS
  Workers,      \* the process slots; each runs one event loop
  Messages,     \* the message records: one is allocated at most once
  None,         \* "no worker" and "no message"
  MaxStored,    \* push_stream_max_messages_stored_per_channel
  MessageTTL,   \* push_stream_message_ttl
  ObjectsTTL,   \* NGX_HTTP_PUSH_STREAM_DEFAULT_SHM_MEMORY_CLEANUP_OBJECTS_TTL
  HandlerTime,  \* bound on the time between two refreshes of ngx_time() in a
                \* worker that is running handlers
  MaxTime,      \* bound: the clock stops here
  MaxCrashes    \* bound: worker processes that die

ASSUME WorkersAssumption ==
  IsFiniteSet(Workers) /\ None \notin Workers /\ None \notin Messages

ASSUME ParametersAssumption ==
  /\ MaxStored \in Nat \ {0}     \* setup.c refuses 0
  /\ MessageTTL \in Nat \ {0}
  /\ ObjectsTTL \in Nat /\ HandlerTime \in Nat
  /\ MaxTime \in Nat /\ MaxCrashes \in Nat

\* What the constant "10 seconds" has to satisfy.
ASSUME GraceAssumption == 2 * HandlerTime <= ObjectsTTL

VARIABLES
  now,                \* the wall clock
  ngx_time,           \* ngx_time[w]: the clock as cached by w's event loop
  pc,                 \* pc[w]: where the running handler of w is
  hand,               \* hand[w]: the message the handler of w points to
  channel_mutex,      \* the worker that holds channel->mutex, or None
  targets,            \* targets[w]: the sentinels broadcast has yet to visit
  workers_with_subscribers, \* the workers with a sentinel in the channel
  state,              \* state[m]: "unused", "live" or "freed"
  message_queue,      \* channel->message_queue, oldest first
  messages_trash,     \* data->messages_trash
  deleted, expires, workers_ref_count,  \* the fields of a message
  messages_queue,     \* messages_queue[w]: ipc[w].messages_queue
  crashes             \* how many workers have died

clock    == <<now, ngx_time>>
record   == <<state, deleted, expires, workers_ref_count>>
queues   == <<message_queue, messages_trash, messages_queue>>
sentinel == <<workers_with_subscribers, targets>>
vars     == <<clock, pc, hand, channel_mutex, sentinel, record, queues, crashes>>

----------------------------------------------------------------------------
PublisherSteps == {"limit", "broadcast", "enqueue", "check"}
CleanupSteps == {"expired", "all", "free"}

(* Mutant: only the queue of the channel is looked at.                     *)
LinkedInQueue(m) == m \in ToSet(message_queue)

Linked(m) == m \in ToSet(message_queue) \cup ToSet(messages_trash)

CanLock(w) == channel_mutex \in {None, w}

Goto(w, label) == pc' = [pc EXCEPT ![w] = label]

(* A handler runs either first in its iteration of the event loop, with a  *)
(* fresh cached time, or after another one, with the time that one saw.    *)
Start(w, label) ==
  /\ pc[w] = "idle"
  /\ \E t \in {now, ngx_time[w]} :
        now - t <= HandlerTime /\ ngx_time' = [ngx_time EXCEPT ![w] = t]
  /\ Goto(w, label)
  /\ UNCHANGED now

(* Mutants of the next definition: no grace period; its sign is wrong.     *)
ThrowAwayNoGrace(w, m) ==
  /\ deleted' = [deleted EXCEPT ![m] = TRUE]
  /\ expires' = [expires EXCEPT ![m] = ngx_time[w]]
  /\ messages_trash' = Append(messages_trash, m)

ThrowAwayBackwards(w, m) ==
  /\ deleted' = [deleted EXCEPT ![m] = TRUE]
  /\ expires' = [expires EXCEPT ![m] = ngx_time[w] - ObjectsTTL]
  /\ messages_trash' = Append(messages_trash, m)

(* throw_the_message_away                                                  *)
ThrowAway(w, m) ==
  /\ deleted' = [deleted EXCEPT ![m] = TRUE]
  /\ expires' = [expires EXCEPT ![m] = ngx_time[w] + ObjectsTTL]
  /\ messages_trash' = Append(messages_trash, m)

(* Mutant: the message leaves the queue of the worker still counted.       *)
DropUncounted(w) ==
  /\ messages_queue' = [messages_queue EXCEPT ![w] = Tail(@)]
  /\ UNCHANGED <<record, message_queue, messages_trash>>

(* free_worker_message_memory on the head of w's queue                     *)
DropReference(w) ==
  LET m == Head(messages_queue[w]) IN
  /\ workers_ref_count' = [workers_ref_count EXCEPT ![m] = @ - 1]
  /\ expires' = IF workers_ref_count[m] - 1 <= 0 /\ deleted[m]
                THEN [expires EXCEPT ![m] = ngx_time[w] + ObjectsTTL]
                ELSE expires
  /\ messages_queue' = [messages_queue EXCEPT ![w] = Tail(@)]
  /\ UNCHANGED <<state, deleted, message_queue, messages_trash>>

----------------------------------------------------------------------------
(* The handler of a POST: add_msg_to_channel                               *)

(* The part under channel->mutex: allocate, fill in, store.                *)
AddMessage(w, m, store) ==
  /\ Start(w, "limit")
  /\ channel_mutex = None
  /\ state[m] = "unused"
  /\ hand' = [hand EXCEPT ![w] = m]
  /\ state' = [state EXCEPT ![m] = "live"]
  /\ deleted' = [deleted EXCEPT ![m] = FALSE]
  /\ workers_ref_count' = [workers_ref_count EXCEPT ![m] = 0]
  /\ expires' = [expires EXCEPT ![m] = ngx_time'[w] + MessageTTL]
  /\ message_queue' = IF store THEN Append(message_queue, m) ELSE message_queue
  /\ UNCHANGED <<channel_mutex, sentinel, messages_trash, messages_queue, crashes>>

(* ensure_qtd_of_messages removes the oldest message ...                   *)
(*   "limit":   beyond max_messages_stored_per_channel,                    *)
(*   "all":     of a channel being deleted,                                *)
(*   "expired": that is past its time to live and not being delivered.     *)
MustRemoveOldest(w) ==
  /\ message_queue # <<>>
  /\ LET m == Head(message_queue) IN
       \/ pc[w] = "limit" /\ Len(message_queue) > MaxStored
       \/ pc[w] = "all"
       \/ /\ pc[w] = "expired"
          /\ ~deleted[m]
          /\ expires[m] <= ngx_time[w]
          /\ workers_ref_count[m] <= 0

RemoveOldest(w) ==
  /\ pc[w] \in {"limit", "expired", "all"}
  /\ CanLock(w)
  /\ MustRemoveOldest(w)
  /\ channel_mutex' = w
  /\ message_queue' = Tail(message_queue)
  /\ ThrowAway(w, Head(message_queue))
  /\ UNCHANGED <<clock, pc, hand, sentinel, state, workers_ref_count,
                 messages_queue, crashes>>

RemoveDone(w) ==
  /\ pc[w] \in {"limit", "expired", "all"}
  /\ CanLock(w)
  /\ ~MustRemoveOldest(w)
  /\ channel_mutex' = None
  /\ \/ pc[w] = "limit" /\ Goto(w, "broadcast")
     \/ pc[w] \in {"expired", "all"} /\ Goto(w, "free")
     \/ pc[w] = "expired" /\ Goto(w, "idle")
  /\ UNCHANGED <<clock, hand, sentinel, record, queues, crashes>>

(* broadcast, under channel->mutex: one worker_msg per sentinel.           *)
BroadcastLock(w) ==
  /\ pc[w] = "broadcast"
  /\ channel_mutex = None
  /\ channel_mutex' = w
  /\ targets' = [targets EXCEPT ![w] = workers_with_subscribers]
  /\ Goto(w, "enqueue")
  /\ UNCHANGED <<clock, hand, workers_with_subscribers, record, queues, crashes>>

(* send_worker_message to v; it gives up when there is no memory left.     *)
SendWorkerMessage(w, v) ==
  /\ pc[w] = "enqueue"
  /\ v \in targets[w]
  /\ targets' = [targets EXCEPT ![w] = @ \ {v}]
  /\ \/ /\ workers_ref_count' = [workers_ref_count EXCEPT ![hand[w]] = @ + 1]
        /\ messages_queue' = [messages_queue EXCEPT ![v] = Append(@, hand[w])]
     \/ UNCHANGED <<workers_ref_count, messages_queue>>
  /\ UNCHANGED <<clock, pc, hand, channel_mutex, workers_with_subscribers, state,
                 deleted, expires, message_queue, messages_trash, crashes>>

BroadcastUnlock(w) ==
  /\ pc[w] = "enqueue"
  /\ targets[w] = {}
  /\ channel_mutex' = None
  /\ Goto(w, "check")
  /\ UNCHANGED <<clock, hand, sentinel, record, queues, crashes>>

(* Mutant: broadcast ends without a look at the message.                   *)
KeepUnstored(w) ==
  /\ pc[w] = "check"
  /\ Goto(w, "idle")
  /\ hand' = [hand EXCEPT ![w] = None]
  /\ UNCHANGED <<clock, channel_mutex, sentinel, record, queues, crashes>>

(* The end of broadcast: nothing else would free a message never stored.   *)
DiscardUnstored(w) ==
  /\ pc[w] = "check"
  /\ IF Linked(hand[w])
     THEN UNCHANGED <<deleted, expires, messages_trash>>
     ELSE ThrowAway(w, hand[w])
  /\ Goto(w, "idle")
  /\ hand' = [hand EXCEPT ![w] = None]
  /\ UNCHANGED <<clock, channel_mutex, sentinel, state, workers_ref_count,
                 message_queue, messages_queue, crashes>>

----------------------------------------------------------------------------
(* The other handlers                                                      *)

(* process_worker_message_data: answer the subscribers of this worker ...  *)
(* An entry for a process that died here answers nobody and removes the    *)
(* sentinel of that process (ipc.c:412): UnsubscribeWorker has done so     *)
(* before this process serves its first event, so nothing is left to do.   *)
Respond(w) ==
  /\ Start(w, "respond")
  /\ messages_queue[w] # <<>>
  /\ hand' = [hand EXCEPT ![w] = Head(messages_queue[w])]
  /\ UNCHANGED <<channel_mutex, sentinel, record, queues, crashes>>

(* ... then drop the reference.                                            *)
Release(w) ==
  /\ pc[w] = "respond"
  /\ DropReference(w)
  /\ hand' = [hand EXCEPT ![w] = None]
  /\ Goto(w, "idle")
  /\ UNCHANGED <<clock, channel_mutex, sentinel, crashes>>

(* A subscriber of this worker enters the channel.                         *)
Subscribe(w) ==
  /\ Start(w, "idle")
  /\ channel_mutex = None
  /\ workers_with_subscribers' = workers_with_subscribers \cup {w}
  /\ UNCHANGED <<hand, channel_mutex, targets, record, queues, crashes>>

(* The cleanup timers, one worker at a time (cleanup_mutex, tried and not  *)
(* waited for). memory_cleanup drops the messages of a deleted channel or  *)
(* those that expired, then frees what the trash can give back;            *)
(* buffer_cleanup only drops those that expired.                           *)
Cleanup(w, what) ==
  /\ \A v \in Workers : pc[v] \notin CleanupSteps
  /\ Start(w, what)
  /\ UNCHANGED <<hand, channel_mutex, sentinel, record, queues, crashes>>

(* Mutant: the references are not counted.                                 *)
Outlived(w, m) == ngx_time[w] > expires[m]

CanFree(w, m) == workers_ref_count[m] <= 0 /\ ngx_time[w] > expires[m]

FreeHead(w) ==
  /\ pc[w] = "free"
  /\ messages_trash # <<>>
  /\ CanFree(w, Head(messages_trash))
  /\ messages_trash' = Tail(messages_trash)
  /\ state' = [state EXCEPT ![Head(messages_trash)] = "freed"]
  /\ UNCHANGED <<clock, pc, hand, channel_mutex, sentinel, deleted, expires,
                 workers_ref_count, message_queue, messages_queue, crashes>>

FreeDone(w) ==
  /\ pc[w] = "free"
  /\ messages_trash # <<>> => ~CanFree(w, Head(messages_trash))
  /\ Goto(w, "idle")
  /\ UNCHANGED <<clock, hand, channel_mutex, sentinel, record, queues, crashes>>

----------------------------------------------------------------------------
(* A worker process dies, at any point where it holds neither the channel  *)
(* mutex nor cleanup_mutex (nginx only releases the mutex of the slab pool *)
(* of a dead worker: the others would stay locked).                        *)
Crash(w) ==
  /\ crashes < MaxCrashes
  /\ pc[w] \notin CleanupSteps \cup {"dead"}
  /\ channel_mutex # w
  /\ crashes' = crashes + 1
  /\ Goto(w, "dead")
  /\ hand' = [hand EXCEPT ![w] = None]
  /\ UNCHANGED <<clock, channel_mutex, sentinel, record, queues>>

(* The master starts another process on the slot; it begins by             *)
(* clean_worker_data: empty the queue of the slot ...                      *)
Respawn(w) ==
  /\ pc[w] = "dead"
  /\ ngx_time' = [ngx_time EXCEPT ![w] = now]
  /\ Goto(w, "clean")
  /\ UNCHANGED <<now, hand, channel_mutex, sentinel, record, queues, crashes>>

CleanQueue(w) ==
  /\ pc[w] = "clean"
  /\ messages_queue[w] # <<>>
  /\ DropReference(w)
  /\ UNCHANGED <<clock, pc, hand, channel_mutex, sentinel, crashes>>

CleanQueueDone(w) ==
  /\ pc[w] = "clean"
  /\ messages_queue[w] = <<>>
  /\ Goto(w, "unsubscribe")
  /\ UNCHANGED <<clock, hand, channel_mutex, sentinel, record, queues, crashes>>

(* ... and remove the sentinel of the dead process (unsubscribe_worker).   *)
UnsubscribeWorker(w) ==
  /\ pc[w] = "unsubscribe"
  /\ channel_mutex = None
  /\ workers_with_subscribers' = workers_with_subscribers \ {w}
  /\ Goto(w, "idle")
  /\ UNCHANGED <<clock, hand, channel_mutex, targets, record, queues, crashes>>

(* Time passes, but no handler is left running for longer than HandlerTime *)
Tick ==
  /\ now < MaxTime
  /\ \A w \in Workers : pc[w] \notin {"idle", "dead"} => now < ngx_time[w] + HandlerTime
  /\ now' = now + 1
  /\ UNCHANGED <<ngx_time, pc, hand, channel_mutex, sentinel, record, queues, crashes>>

----------------------------------------------------------------------------
Init ==
  /\ now = 0
  /\ ngx_time = [w \in Workers |-> 0]
  /\ pc = [w \in Workers |-> "idle"]
  /\ hand = [w \in Workers |-> None]
  /\ channel_mutex = None
  /\ targets = [w \in Workers |-> {}]
  /\ workers_with_subscribers = {}
  /\ state = [m \in Messages |-> "unused"]
  /\ message_queue = <<>>
  /\ messages_trash = <<>>
  /\ deleted = [m \in Messages |-> FALSE]
  /\ expires = [m \in Messages |-> 0]
  /\ workers_ref_count = [m \in Messages |-> 0]
  /\ messages_queue = [w \in Workers |-> <<>>]
  /\ crashes = 0

Publisher(w) ==
  \/ \E m \in Messages, store \in BOOLEAN : AddMessage(w, m, store)
  \/ RemoveOldest(w)
  \/ RemoveDone(w)
  \/ BroadcastLock(w)
  \/ \E v \in Workers : SendWorkerMessage(w, v)
  \/ BroadcastUnlock(w)
  \/ DiscardUnstored(w)

Housekeeping(w) ==
  \/ \E what \in {"expired", "all"} : Cleanup(w, what)
  \/ FreeHead(w)
  \/ FreeDone(w)

Lifecycle(w) ==
  \/ Crash(w)
  \/ Respawn(w)
  \/ CleanQueue(w)
  \/ CleanQueueDone(w)
  \/ UnsubscribeWorker(w)

Next ==
  \/ \E w \in Workers :
       Publisher(w) \/ Respond(w) \/ Release(w) \/ Subscribe(w)
                    \/ Housekeeping(w) \/ Lifecycle(w)
  \/ Tick

Spec == Init /\ [][Next]_vars

----------------------------------------------------------------------------
Steps == PublisherSteps \cup CleanupSteps
           \cup {"idle", "respond", "dead", "clean", "unsubscribe"}

(* The messages that w's slot has queued.                                  *)
Holders(m) == {w \in Workers : m \in ToSet(messages_queue[w])}

(* The types of all the variables: records and queues of the module's      *)
(* shared memory, and what each worker's handler keeps in local variables. *)
TypeOK ==
  /\ now \in Nat
  /\ ngx_time \in [Workers -> Nat]
  /\ pc \in [Workers -> Steps]
  /\ hand \in [Workers -> Messages \cup {None}]
  /\ channel_mutex \in Workers \cup {None}
  /\ targets \in [Workers -> SUBSET Workers]
  /\ workers_with_subscribers \in SUBSET Workers
  /\ state \in [Messages -> {"unused", "live", "freed"}]
  /\ message_queue \in Seq(Messages)
  /\ messages_trash \in Seq(Messages)
  /\ deleted \in [Messages -> BOOLEAN]
  /\ expires \in [Messages -> Nat]
  /\ workers_ref_count \in [Messages -> Int]
  /\ messages_queue \in [Workers -> Seq(Messages)]
  /\ crashes \in Nat

(* No worker is ever left with a pointer to freed memory: neither the      *)
(* handler that is publishing (whose pointer nobody counts), nor the one   *)
(* answering subscribers, nor any worker_msg still queued for a worker.    *)
NoDanglingPointer ==
  /\ \A w \in Workers : hand[w] # None => state[hand[w]] = "live"
  /\ \A w \in Workers : \A m \in ToSet(messages_queue[w]) : state[m] = "live"

(* workers_ref_count is exactly the number of workers whose queue holds    *)
(* the message, across publishers, deliveries, deaths and restarts.        *)
RefCountIsExact ==
  \A m \in Messages :
    state[m] = "live" => workers_ref_count[m] = Cardinality(Holders(m))

(* A message is linked in at most one list, once (a second link would be   *)
(* a double free), and what is linked is live.                             *)
LinkedOnce ==
  /\ IsInjective(message_queue) /\ IsInjective(messages_trash)
  /\ ToSet(message_queue) \cap ToSet(messages_trash) = {}
  /\ \A m \in Messages : Linked(m) => state[m] = "live"

(* While no worker dies, a message that no list holds is in the hands of   *)
(* the worker publishing it: shared memory does not leak.                  *)
NoLeak ==
  crashes = 0 =>
    \A m \in Messages :
      state[m] = "live" /\ ~Linked(m) =>
        \E w \in Workers : hand[w] = m /\ pc[w] \in PublisherSteps

----------------------------------------------------------------------------
(* Who points to a record: the handlers that have it in hand and the       *)
(* workers that have it queued. Seen this way the module implements plain  *)
(* reference tracking: nobody obtains a pointer but from a worker that has *)
(* one, and memory is only returned when no pointer is left.               *)
Pointers == [m \in Messages |-> {w \in Workers : hand[w] = m} \cup Holders(m)]

Lifetime == INSTANCE RecordLifetime WITH
              Records <- Messages, Users <- Workers,
              status <- state, users <- Pointers

(* Every step of the workers is a step of RecordLifetime or changes        *)
(* nothing that it sees.                                                   *)
ImplementsLifetime == Lifetime!Spec
============================================================================

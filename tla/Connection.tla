----------------------------- MODULE Connection -----------------------------
(***************************************************************************)
(* The connections of the subscribers of one worker: the context of each   *)
(* request, its timers, its place in the lists of the worker, and what has *)
(* been written to it and not yet been taken by the client.                *)
(*                                                                         *)
(* A worker runs one handler at a time. A handler that goes through a list *)
(* of subscriptions (a message for the subscribers of a channel, a channel *)
(* that is deleted, the end of the worker) ends requests on the way, and   *)
(* so changes the list. The memory of a request is that of its             *)
(* subscriptions: when it is gone, nothing may point to them.              *)
(*                                                                         *)
(* Timers count down in ticks; all that have expired are served before the *)
(* next tick. What other workers do to the messages happens at any time.   *)
(***************************************************************************)
EXTENDS Integers, Sequences, SequencesExt

CONSTANTS
  Requests, Channels, Messages,
  Mode,            \* Mode[r]: "stream", "long poll" or "poll"
  Wanted,          \* Wanted[r]: the requested channels, in their order
  ConnectionTtl,   \* push_stream_subscriber_connection_ttl, of long polls, too
  PingInterval,    \* push_stream_ping_message_interval
  SendTimeout,     \* send_timeout of nginx
  ObjectsTtl,      \* the time to live of what is in the trash
  Discards,        \* messages are discarded and their memory is given back
  MayFail,         \* writing to a client, or allocating for it, may fail
  MemoryFull,      \* there may be no shared memory for a subscription
  Off, Text, End   \* "timer not set", "not a message", "end of the list"

ASSUME ConstantsAssumption ==
  /\ Mode \in [Requests -> {"stream", "long poll", "poll"}]
  /\ Wanted \in [Requests -> Seq(Channels)]
  /\ {PingInterval, SendTimeout} \subseteq Nat \ {0}
  /\ {ConnectionTtl, ObjectsTtl} \subseteq Nat
  /\ {Discards, MayFail, MemoryFull} \subseteq BOOLEAN
  /\ Text \notin Messages
  /\ Off \notin Int

VARIABLES
  request,            \* request[r]: what the worker keeps of it
  subscribers_queue,  \* ipc[slot].subscribers_queue
  subscribers,        \* ipc[slot].subscribers
  sentinel,           \* sentinel[c]: the subscriptions of the worker in channel c
  deleted,            \* the channels that wait in channels_to_delete
  messages_queue,     \* ipc[slot].messages_queue
  stored,             \* stored[c]: the messages in the queue of the channel
  trash,              \* trash[m]: how long the message still lives; Off if it is not
                      \* in the trash
  freed,              \* the messages whose memory was given back
  walk,               \* the list that the running handler goes through
  sent                \* history: sent[r]: the messages written to r

lists    == <<subscribers_queue, subscribers, sentinel>>
messages == <<messages_queue, stored, trash, freed>>
vars     == <<request, lists, deleted, messages, walk, sent>>

----------------------------------------------------------------------------
(* The state of a request: its phase, the fields of its context, and the   *)
(* output that waits for the client. After the module has finalized it,    *)
(* nginx keeps it ("ended") until the output is taken.                     *)
New == [phase |-> "new", subscriber |-> FALSE, ping |-> Off, disconnect |-> Off,
        send |-> Off, pending |-> {}, error |-> FALSE]

Subscription(r, i) == <<r, i>>
Subscriptions(r) == {Subscription(r, i) : i \in DOMAIN Wanted[r]}
OwnSubscriptions(r) == Subscriptions(r) \cap UNION {ToSet(sentinel[c]) : c \in Channels}

NoWalk == [list |-> "none"]
Idle == walk = NoWalk

(* ngx_http_push_stream_output_filter: all is taken, or something waits    *)
(* and the timer for sending starts again, or the connection breaks.       *)
Written(q, bufs) ==
  IF q.error THEN {q}
  ELSE {[q EXCEPT !.pending = {}, !.send = Off],
        [q EXCEPT !.pending = @ \cup bufs, !.send = SendTimeout]}
       \cup (IF MayFail THEN {[q EXCEPT !.error = TRUE]} ELSE {})

(* Mutant: the timer of pings is left.                                     *)
CleanedButPing(q) == [q EXCEPT !.disconnect = Off, !.subscriber = FALSE]

(* What cleanup_request_context leaves of the context.                     *)
Cleaned(q) == [q EXCEPT !.disconnect = Off, !.ping = Off, !.subscriber = FALSE]

(* The memory of the request is freed.                                     *)
Gone(q) == [Cleaned(q) EXCEPT !.phase = "gone", !.send = Off, !.pending = {}]

(* The module has finalized the request: nginx frees it, or waits for the  *)
(* client to take the output.                                              *)
Finalized(q) ==
  {IF w.error \/ w.pending = {} THEN Gone(w) ELSE [w EXCEPT !.phase = "ended"] :
     w \in Written(Cleaned(q), {Text})}

(* The list s after ngx_queue_remove of those in S.                        *)
Without(s, S) == FlattenSeq([k \in DOMAIN s |-> IF s[k] \in S THEN <<>> ELSE <<s[k]>>])

(* Mutant: the counter may go below zero.                                  *)
ForgetUnsaturated(r) ==
  /\ sentinel' = [c \in Channels |-> Without(sentinel[c], Subscriptions(r))]
  /\ subscribers_queue' = Without(subscribers_queue, {r})
  /\ subscribers' = subscribers - 1

(* Mutant: the subscriber stays in the list of the worker.                 *)
ForgetSubscriptions(r) ==
  /\ sentinel' = [c \in Channels |-> Without(sentinel[c], Subscriptions(r))]
  /\ subscribers' = IF subscribers > 0 THEN subscribers - 1 ELSE 0
  /\ UNCHANGED subscribers_queue

(* Mutant: the counter is not touched.                                     *)
ForgetUncounted(r) ==
  /\ sentinel' = [c \in Channels |-> Without(sentinel[c], Subscriptions(r))]
  /\ subscribers_queue' = Without(subscribers_queue, {r})
  /\ UNCHANGED subscribers

(* ngx_http_push_stream_worker_subscriber_cleanup.                         *)
Forget(r) ==
  /\ sentinel' = [c \in Channels |-> Without(sentinel[c], Subscriptions(r))]
  /\ subscribers_queue' = Without(subscribers_queue, {r})
  /\ subscribers' = IF subscribers > 0 THEN subscribers - 1 ELSE 0

(* ngx_http_push_stream_cleanup_request_context, which runs when the       *)
(* module finalizes a request and again when its memory is freed.          *)
Cleanup(r) == IF request[r].subscriber THEN Forget(r) ELSE UNCHANGED lists

Become(r, q) == request' = [request EXCEPT ![r] = q]

(* ngx_http_push_stream_send_response_finalize; for a long poll that has   *)
(* timed out, its own variant.                                             *)
Finalize(r, q) ==
  /\ Cleanup(r)
  /\ \E ended \in Finalized(q) : Become(r, ended)

(* nginx frees the request at once.                                        *)
Terminate(r) == Cleanup(r) /\ Become(r, Gone(request[r]))

Write(r, m) == sent' = [sent EXCEPT ![r] = Append(@, m)]

----------------------------------------------------------------------------
Init ==
  /\ request = [r \in Requests |-> New]
  /\ subscribers_queue = <<>> /\ subscribers = 0
  /\ sentinel = [c \in Channels |-> <<>>]
  /\ deleted = {}
  /\ messages_queue = <<>>
  /\ stored = [c \in Channels |-> <<>>]
  /\ trash = [m \in Messages |-> Off]
  /\ freed = {}
  /\ walk = NoWalk
  /\ sent = [r \in Requests |-> <<>>]

(* Mutant: a long poll has no timer.                                       *)
TtlOfStreams(r) == IF Mode[r] = "stream" THEN ConnectionTtl ELSE Off

Ttl(r) == ConnectionTtl

(* ngx_http_push_stream_registry_subscriber and the assignments.           *)
Registered(r, q) ==
  [q EXCEPT !.phase = "kept", !.subscriber = TRUE, !.disconnect = Ttl(r),
            !.ping = IF Mode[r] = "long poll" THEN Off ELSE PingInterval]

Register(r, q, subscribed) ==
  /\ subscribers_queue' = Append(subscribers_queue, r)
  /\ subscribers' = subscribers + 1
  /\ sentinel' = [c \in Channels |-> sentinel[c] \o
       SetToSeq({Subscription(r, i) : i \in {j \in subscribed : Wanted[r][j] = c}})]
  /\ Become(r, Registered(r, q))

OldMessages(r) == FlattenSeq([i \in DOMAIN Wanted[r] |-> stored[Wanted[r][i]]])

Openable(r) ==
  /\ Idle
  /\ request[r].phase = "new"
  /\ \A i \in DOMAIN Wanted[r] : Wanted[r][i] \notin deleted

(* The request is not valid.                                               *)
Refuse(r) ==
  /\ Idle
  /\ request[r].phase = "new"
  /\ Become(r, Gone(New))
  /\ UNCHANGED <<lists, deleted, messages, walk, sent>>

(* A poll is answered with what is stored, if anything is new to it; a     *)
(* long poll only then.                                                    *)
Poll(r) ==
  /\ Openable(r)
  /\ Mode[r] # "stream"
  /\ \E old \in {<<>>, OldMessages(r)} :
       /\ Mode[r] = "long poll" => old # <<>>
       /\ \E q \in Written(New, ToSet(old)) : Finalize(r, q)
       /\ sent' = [sent EXCEPT ![r] = @ \o old]
  /\ UNCHANGED <<deleted, messages, walk>>

(* Without stored messages for it, a long poll is kept. That a             *)
(* subscription could not be allocated is not looked at.                   *)
LongPoll(r) ==
  /\ Openable(r)
  /\ Mode[r] = "long poll"
  /\ \E subscribed \in IF MemoryFull THEN SUBSET DOMAIN Wanted[r] ELSE {DOMAIN Wanted[r]} :
       Register(r, New, subscribed)
  /\ UNCHANGED <<deleted, messages, walk, sent>>

(* A stream is kept with the messages that are stored.                     *)
OpenStream(r) ==
  /\ Openable(r)
  /\ Mode[r] = "stream"
  /\ \E old \in {<<>>, OldMessages(r)} :
       /\ \E q \in Written(New, {Text} \cup ToSet(old)) : Register(r, q, DOMAIN Wanted[r])
       /\ sent' = [sent EXCEPT ![r] = @ \o old]
  /\ UNCHANGED <<deleted, messages, walk>>

(* The text at the start cannot be written: the subscriber is in the       *)
(* context and will be cleaned up, but was not registered.                 *)
StreamFails(r) ==
  /\ MayFail
  /\ Openable(r)
  /\ Mode[r] = "stream"
  /\ Forget(r)
  /\ Become(r, Gone(New))
  /\ UNCHANGED <<deleted, messages, walk, sent>>

(* One of the channels cannot be entered: the subscriber was registered    *)
(* and counted, and is cleaned up with the request. Stored messages of the *)
(* channels up to that one were written.                                   *)
AssignmentFails(r) ==
  /\ MayFail
  /\ Openable(r)
  /\ Mode[r] = "stream"
  /\ \E n \in 0..Len(OldMessages(r)) :
       sent' = [sent EXCEPT ![r] = @ \o SubSeq(OldMessages(r), 1, n)]
  /\ Become(r, Gone(New))
  /\ UNCHANGED <<lists, deleted, messages, walk>>

----------------------------------------------------------------------------
(* The events of a connection.                                             *)
PingTimer(r) ==
  /\ Idle
  /\ request[r].ping = 0
  /\ \E q \in Written(request[r], {Text}) :
       IF q.error THEN Finalize(r, q)
       ELSE Become(r, [q EXCEPT !.ping = PingInterval]) /\ UNCHANGED lists
  /\ UNCHANGED <<deleted, messages, walk, sent>>

DisconnectTimer(r) ==
  /\ Idle
  /\ request[r].disconnect = 0
  /\ Finalize(r, request[r])
  /\ UNCHANGED <<deleted, messages, walk, sent>>

(* The client has taken nothing for too long.                              *)
SendTimer(r) ==
  /\ Idle
  /\ request[r].send = 0
  /\ Terminate(r)
  /\ UNCHANGED <<deleted, messages, walk, sent>>

(* The client takes a part of the output, or all of it: the handler of the *)
(* write event, of the module or, after the end, of nginx.                 *)
FlushPendingOutput(r) ==
  /\ Idle
  /\ request[r].pending # {}
  /\ \E rest \in (SUBSET request[r].pending) \ {request[r].pending} :
       Become(r, IF rest # {} THEN [request[r] EXCEPT !.pending = rest, !.send = SendTimeout]
                 ELSE IF request[r].phase = "ended" THEN Gone(request[r])
                 ELSE [request[r] EXCEPT !.pending = {}, !.send = Off])
  /\ UNCHANGED <<lists, deleted, messages, walk, sent>>

(* The client goes away, as the read event shows, or sends a close frame.  *)
ClientCloses(r) ==
  /\ Idle
  /\ request[r].phase \in {"kept", "ended"}
  /\ Terminate(r)
  /\ UNCHANGED <<deleted, messages, walk, sent>>

----------------------------------------------------------------------------
(* process_worker_message_data and respond_to_subscribers.                 *)
After(s, c) ==
  LET at == CHOOSE k \in DOMAIN sentinel[c] : sentinel[c][k] = s
  IN  IF at < Len(sentinel[c]) THEN sentinel[c][at + 1] ELSE End

FirstOf(c) == IF sentinel[c] = <<>> THEN End ELSE Head(sentinel[c])

ProcessMessage ==
  /\ Idle
  /\ messages_queue # <<>>
  /\ LET next == Head(messages_queue)
     IN  walk' = [list |-> "respond", channel |-> next.channel, message |-> next.message,
                  at |-> FirstOf(next.channel)]
  /\ UNCHANGED <<request, lists, deleted, messages, sent>>

(* Mutant: the next one is looked for when this one has been served.       *)
NextIsHere(s, c) == s

(* q = ngx_queue_next(q), before the request may be finalized.             *)
NextOf(s, c) == After(s, c)

(* A subscription that has left the list may be in freed memory: what the  *)
(* loop does from there is undefined, and the worker is not followed on.   *)
Respond ==
  /\ walk.list = "respond"
  /\ walk.at # End
  /\ walk.at \in ToSet(sentinel[walk.channel])
  /\ LET r == walk.at[1]
         q == request[r]
     IN  /\ \E written \in Written(q, {walk.message}) :
              IF Mode[r] = "long poll" \/ written.error
              THEN Finalize(r, written)
              ELSE /\ Become(r, [written EXCEPT !.ping = IF @ = Off THEN Off ELSE PingInterval])
                   /\ UNCHANGED lists
         /\ Write(r, walk.message)
         /\ walk' = [walk EXCEPT !.at = NextOf(walk.at, walk.channel)]
  /\ UNCHANGED <<deleted, messages>>

(* free_worker_message_memory: one more grace period for a message that    *)
(* was thrown away meanwhile.                                              *)
Release ==
  /\ walk.list = "respond"
  /\ walk.at = End
  /\ messages_queue' = Tail(messages_queue)
  /\ trash' = [trash EXCEPT ![walk.message] = IF @ = Off THEN Off ELSE ObjectsTtl]
  /\ walk' = NoWalk
  /\ UNCHANGED <<request, lists, deleted, stored, freed, sent>>

----------------------------------------------------------------------------
(* delete_channels_data, for a channel that waits to be deleted.           *)
DeleteChannel(c) ==
  /\ Idle
  /\ c \in deleted
  /\ sentinel[c] # <<>>
  /\ walk' = [list |-> "delete", channel |-> c]
  /\ UNCHANGED <<request, lists, deleted, messages, sent>>

(* Mutant: a long poll goes on with its other channels.                    *)
LeavesLast(r, rest) == rest = {}

Leaves(r, rest) == Mode[r] = "long poll" \/ rest = {}

Unsubscribe ==
  /\ walk.list = "delete"
  /\ sentinel[walk.channel] # <<>>
  /\ LET s == Head(sentinel[walk.channel])
         r == s[1]
         remaining == [sentinel EXCEPT ![walk.channel] = Tail(@)]
     IN  \E q \in Written(request[r], {Text}) :
           IF Leaves(r, OwnSubscriptions(r) \ {s})
           THEN Finalize(r, q)
           ELSE /\ sentinel' = remaining
                /\ Become(r, q)
                /\ UNCHANGED <<subscribers_queue, subscribers>>
  /\ UNCHANGED <<deleted, messages, walk, sent>>

(* cleanup_shutting_down_worker: all requests, and the data of the worker. *)
ShutDown ==
  /\ Idle
  /\ subscribers_queue # <<>>
  /\ walk' = [list |-> "shutdown"]
  /\ UNCHANGED <<request, lists, deleted, messages, sent>>

Evict ==
  /\ walk.list = "shutdown"
  /\ subscribers_queue # <<>>
  /\ LET r == Head(subscribers_queue) IN Finalize(r, request[r])
  /\ UNCHANGED <<deleted, messages, walk, sent>>

WalkEnds ==
  /\ \/ walk.list = "delete" /\ sentinel[walk.channel] = <<>>
     \/ walk.list = "shutdown" /\ subscribers_queue = <<>>
  /\ walk' = NoWalk
  /\ IF walk.list = "shutdown"
     THEN /\ subscribers' = 0
          /\ messages_queue' = <<>>
          /\ trash' = [m \in Messages |->
               IF trash[m] # Off /\ \E k \in DOMAIN messages_queue : messages_queue[k].message = m
               THEN ObjectsTtl ELSE trash[m]]
     ELSE UNCHANGED <<subscribers, messages_queue, trash>>
  /\ UNCHANGED <<request, subscribers_queue, sentinel, deleted, stored, freed, sent>>

----------------------------------------------------------------------------
(* The other workers: they publish messages, stored or not, discard stored *)
(* messages, free what is in the trash, and delete channels.               *)
Unused == {m \in Messages : /\ trash[m] = Off /\ m \notin freed
                            /\ \A c \in Channels : m \notin ToSet(stored[c])
                            /\ \A k \in DOMAIN messages_queue : messages_queue[k].message # m}

Publish(m, c) ==
  /\ m \in Unused
  /\ c \notin deleted
  /\ messages_queue' = Append(messages_queue, [message |-> m, channel |-> c])
  /\ \/ stored' = [stored EXCEPT ![c] = Append(@, m)] /\ UNCHANGED trash
     \/ Discards /\ trash' = [trash EXCEPT ![m] = ObjectsTtl] /\ UNCHANGED stored
  /\ UNCHANGED <<request, lists, deleted, freed, walk, sent>>

Discard(c) ==
  /\ Discards
  /\ stored[c] # <<>>
  /\ trash' = [trash EXCEPT ![Head(stored[c])] = ObjectsTtl]
  /\ stored' = [stored EXCEPT ![c] = Tail(@)]
  /\ UNCHANGED <<request, lists, deleted, messages_queue, freed, walk, sent>>

Free(m) ==
  /\ trash[m] = 0
  /\ \A k \in DOMAIN messages_queue : messages_queue[k].message # m
  /\ trash' = [trash EXCEPT ![m] = Off]
  /\ freed' = freed \cup {m}
  /\ UNCHANGED <<request, lists, deleted, messages_queue, stored, walk, sent>>

MarkDeleted(c) ==
  /\ c \notin deleted
  /\ deleted' = deleted \cup {c}
  /\ UNCHANGED <<request, lists, messages, walk, sent>>

(* A tick of the clock: all that has expired was served.                   *)
Timers(r) == {request[r].ping, request[r].disconnect, request[r].send}

Less(t) == IF t = Off THEN Off ELSE t - 1

Tick ==
  /\ Idle
  /\ \A r \in Requests : 0 \notin Timers(r)
  /\ request' = [r \in Requests |->
       [request[r] EXCEPT !.ping = Less(@), !.disconnect = Less(@), !.send = Less(@)]]
  /\ trash' = [m \in Messages |-> IF trash[m] = 0 THEN 0 ELSE Less(trash[m])]
  /\ UNCHANGED <<lists, deleted, messages_queue, stored, freed, walk, sent>>

----------------------------------------------------------------------------
Arrival(r) ==
  \/ Refuse(r) \/ Poll(r) \/ LongPoll(r)
  \/ OpenStream(r) \/ StreamFails(r) \/ AssignmentFails(r)

Timer(r) == PingTimer(r) \/ DisconnectTimer(r) \/ SendTimer(r)

Client(r) == FlushPendingOutput(r) \/ ClientCloses(r)

Loop == Respond \/ Release \/ Unsubscribe \/ Evict \/ WalkEnds

OtherWorkers ==
  \/ \E c \in Channels : Discard(c) \/ MarkDeleted(c) \/ \E m \in Messages : Publish(m, c)
  \/ \E m \in Messages : Free(m)

Next ==
  \/ \E r \in Requests : Arrival(r) \/ Timer(r) \/ Client(r)
  \/ ProcessMessage \/ Loop
  \/ \E c \in Channels : DeleteChannel(c)
  \/ ShutDown
  \/ OtherWorkers
  \/ Tick

Spec == Init /\ [][Next]_vars

(* Time passes, expired timers are served, and a handler that goes through *)
(* a list goes on. Clients need not read, write or close.                  *)
Fairness ==
  /\ WF_vars(Tick)
  /\ WF_vars(Loop)
  /\ \A r \in Requests : WF_vars(Timer(r))

FairSpec == Spec /\ Fairness

----------------------------------------------------------------------------
Ticks(n) == 0..n \cup {Off}

Contexts ==
  [phase : {"new", "kept", "ended", "gone"}, subscriber : BOOLEAN, error : BOOLEAN,
   ping : Ticks(PingInterval), disconnect : Ticks(ConnectionTtl),
   send : Ticks(SendTimeout), pending : SUBSET (Messages \cup {Text})]

AllSubscriptions == UNION {Subscriptions(r) : r \in Requests}

Walks ==
  {NoWalk} \cup [list : {"shutdown"}] \cup [list : {"delete"}, channel : Channels]
  \cup [list : {"respond"}, channel : Channels, message : Messages,
        at : AllSubscriptions \cup {End}]

(* The types of all the variables.                                         *)
TypeOK ==
  /\ request \in [Requests -> Contexts]
  /\ subscribers_queue \in Seq(Requests)
  /\ subscribers \in Nat
  /\ sentinel \in [Channels -> Seq(AllSubscriptions)]
  /\ deleted \subseteq Channels
  /\ messages_queue \in Seq([message : Messages, channel : Channels])
  /\ stored \in [Channels -> Seq(Messages)]
  /\ trash \in [Messages -> Ticks(ObjectsTtl)]
  /\ freed \subseteq Messages
  /\ walk \in Walks
  /\ sent \in [Requests -> Seq(Messages)]

(* No timer of the module outlives the part of the request that it serves: *)
(* after the end of a subscriber, while the client still takes its output, *)
(* and when its memory is gone, nothing wakes it up. Output that waits is  *)
(* always under the watch of the timer for sending.                        *)
TimersAreLive ==
  \A r \in Requests :
    LET q == request[r]
    IN  /\ q.phase # "kept" => q.ping = Off /\ q.disconnect = Off /\ ~q.subscriber
        /\ q.pending # {} => q.send # Off

(* However many of the subscribers in it are finalized on the way, each of *)
(* them with all its subscriptions, the walk of respond_to_subscribers     *)
(* stands on a subscription of the list (or at its end). The code ensures  *)
(* it for requests that name each channel once.                            *)
WalkIsLive ==
  walk.list = "respond" /\ walk.at # End => walk.at \in ToSet(sentinel[walk.channel])

(* The channels of a request are not compared with one another             *)
(* (parse_channels_ids_from_path keeps what it reads).                     *)
NamesTwice(r, c) == \E i, j \in DOMAIN Wanted[r] : i # j /\ Wanted[r][i] = c /\ Wanted[r][j] = c

(* Of any requests: when the walk has left the list, it stands on a        *)
(* subscription of a request that names the channel of the walk twice.     *)
OnlyDoublesAreLost == WalkIsLive \/ NamesTwice(walk.at[1], walk.channel)

(* Whatever ends a request (a timer, a message, a deletion, a failure, the *)
(* client, the end of the worker), nothing in the lists of the worker      *)
(* points to it afterwards, and a request that is kept is listed once.     *)
NoGhosts ==
  /\ IsInjective(subscribers_queue)
  /\ \A r \in ToSet(subscribers_queue) : request[r].phase = "kept"
  /\ \A c \in Channels : /\ IsInjective(sentinel[c])
                         /\ \A s \in ToSet(sentinel[c]) : s[1] \in ToSet(subscribers_queue)

(* The counter of subscribers of the worker, which is decremented once for *)
(* each of the two ways in which a request may be cleaned up, never shows  *)
(* more than there are, and exactly these when no stream fails at its      *)
(* start (a subscriber that was not registered is then counted off).       *)
NeverOvercounted ==
  /\ subscribers <= Len(subscribers_queue)
  /\ MayFail \/ subscribers = Len(subscribers_queue)

(* What is listed and counted is what is there. *)
ListsExact == NoGhosts /\ NeverOvercounted

(* A long poll that is kept has not been answered: the first message, or   *)
(* the deletion of one of its channels, is its only answer.                *)
KeptIsUnanswered ==
  \A r \in Requests :
    request[r].phase = "kept" /\ Mode[r] = "long poll"
      => sent[r] = <<>> /\ request[r].pending = {}

(* A connection with a time to live ends, with all its memory, even if the *)
(* client takes nothing of what it is sent, and whatever else happens to   *)
(* it meanwhile.                                                           *)
ConnectionEnds ==
  \A r \in Requests : request[r].phase = "kept" ~> request[r].phase = "gone"

(* What waits for a slow client is in the memory of a live message. Not    *)
(* what the code ensures: a message is freed ObjectsTtl after it was       *)
(* thrown away, the client may take longer (each new output, and each part *)
(* that is taken, starts the timer for sending again).                     *)
PendingIsLive ==
  \A r \in Requests : request[r].pending \cap freed = {}

(* A long poll that is kept is subscribed to all its channels. Not what    *)
(* the code ensures when the shared memory is full.                        *)
LongPollsAreSubscribed ==
  \A r \in Requests :
    request[r].phase = "kept" /\ Mode[r] = "long poll" /\ Idle
      => OwnSubscriptions(r) = Subscriptions(r)
=============================================================================

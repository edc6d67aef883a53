------------------------------ MODULE Delivery ------------------------------
(***************************************************************************)
(* Which messages of a channel a client receives, over all its requests.   *)
(*                                                                         *)
(* A publisher numbers a message, notes its stamp as the channel's last    *)
(* one, time before tag, and stores it, all under the mutex of the         *)
(* channel; it removes the oldest beyond the limit, and takes the mutex    *)
(* again to put it in the queues of the workers with subscribers. A poll   *)
(* reads the last stamp without the mutex. A request of a                  *)
(* subscriber first looks at the stored messages, those after the stamp    *)
(* (time and tag) or the event id that the client received last, or the    *)
(* last few (backtrack), and then, unless it was a poll, enters the        *)
(* channel, where it gets what its worker takes from its queue. Between    *)
(* any two of these steps other workers go on.                             *)
(*                                                                         *)
(* The location stores messages and memory suffices. Wake-ups are          *)
(* WorkerQueue's subject: here a worker looks at its queue when it likes.  *)
(* Messages are numbered in the order of creation.                         *)
(***************************************************************************)
EXTENDS Integers, Sequences, FiniteSets, SequencesExt

CONSTANTS
  Workers,      \* the process slots
  Clients,
  Scenarios,    \* who the clients may be, push_stream_max_messages_stored_per_channel,
                \* and a bound: how many messages are published
  None,         \* "no worker", "no client"
  Skew,         \* how much the cached clock of a worker may be behind
  MaxMessages,  \* bound: the messages of all the scenarios
  MaxTime,      \* bound: the clock stops here
  MaxGot        \* bound: with so many messages other clients do not come back

Messages == 1..MaxMessages

Modes == {"poll", "long poll", "stream", "away"}

Scenario ==
  [mode : [Clients -> Modes], stored : Nat \ {0}, messages : 1..MaxMessages]

ASSUME ConstantsAssumption ==
  /\ None \notin Workers \cup Clients
  /\ Scenarios \subseteq Scenario
  /\ {Skew, MaxMessages, MaxTime, MaxGot} \subseteq Nat

VARIABLES
  scenario,         \* chosen at the start
  now,              \* the clock
  stamp,            \* stamp[m]: msg->time and msg->tag
  last_message,     \* channel->last_message_time and _tag
  message_queue,    \* channel->message_queue
  channel_mutex,    \* the worker that holds channel->mutex, or None
  log,              \* history: the messages in the order of their broadcasts
  messages_queue,   \* messages_queue[w]: ipc[w].messages_queue
  workers_with_subscribers,
  subscriptions,    \* subscriptions[w]: the clients in the sentinel of w
  pc,               \* pc[w]: where the running handler of w is
  hand, targets,    \* its message and the workers that broadcast must visit
  client,           \* the client it serves
  greater,          \* greater_message_time and _tag
  qtd, start,       \* of send_old_messages
  since,            \* since[c]: the stamp in the last answer to a (long) poll
  got               \* got[c]: history: the messages sent to the client

chan    == <<scenario, now, stamp, last_message, message_queue, log>>
live    == <<messages_queue, workers_with_subscribers, subscriptions>>
publish == <<hand, targets>>
replay  == <<client, greater, qtd, start>>
history == <<since, got>>
vars    == <<chan, channel_mutex, live, pc, publish, replay, history>>

----------------------------------------------------------------------------
(* Clients that poll, or make long polls, send back the stamp of the last  *)
(* answer; those that stay connected come back with the id of the last     *)
(* event, or ask for a backtrack.                                          *)
Pollers == {c \in Clients : scenario.mode[c] = "poll"}
LongPollers == {c \in Clients : scenario.mode[c] = "long poll"}
Streamers == {c \in Clients : scenario.mode[c] = "stream"}
MaxStored == scenario.stored

Goto(w, label) == pc' = [pc EXCEPT ![w] = label]

Lesser(x, y) == IF x <= y THEN x ELSE y

Zero == [time |-> 0, tag |-> 0]

(* data->last_message_time and _tag: the tags are counted for the whole    *)
(* zone; that other channels take some of them is left out.                *)
last == IF stamp = <<>> THEN Zero ELSE Last(stamp)

After(s, t) == s.time > t.time \/ (s.time = t.time /\ s.tag > t.tag)

(* Mutant: tags restart with each message.                                 *)
NextTagForgotten(time) == 1

NextTag(time) == IF time = last.time THEN last.tag + 1 ELSE 1

----------------------------------------------------------------------------
(* add_msg_to_channel takes the mutex and creates the message ...          *)
AddMessage(w) ==
  /\ pc[w] = "idle"
  /\ channel_mutex = None
  /\ Len(stamp) < scenario.messages
  /\ channel_mutex' = w
  /\ \E time \in 0..Skew :
       /\ now - time > 0
       /\ stamp' = Append(stamp, [time |-> now - time, tag |-> NextTag(now - time)])
  /\ hand' = [hand EXCEPT ![w] = Len(stamp) + 1]
  /\ Goto(w, "set time")
  /\ UNCHANGED <<scenario, now, last_message, message_queue, log, live, targets, replay, history>>

(* ... notes its time, and then its tag, as the channel's last ...         *)
SetTime(w) ==
  /\ pc[w] = "set time"
  /\ last_message' = [last_message EXCEPT !.time = stamp[hand[w]].time]
  /\ Goto(w, "set tag")
  /\ UNCHANGED <<scenario, now, stamp, message_queue, log, channel_mutex, live, publish, replay,
                 history>>

SetTag(w) ==
  /\ pc[w] = "set tag"
  /\ last_message' = [last_message EXCEPT !.tag = stamp[hand[w]].tag]
  /\ Goto(w, "store")
  /\ UNCHANGED <<scenario, now, stamp, message_queue, log, channel_mutex, live, publish, replay,
                 history>>

(* ... stores it and gives the mutex back.                                 *)
StoreMessage(w) ==
  /\ pc[w] = "store"
  /\ message_queue' = Append(message_queue, hand[w])
  /\ channel_mutex' = None
  /\ Goto(w, "limit")
  /\ UNCHANGED <<scenario, now, stamp, last_message, log, live, publish, replay, history>>

(* ensure_qtd_of_messages                                                  *)
EnsureQtdOfMessages(w) ==
  /\ pc[w] = "limit"
  /\ channel_mutex = None
  /\ message_queue' = SubSeq(message_queue,
                             Len(message_queue) - Lesser(MaxStored, Len(message_queue)) + 1,
                             Len(message_queue))
  /\ Goto(w, "broadcast")
  /\ UNCHANGED <<scenario, now, stamp, last_message, log, channel_mutex, live, publish, replay,
                 history>>

(* Mutant: broadcast goes through the workers without the mutex.           *)
BroadcastUnlocked(w) ==
  /\ pc[w] = "broadcast"
  /\ log' = Append(log, hand[w])
  /\ targets' = [targets EXCEPT ![w] = workers_with_subscribers]
  /\ Goto(w, "enqueue")
  /\ UNCHANGED <<scenario, now, stamp, last_message, message_queue, channel_mutex, live, hand, replay,
                 history>>

(* broadcast; what it does after the unlock is WorkerQueue's subject.      *)
Broadcast(w) ==
  /\ pc[w] = "broadcast"
  /\ channel_mutex = None
  /\ channel_mutex' = w
  /\ log' = Append(log, hand[w])
  /\ targets' = [targets EXCEPT ![w] = workers_with_subscribers]
  /\ Goto(w, "enqueue")
  /\ UNCHANGED <<scenario, now, stamp, last_message, message_queue, live, hand, replay, history>>

SendWorkerMessage(w, v) ==
  /\ pc[w] = "enqueue"
  /\ v \in targets[w]
  /\ targets' = [targets EXCEPT ![w] = @ \ {v}]
  /\ messages_queue' = [messages_queue EXCEPT ![v] = Append(@, hand[w])]
  /\ UNCHANGED <<chan, channel_mutex, workers_with_subscribers, subscriptions, pc, hand,
                 replay, history>>

Unlock(w) ==
  /\ pc[w] = "enqueue"
  /\ targets[w] = {}
  /\ channel_mutex' = None
  /\ hand' = [hand EXCEPT ![w] = 0]
  /\ Goto(w, "idle")
  /\ UNCHANGED <<chan, live, targets, replay, history>>

(* A message of the queue expires (collect_expired_messages_data).         *)
Expire ==
  /\ channel_mutex = None
  /\ message_queue # <<>>
  /\ message_queue' = Tail(message_queue)
  /\ UNCHANGED <<scenario, now, stamp, last_message, log, channel_mutex, live, pc, publish, replay,
                 history>>

----------------------------------------------------------------------------
(* process_worker_message_data, respond_to_subscribers: a long poll ends   *)
(* with the message, under the mutex.                                      *)
ProcessMessage(w) ==
  /\ pc[w] = "idle"
  /\ messages_queue[w] # <<>>
  /\ LET m == Head(messages_queue[w])
         polls == subscriptions[w] \cap LongPollers
     IN
     /\ polls # {} => channel_mutex = None
     /\ got' = [c \in Clients |-> IF c \in subscriptions[w] THEN Append(got[c], m) ELSE got[c]]
     /\ since' = [c \in Clients |-> IF c \in polls THEN stamp[m] ELSE since[c]]
     /\ subscriptions' = [subscriptions EXCEPT ![w] = @ \ polls]
  /\ messages_queue' = [messages_queue EXCEPT ![w] = Tail(@)]
  /\ UNCHANGED <<chan, channel_mutex, workers_with_subscribers, pc, publish, replay>>

----------------------------------------------------------------------------
(* The stored messages that a stamp or an event id leaves to send, in the  *)
(* order of the queue: those after the first message that it reaches.      *)
Reaches(m, s) == stamp[m].time > s.time \/ (stamp[m].time = s.time /\ stamp[m].tag >= s.tag)

From(i) == SubSeq(message_queue, i, Len(message_queue))

(* Mutant: the message with the stamp itself is sent too.                  *)
NotBefore(s) ==
  LET first == SelectInSeq(message_queue, LAMBDA m : Reaches(m, s)) IN
  IF first = 0 THEN <<>> ELSE From(first)

Newer(s) ==
  LET first == SelectInSeq(message_queue, LAMBDA m : Reaches(m, s)) IN
  IF first = 0 THEN <<>>
  ELSE IF stamp[message_queue[first]] = s THEN From(first + 1) ELSE From(first)

NewerThanId(m) ==
  LET found == SelectInSeq(message_queue, LAMBDA n : n = m) IN
  IF found = 0 THEN <<>> ELSE From(found + 1)

(* A request in this worker, of a client that has none elsewhere.          *)
Begin(w, c) ==
  /\ pc[w] = "idle"
  /\ \A v \in Workers : client[v] # c /\ c \notin subscriptions[v]
  /\ c \in Pollers \/ Len(got[c]) < MaxGot
  /\ client' = [client EXCEPT ![w] = c]

End(w, label) ==
  /\ Goto(w, label)
  /\ client' = IF label = "idle" THEN [client EXCEPT ![w] = None] ELSE client

(* subscriber_polling_handler: is there anything to send?                  *)
Poll(w, c) ==
  /\ c \in Pollers \cup LongPollers
  /\ Begin(w, c)
  /\ greater' = [greater EXCEPT ![w] = since[c]]
  /\ Goto(w, "check")
  /\ UNCHANGED <<chan, channel_mutex, live, publish, qtd, start, history>>

(* If not, a long poll enters the channel and a poll is answered 304 with  *)
(* the stamp it came with.                                                 *)
HasOldMessages(w) ==
  /\ pc[w] = "check"
  /\ message_queue # <<>> => channel_mutex = None
  /\ End(w, IF Newer(since[client[w]]) # <<>> THEN "time"
            ELSE IF client[w] \in LongPollers THEN "assign" ELSE "idle")
  /\ greater' = [greater EXCEPT ![w] = IF pc'[w] = "time" THEN @ ELSE Zero]
  /\ UNCHANGED <<chan, channel_mutex, live, publish, qtd, start, history>>

(* The stamp of the answer is that of the last message of the channel, but *)
(* its time and its tag are read without the mutex, each to compare it and *)
(* again to take it. What each test leads to:                              *)
Compare(w) ==
  CASE pc[w] = "time" -> IF last_message.time > greater[w].time THEN "new time" ELSE "same time"
    [] pc[w] = "same time" -> IF last_message.time = greater[w].time THEN "tag" ELSE "send"
    [] pc[w] = "tag" -> IF last_message.tag > greater[w].tag THEN "new tag" ELSE "send"

CompareStamp(w) ==
  /\ pc[w] \in {"time", "same time", "tag"}
  /\ Goto(w, Compare(w))
  /\ UNCHANGED <<chan, channel_mutex, live, publish, replay, history>>

ReadTime(w) ==
  /\ pc[w] = "new time"
  /\ greater' = [greater EXCEPT ![w].time = last_message.time]
  /\ Goto(w, "new tag")
  /\ UNCHANGED <<chan, channel_mutex, live, publish, client, qtd, start, history>>

ReadTag(w) ==
  /\ pc[w] = "new tag"
  /\ greater' = [greater EXCEPT ![w].tag = last_message.tag]
  /\ Goto(w, "send")
  /\ UNCHANGED <<chan, channel_mutex, live, publish, client, qtd, start, history>>

(* Mutant: everything that is stored is sent, whatever the stamp says.     *)
UpToAny(messages, s) == messages

(* The messages up to the stamp s, in the order of their numbers, which is  *)
(* that of the queue.                                                      *)
UpTo(messages, s) ==
  LET upto == {m \in ToSet(messages) : ~After(stamp[m], s)}
      Before(m) == {n \in upto : n < m}
  IN  [k \in 1..Cardinality(upto) |-> CHOOSE m \in upto : Cardinality(Before(m)) = k - 1]

(* send_old_messages, up to that stamp.                                    *)
SendOldMessages(w) ==
  /\ pc[w] = "send"
  /\ channel_mutex = None
  /\ LET c == client[w] IN
     /\ got' = [got EXCEPT ![c] = @ \o UpTo(Newer(since[c]), greater[w])]
     /\ since' = [since EXCEPT ![c] = greater[w]]
  /\ greater' = [greater EXCEPT ![w] = Zero]
  /\ End(w, "idle")
  /\ UNCHANGED <<chan, channel_mutex, live, publish, qtd, start>>

----------------------------------------------------------------------------
(* subscriber_handler for a client that stays: it comes back ...           *)
Resume(w, c) ==
  /\ c \in Streamers
  /\ Begin(w, c)
  /\ got[c] # <<>>
  /\ Goto(w, "resume")
  /\ UNCHANGED <<chan, channel_mutex, live, publish, greater, qtd, start, history>>

SendAfterId(w) ==
  /\ pc[w] = "resume"
  /\ message_queue # <<>> => channel_mutex = None
  /\ got' = [got EXCEPT ![client[w]] = @ \o NewerThanId(Last(@))]
  /\ Goto(w, "assign")
  /\ UNCHANGED <<chan, channel_mutex, live, publish, replay, since>>

(* Mutant: all that there are, when they are more than was asked for, and  *)
(* all that was asked for when they are fewer.                             *)
BacktrackOrMore(backtrack) ==
  IF backtrack > Len(message_queue) THEN backtrack ELSE Len(message_queue)

Backtrack(backtrack) == Lesser(backtrack, Len(message_queue))

(* ... or asks for the last "backtrack" messages. How many there are is    *)
(* read twice without the mutex.                                           *)
AskBacktrack(w, c, backtrack) ==
  /\ c \in Streamers
  /\ Begin(w, c)
  /\ qtd' = [qtd EXCEPT ![w] = Backtrack(backtrack)]
  /\ Goto(w, IF backtrack > 0 /\ message_queue # <<>> THEN "start" ELSE "assign")
  /\ UNCHANGED <<chan, channel_mutex, live, publish, greater, start, history>>

(* A negative number is one that has wrapped around.                       *)
ReadStart(w) ==
  /\ pc[w] = "start"
  /\ start' = [start EXCEPT ![w] = Len(message_queue) - qtd[w]]
  /\ Goto(w, "backtrack")
  /\ UNCHANGED <<chan, channel_mutex, live, publish, client, greater, qtd, history>>

SendBacktrack(w) ==
  /\ pc[w] = "backtrack"
  /\ channel_mutex = None
  /\ LET end == Lesser(start[w] + qtd[w], Len(message_queue))
         messages == IF start[w] < 0 THEN <<>> ELSE SubSeq(message_queue, start[w] + 1, end)
     IN got' = [got EXCEPT ![client[w]] = @ \o messages]
  /\ qtd' = [qtd EXCEPT ![w] = 0]
  /\ start' = [start EXCEPT ![w] = 0]
  /\ Goto(w, "assign")
  /\ UNCHANGED <<chan, channel_mutex, live, publish, client, greater, since>>

----------------------------------------------------------------------------
(* assing_subscription_to_channel                                          *)
Assign(w) ==
  /\ pc[w] = "assign"
  /\ channel_mutex = None
  /\ subscriptions' = [subscriptions EXCEPT ![w] = @ \cup {client[w]}]
  /\ workers_with_subscribers' = workers_with_subscribers \cup {w}
  /\ qtd' = [qtd EXCEPT ![w] = 0]
  /\ End(w, "idle")
  /\ UNCHANGED <<chan, channel_mutex, messages_queue, publish, greater, start, history>>

(* A client that stays goes away, or its time is over.                     *)
Disconnect(w, c) ==
  /\ pc[w] = "idle"
  /\ c \in subscriptions[w]
  /\ channel_mutex = None
  /\ subscriptions' = [subscriptions EXCEPT ![w] = @ \ {c}]
  /\ UNCHANGED <<chan, channel_mutex, messages_queue, workers_with_subscribers, pc, publish,
                 replay, history>>

(* ..._finalize_for_longpolling_by_timeout answers with the clock.         *)
Timeout(w, c) ==
  /\ c \in LongPollers
  /\ pc[w] = "idle"
  /\ c \in subscriptions[w]
  /\ channel_mutex = None
  /\ subscriptions' = [subscriptions EXCEPT ![w] = @ \ {c}]
  /\ \E time \in 0..Skew :
       /\ now - time > 0
       /\ since' = [since EXCEPT ![c] = [time |-> now - time, tag |-> 0]]
  /\ UNCHANGED <<chan, channel_mutex, messages_queue, workers_with_subscribers, pc, publish,
                 replay, got>>

Tick ==
  /\ now < MaxTime
  /\ now' = now + 1
  /\ UNCHANGED <<scenario, stamp, last_message, message_queue, log, channel_mutex, live, pc, publish, replay,
                 history>>

----------------------------------------------------------------------------
(* A client that polls starts with a stamp before all messages.            *)
Init ==
  /\ scenario \in Scenarios
  /\ now = 1
  /\ stamp = <<>>
  /\ last_message = Zero
  /\ message_queue = <<>>
  /\ channel_mutex = None
  /\ log = <<>>
  /\ messages_queue = [w \in Workers |-> <<>>]
  /\ workers_with_subscribers = {}
  /\ subscriptions = [w \in Workers |-> {}]
  /\ pc = [w \in Workers |-> "idle"]
  /\ hand = [w \in Workers |-> 0]
  /\ targets = [w \in Workers |-> {}]
  /\ client = [w \in Workers |-> None]
  /\ greater = [w \in Workers |-> Zero]
  /\ qtd = [w \in Workers |-> 0]
  /\ start = [w \in Workers |-> 0]
  /\ since = [c \in Clients |-> Zero]
  /\ got = [c \in Clients |-> <<>>]

Publisher(w) ==
  \/ AddMessage(w)
  \/ SetTime(w)
  \/ SetTag(w)
  \/ StoreMessage(w)
  \/ EnsureQtdOfMessages(w)
  \/ Broadcast(w)
  \/ \E v \in Workers : SendWorkerMessage(w, v)
  \/ Unlock(w)

Request(w) ==
  \/ \E c \in Clients : Poll(w, c) \/ Resume(w, c) \/ \E b \in 0..MaxStored : AskBacktrack(w, c, b)
  \/ HasOldMessages(w)
  \/ CompareStamp(w)
  \/ ReadTime(w)
  \/ ReadTag(w)
  \/ SendOldMessages(w)
  \/ SendAfterId(w)
  \/ ReadStart(w)
  \/ SendBacktrack(w)
  \/ Assign(w)

Subscription(w) ==
  \/ ProcessMessage(w)
  \/ \E c \in Clients : Disconnect(w, c) \/ Timeout(w, c)

Next ==
  \/ \E w \in Workers : Publisher(w) \/ Request(w) \/ Subscription(w)
  \/ Expire
  \/ Tick

Spec == Init /\ [][Next]_vars

----------------------------------------------------------------------------
Labels == {"idle", "set time", "set tag", "store", "limit", "broadcast", "enqueue",
           "check", "time", "same time", "tag", "new time", "new tag", "send",
           "resume", "start", "backtrack", "assign"}

Stamps == [time : Nat, tag : Nat]

(* The types of all the variables.                                         *)
TypeOK ==
  /\ scenario \in Scenarios
  /\ now \in Nat
  /\ stamp \in Seq(Stamps)
  /\ last_message \in Stamps
  /\ message_queue \in Seq(Messages)
  /\ log \in Seq(Messages)
  /\ channel_mutex \in Workers \cup {None}
  /\ messages_queue \in [Workers -> Seq(Messages)]
  /\ workers_with_subscribers \in SUBSET Workers
  /\ subscriptions \in [Workers -> SUBSET Clients]
  /\ pc \in [Workers -> Labels]
  /\ hand \in [Workers -> Messages \cup {0}]
  /\ targets \in [Workers -> SUBSET Workers]
  /\ client \in [Workers -> Clients \cup {None}]
  /\ greater \in [Workers -> Stamps]
  /\ qtd \in [Workers -> 0..MaxStored]
  /\ start \in [Workers -> Int]
  /\ since \in [Clients -> Stamps]
  /\ got \in [Clients -> Seq(Messages)]

(* A client that comes back with the stamp of its last answer has got all  *)
(* the stored messages up to that stamp ...                                *)
NothingSkipped(c) ==
  \A m \in ToSet(message_queue) : ~After(stamp[m], since[c]) => m \in ToSet(got[c])

PollingSkipsNothing == \A c \in Pollers : NothingSkipped(c)

(* ... and no message twice or out of order.                               *)
PollingInOrder ==
  \A c \in Pollers : \A i, j \in 1..Len(got[c]) : i < j => got[c][i] < got[c][j]

(* Neither holds of a client that polls, even with clocks that agree. The  *)
(* time of a new message may go with the tag of the one before it, from an *)
(* earlier second: such a stamp reaches messages that come later in the    *)
(* second of m.                                                            *)
TornBefore(m) ==
  /\ stamp[m].tag > 1
  /\ \E n \in DOMAIN stamp : stamp[n].time < stamp[m].time /\ stamp[n].tag >= stamp[m].tag

(* Or the time of m may go with the tag of a message of a later second: a  *)
(* stamp that goes back in the second of m.                                *)
TornAfter(m) ==
  \E n \in DOMAIN stamp : stamp[n].time > stamp[m].time /\ stamp[n].tag < stamp[m].tag

(* With clocks that agree that is all that can go wrong: whatever is       *)
(* published, removed or expires while the stamps of the answers are read, *)
(* a client that polls misses no other stored message up to its stamp, and *)
(* gets no other message twice or out of order.                            *)
PollingIsExactUnlessTorn ==
  \A c \in Pollers :
    /\ \A m \in ToSet(message_queue) :
         ~After(stamp[m], since[c]) => m \in ToSet(got[c]) \/ TornBefore(m)
    /\ \A i, j \in 1..Len(got[c]) :
         i < j => got[c][i] < got[c][j] \/ TornAfter(got[c][j])

(* The same of a client that makes long polls.                             *)
LongPollingSkipsNothing == \A c \in LongPollers : NothingSkipped(c)

(* What a worker has still to deliver is in its queue or about to be put   *)
(* there by the publisher that holds the mutex.                            *)
Pending(w) ==
  Len(messages_queue[w]) + Cardinality({p \in Workers : w \in targets[p]})

(* Publishers of any workers give the messages one order, and no           *)
(* subscriber that is in the channel misses one or gets it out of that     *)
(* order, while others enter and leave.                                    *)
Log == INSTANCE ChannelLog WITH
         listening <- workers_with_subscribers, members <- subscriptions,
         position <- [w \in Workers |-> Len(log) - Pending(w)]

ImplementsLog == Log!Spec
=============================================================================

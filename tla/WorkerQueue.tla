---------------------------- MODULE WorkerQueue ----------------------------
(***************************************************************************)
(* How a worker process is told that it has messages to deliver.           *)
(*                                                                         *)
(* broadcast links a message in the queue (in shared memory) of each       *)
(* worker with subscribers, under the mutex of the channel, and remembers  *)
(* in a local array which queues were empty. After the unlock it goes      *)
(* through the workers again and writes a CHECK_MESSAGES command in the    *)
(* socket of those whose queue was empty: the others have been alerted by  *)
(* whoever put the first message. The worker that reads the command        *)
(* delivers until it sees its queue empty, without taking the lock to look.*)
(* Nothing else makes a worker look at its queue.                          *)
(*                                                                         *)
(* A socket takes only so many commands, also those of other kinds         *)
(* (DELETE_CHANNEL, CENSUS_SUBSCRIBERS); writing never blocks, and what    *)
(* does not fit is lost. The sockets survive the death of a worker.        *)
(*                                                                         *)
(* What happens to the message itself is the subject of MessageMemory.     *)
(***************************************************************************)
EXTENDS Integers, FiniteSets, Sequences, SequencesExt

CONSTANTS
  Workers,     \* the process slots
  Channels,    \* the channels, each with its mutex
  Messages,    \* the messages; one can be published again once delivered
  None,        \* "no worker", "no channel", "no message"
  Capacity,    \* the commands that the socket of a worker can hold
  MaxOthers,   \* bound: commands of other kinds waiting in a socket
  MaxCrashes,  \* bound: worker processes that die ...
  CrashAt      \* ... at one of these points of their code

ASSUME ConstantsAssumption ==
  /\ None \notin Workers \cup Channels \cup Messages
  /\ Capacity \in Nat /\ MaxOthers \in Nat /\ MaxCrashes \in Nat

VARIABLES
  messages_queue,  \* messages_queue[w]: ipc[w].messages_queue
  checks, others,  \* checks[w], others[w]: the CHECK_MESSAGES and the other
                   \* commands in the socket of w
  workers_with_subscribers,  \* [c]: the workers with a sentinel in channel c
  channel_mutex,   \* channel_mutex[c]: the worker that holds it, or None
  pc,              \* pc[w]: where the running handler of w is
  caller,          \* caller[w]: what called broadcast, while it runs
  channel, hand,   \* channel[w], hand[w]: the arguments of broadcast
  visited,         \* visited[w]: the workers that its loop has been through
  queue_was_empty, \* queue_was_empty[w]: its local array, as a set of workers
  crashes          \* how many workers have died

socket == <<checks, others>>
locals == <<caller, channel, hand, visited, queue_was_empty>>
vars   == <<messages_queue, socket, workers_with_subscribers, channel_mutex,
            pc, locals, crashes>>

----------------------------------------------------------------------------
Goto(w, label) == pc' = [pc EXCEPT ![w] = label]

(* Mutant: the write overruns the socket.                                  *)
FitsOneMore(w) == checks[w] + others[w] <= Capacity

(* ngx_write_channel to a socket that does not block.                      *)
Fits(w) == checks[w] + others[w] < Capacity

InFlight(m) == \E w \in Workers : hand[w] = m \/ m \in ToSet(messages_queue[w])

----------------------------------------------------------------------------
(* broadcast. It runs in the handler of a POST, or sends an event about a  *)
(* channel while this worker delivers messages or obeys other commands.    *)
(* Nobody initializes the array.                                           *)
Broadcast(w, c, m) ==
  /\ pc[w] \in {"idle", "respond", "obey"}
  /\ ~InFlight(m)
  /\ channel_mutex[c] = None
  /\ channel_mutex' = [channel_mutex EXCEPT ![c] = w]
  /\ caller' = [caller EXCEPT ![w] = pc[w]]
  /\ channel' = [channel EXCEPT ![w] = c]
  /\ hand' = [hand EXCEPT ![w] = m]
  /\ \E garbage \in SUBSET Workers :
        queue_was_empty' = [queue_was_empty EXCEPT ![w] = garbage]
  /\ Goto(w, "enqueue")
  /\ UNCHANGED <<messages_queue, socket, workers_with_subscribers, visited, crashes>>

(* The next worker in the list, for a loop of broadcast.                   *)
Visit(w, v) ==
  /\ v \in workers_with_subscribers[channel[w]] \ visited[w]
  /\ visited' = [visited EXCEPT ![w] = @ \cup {v}]

LoopEnds(w) ==
  /\ workers_with_subscribers[channel[w]] \subseteq visited[w]
  /\ visited' = [visited EXCEPT ![w] = {}]

(* Mutant: the queue is looked at after the insertion.                     *)
WasEmptyAfter(w, v) == Append(messages_queue[v], hand[w]) = <<>>

WasEmpty(w, v) == messages_queue[v] = <<>>

(* send_worker_message, under the mutex of the slab pool; with no memory   *)
(* left it returns without a word about the queue.                         *)
Enqueue(w, v) ==
  /\ pc[w] = "enqueue"
  /\ Visit(w, v)
  /\ \/ /\ messages_queue' = [messages_queue EXCEPT ![v] = Append(@, hand[w])]
        /\ queue_was_empty' = [queue_was_empty EXCEPT
                                 ![w] = IF WasEmpty(w, v) THEN @ \cup {v} ELSE @ \ {v}]
     \/ UNCHANGED <<messages_queue, queue_was_empty>>
  /\ UNCHANGED <<socket, workers_with_subscribers, channel_mutex, pc, caller,
                 channel, hand, crashes>>

Unlock(w) ==
  /\ pc[w] = "enqueue"
  /\ LoopEnds(w)
  /\ channel_mutex' = [channel_mutex EXCEPT ![channel[w]] = None]
  /\ Goto(w, "alert")
  /\ UNCHANGED <<messages_queue, socket, workers_with_subscribers, caller, channel,
                 hand, queue_was_empty, crashes>>

(* The second loop, without the mutex: the list may change on the way.     *)
Alert(w, v) ==
  /\ pc[w] = "alert"
  /\ Visit(w, v)
  /\ checks' = IF v \in queue_was_empty[w] /\ Fits(v)
               THEN [checks EXCEPT ![v] = @ + 1] ELSE checks
  /\ UNCHANGED <<messages_queue, others, workers_with_subscribers, channel_mutex, pc,
                 caller, channel, hand, queue_was_empty, crashes>>

Return(w) ==
  /\ pc[w] = "alert"
  /\ LoopEnds(w)
  /\ Goto(w, caller[w])
  /\ caller' = [caller EXCEPT ![w] = "idle"]
  /\ channel' = [channel EXCEPT ![w] = None]
  /\ hand' = [hand EXCEPT ![w] = None]
  /\ queue_was_empty' = [queue_was_empty EXCEPT ![w] = {}]
  /\ UNCHANGED <<messages_queue, socket, workers_with_subscribers, channel_mutex, crashes>>

----------------------------------------------------------------------------
(* channel_handler: read commands until there are no more.                 *)
Wake(w) ==
  /\ pc[w] = "idle"
  /\ checks[w] + others[w] > 0
  /\ Goto(w, "read")
  /\ UNCHANGED <<messages_queue, socket, workers_with_subscribers, channel_mutex,
                 locals, crashes>>

ReadCheck(w) ==
  /\ pc[w] = "read"
  /\ checks[w] > 0
  /\ checks' = [checks EXCEPT ![w] = @ - 1]
  /\ Goto(w, "process")
  /\ UNCHANGED <<messages_queue, others, workers_with_subscribers, channel_mutex,
                 locals, crashes>>

ReadOther(w) ==
  /\ pc[w] = "read"
  /\ others[w] > 0
  /\ others' = [others EXCEPT ![w] = @ - 1]
  /\ Goto(w, "obey")
  /\ UNCHANGED <<messages_queue, checks, workers_with_subscribers, channel_mutex,
                 locals, crashes>>

Obeyed(w) ==
  /\ pc[w] = "obey"
  /\ Goto(w, "read")
  /\ UNCHANGED <<messages_queue, socket, workers_with_subscribers, channel_mutex,
                 locals, crashes>>

ReadAgain(w) ==
  /\ pc[w] = "read"
  /\ checks[w] + others[w] = 0
  /\ Goto(w, "idle")
  /\ UNCHANGED <<messages_queue, socket, workers_with_subscribers, channel_mutex,
                 locals, crashes>>

(* process_worker_message_data: while the queue is not empty, respond to   *)
(* the subscribers (or, if the message is for the process that died in     *)
(* this slot, look for its sentinel), and only then unlink the message.    *)
Process(w) ==
  /\ pc[w] = "process"
  /\ messages_queue[w] # <<>>
  /\ Goto(w, "respond")
  /\ UNCHANGED <<messages_queue, socket, workers_with_subscribers, channel_mutex,
                 locals, crashes>>

ProcessDone(w) ==
  /\ pc[w] = "process"
  /\ messages_queue[w] = <<>>
  /\ Goto(w, "read")
  /\ UNCHANGED <<messages_queue, socket, workers_with_subscribers, channel_mutex,
                 locals, crashes>>

(* Mutant: one message for each command.                                   *)
ReleaseOne(w) ==
  /\ pc[w] = "respond"
  /\ messages_queue' = [messages_queue EXCEPT ![w] = Tail(@)]
  /\ Goto(w, "read")
  /\ UNCHANGED <<socket, workers_with_subscribers, channel_mutex, locals, crashes>>

Release(w) ==
  /\ pc[w] = "respond"
  /\ messages_queue' = [messages_queue EXCEPT ![w] = Tail(@)]
  /\ Goto(w, "process")
  /\ UNCHANGED <<socket, workers_with_subscribers, channel_mutex, locals, crashes>>

----------------------------------------------------------------------------
(* A subscriber of this worker enters the channel. The sentinel stays when *)
(* it leaves.                                                              *)
Subscribe(w, c) ==
  /\ pc[w] = "idle"
  /\ channel_mutex[c] = None
  /\ workers_with_subscribers' = [workers_with_subscribers EXCEPT ![c] = @ \cup {w}]
  /\ UNCHANGED <<messages_queue, socket, channel_mutex, pc, locals, crashes>>

(* DELETE_CHANNEL, CENSUS_SUBSCRIBERS.                                     *)
SendOther(w, v) ==
  /\ pc[w] = "idle"
  /\ others[v] < MaxOthers
  /\ Fits(v)
  /\ others' = [others EXCEPT ![v] = @ + 1]
  /\ UNCHANGED <<messages_queue, checks, workers_with_subscribers, channel_mutex, pc,
                 locals, crashes>>

----------------------------------------------------------------------------
Crash(w) ==
  /\ crashes < MaxCrashes
  /\ pc[w] \in CrashAt
  /\ \A c \in Channels : channel_mutex[c] # w
  /\ crashes' = crashes + 1
  /\ Goto(w, "dead")
  /\ caller' = [caller EXCEPT ![w] = "idle"]
  /\ channel' = [channel EXCEPT ![w] = None]
  /\ hand' = [hand EXCEPT ![w] = None]
  /\ visited' = [visited EXCEPT ![w] = {}]
  /\ queue_was_empty' = [queue_was_empty EXCEPT ![w] = {}]
  /\ UNCHANGED <<messages_queue, socket, workers_with_subscribers, channel_mutex>>

(* The process that takes the slot: clean_worker_data empties the queue,   *)
(* then removes the sentinel of the dead one from each channel.            *)
Respawn(w) ==
  /\ pc[w] = "dead"
  /\ Goto(w, "clean")
  /\ UNCHANGED <<messages_queue, socket, workers_with_subscribers, channel_mutex,
                 locals, crashes>>

CleanQueue(w) ==
  /\ pc[w] = "clean"
  /\ messages_queue[w] # <<>>
  /\ messages_queue' = [messages_queue EXCEPT ![w] = Tail(@)]
  /\ UNCHANGED <<socket, workers_with_subscribers, channel_mutex, pc, locals, crashes>>

CleanQueueDone(w) ==
  /\ pc[w] = "clean"
  /\ messages_queue[w] = <<>>
  /\ Goto(w, "unsubscribe")
  /\ UNCHANGED <<messages_queue, socket, workers_with_subscribers, channel_mutex,
                 locals, crashes>>

UnsubscribeWorker(w, c) ==
  /\ pc[w] = "unsubscribe"
  /\ w \in workers_with_subscribers[c]
  /\ channel_mutex[c] = None
  /\ workers_with_subscribers' = [workers_with_subscribers EXCEPT ![c] = @ \ {w}]
  /\ UNCHANGED <<messages_queue, socket, channel_mutex, pc, locals, crashes>>

Cleaned(w) ==
  /\ pc[w] = "unsubscribe"
  /\ \A c \in Channels : w \notin workers_with_subscribers[c]
  /\ Goto(w, "idle")
  /\ UNCHANGED <<messages_queue, socket, workers_with_subscribers, channel_mutex,
                 locals, crashes>>

----------------------------------------------------------------------------
Init ==
  /\ messages_queue = [w \in Workers |-> <<>>]
  /\ checks = [w \in Workers |-> 0]
  /\ others = [w \in Workers |-> 0]
  /\ workers_with_subscribers = [c \in Channels |-> {}]
  /\ channel_mutex = [c \in Channels |-> None]
  /\ pc = [w \in Workers |-> "idle"]
  /\ caller = [w \in Workers |-> "idle"]
  /\ channel = [w \in Workers |-> None]
  /\ hand = [w \in Workers |-> None]
  /\ visited = [w \in Workers |-> {}]
  /\ queue_was_empty = [w \in Workers |-> {}]
  /\ crashes = 0

(* What a worker does on its own account once a broadcast has begun.       *)
Broadcasting(w) ==
  \/ \E v \in Workers : Enqueue(w, v) \/ Alert(w, v)
  \/ Unlock(w)
  \/ Return(w)

Listening(w) ==
  \/ Wake(w)
  \/ ReadCheck(w)
  \/ ReadOther(w)
  \/ ReadAgain(w)
  \/ Process(w)
  \/ ProcessDone(w)

(* The end of what may itself broadcast, each time a finite number of      *)
(* events.                                                                 *)
Finish(w) == Obeyed(w) \/ Release(w)

Clients(w) ==
  \/ \E c \in Channels : Subscribe(w, c) \/ \E m \in Messages : Broadcast(w, c, m)
  \/ \E v \in Workers : SendOther(w, v)

Lifecycle(w) ==
  \/ Crash(w)
  \/ Respawn(w)
  \/ CleanQueue(w)
  \/ CleanQueueDone(w)
  \/ \E c \in Channels : UnsubscribeWorker(w, c)
  \/ Cleaned(w)

Next ==
  \E w \in Workers :
    Broadcasting(w) \/ Listening(w) \/ Finish(w) \/ Clients(w) \/ Lifecycle(w)

Spec == Init /\ [][Next]_vars

(* A handler runs to its end, and the event loop comes back to a socket    *)
(* that can be read however many requests it also serves. A socket is first*)
(* in, first out: no command is overtaken for ever. Nothing is asked of    *)
(* the clients.                                                            *)
Fairness ==
  \A w \in Workers :
    /\ WF_vars(Broadcasting(w))
    /\ SF_vars(Listening(w))
    /\ SF_vars(ReadCheck(w))
    /\ SF_vars(Finish(w))

FairSpec == Spec /\ Fairness

----------------------------------------------------------------------------
Labels == {"idle", "enqueue", "alert", "read", "process", "respond", "obey",
           "dead", "clean", "unsubscribe"}

(* The types of all the variables, and the capacity of the sockets.        *)
TypeOK ==
  /\ messages_queue \in [Workers -> Seq(Messages)]
  /\ checks \in [Workers -> Nat]
  /\ others \in [Workers -> Nat]
  /\ \A w \in Workers : checks[w] + others[w] <= Capacity
  /\ workers_with_subscribers \in [Channels -> SUBSET Workers]
  /\ channel_mutex \in [Channels -> Workers \cup {None}]
  /\ pc \in [Workers -> Labels]
  /\ caller \in [Workers -> {"idle", "respond", "obey"}]
  /\ channel \in [Workers -> Channels \cup {None}]
  /\ hand \in [Workers -> Messages \cup {None}]
  /\ visited \in [Workers -> SUBSET Workers]
  /\ queue_was_empty \in [Workers -> SUBSET Workers]
  /\ crashes \in Nat

(* The worker is in its delivery loop (perhaps sending an event from it)   *)
(* and will look at its queue again.                                       *)
Processing(w) ==
  \/ pc[w] \in {"process", "respond"}
  \/ pc[w] \in {"enqueue", "alert"} /\ caller[w] = "respond"

(* Worker p, in broadcast, is still going to alert w.                      *)
WillAlert(p, w) ==
  /\ \/ pc[p] = "enqueue" /\ w \in visited[p]
     \/ pc[p] = "alert" /\ w \notin visited[p]
  /\ w \in queue_was_empty[p]
  /\ w \in workers_with_subscribers[channel[p]]

Alerted(w) == checks[w] > 0 \/ Processing(w) \/ \E p \in Workers : WillAlert(p, w)

(* The worker is up (it has not died, nor begun to clean up after another).*)
Up(w) == pc[w] \notin {"dead", "clean", "unsubscribe"}

(* A worker with messages in its queue knows or is about to be told, with  *)
(* any number of publishers and with the queue changing under their eyes:  *)
(* the alerts that are not sent, those that are lost because a socket is   *)
(* full and the unlocked test of the queue never leave it asleep. Broadcast*)
(* relies on it each time it does not alert.                               *)
NoLostWakeup ==
  crashes = 0 => \A w \in Workers : messages_queue[w] # <<>> => Alerted(w)

(* The same whoever has died: what the publishers promise about the        *)
(* messages of a worker that is up.                                        *)
QueuedIsAlerted ==
  \A w \in Workers : messages_queue[w] # <<>> /\ Up(w) => Alerted(w)

(* Each queued message is delivered.                                       *)
Delivered ==
  \A w \in Workers, m \in Messages :
    m \in ToSet(messages_queue[w]) ~> m \notin ToSet(messages_queue[w]) \/ crashes > 0
=============================================================================

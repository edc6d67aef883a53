------------------------------- MODULE Census -------------------------------
(***************************************************************************)
(* The counters of subscribers: of each worker, of each worker in each     *)
(* channel, of each channel and of the whole zone.                         *)
(*                                                                         *)
(* They go up and down as subscribers come and go. A worker that dies      *)
(* leaves its share in them, so one that starts asks all workers for a     *)
(* census: each counts its own subscribers anew and answers, and the last  *)
(* one to answer adds up. The workers that must answer are only counted    *)
(* (slots_for_census); who has answered is not known, and a start in the   *)
(* middle of a census begins another one.                                  *)
(*                                                                         *)
(* Each step is a stretch of code under one mutex, or between two. Deaths  *)
(* occur between them: no other mutex is held across steps than that of    *)
(* the global zone, which nginx takes from the dead.                       *)
(***************************************************************************)
EXTENDS Integers, FiniteSets, FiniteSetsExt

CONSTANTS
  Workers, Channels, None,
  MaxSubscribers,   \* of one worker
  MaxCrashes, MaxShutDowns

(* ngx_uint_t, with fewer bits: no state of the instances gets near to     *)
(* half of the range.                                                      *)
Modulus == 64

ASSUME ConstantsAssumption ==
  /\ IsFiniteSet(Workers) /\ IsFiniteSet(Channels)
  /\ Cardinality(Workers) < Modulus
  /\ {MaxSubscribers, MaxCrashes, MaxShutDowns} \subseteq Nat
  /\ None \notin Workers \cup Channels

VARIABLES
  pid,               \* the workers with ipc[slot].pid > 0
  global_pid,        \* the workers with global_data->pid[slot] > 0
  slots_for_census,
  total,             \* data->subscribers
  worker_count,      \* worker_count[w]: ipc[slot].subscribers
  sentinel,          \* sentinel[c][w]: the subscribers of w's sentinel in channel c,
                     \* 0 if there is none
  subscribers,       \* subscribers[c]: the counter of the channel
  commands,          \* commands[w]: the census commands in the socket of w
  joined,            \* joined[w]: the length of w's list of subscribers
  subscribed,        \* subscribed[c][w]: the subscriptions of w in channel c
  pc,                \* what the worker does
  todo,              \* todo[w]: the workers or channels that its loop has to visit
  wanted,            \* wanted[w]: the channel of the subscriber that comes
  global_mutex,      \* the owner of the mutex of the global zone
  crashes, shut_downs

counters == <<total, worker_count, sentinel, subscribers>>
own      == <<joined, subscribed>>
census   == <<slots_for_census, commands>>
registry == <<pid, global_pid>>
faults   == <<crashes, shut_downs>>
locals   == <<todo, wanted>>
vars     == <<counters, own, census, registry, faults, locals, pc, global_mutex>>

(* Mutant: a counter may go below zero.                                    *)
DecrementBelow(n) == n - 1

(* NGX_HTTP_PUSH_STREAM_DECREMENT_COUNTER.                                 *)
Decrement(n) == IF n > 1 THEN n - 1 ELSE 0

(* The sums over the workers.                                              *)
InWorkers(f) == MapThenSumSet(LAMBDA w : f[w], Workers)

(* Mutant: the sum does not start from zero.                               *)
OfRegisteredMore == total + MapThenSumSet(LAMBDA w : worker_count[w], pid)

OfRegistered == MapThenSumSet(LAMBDA w : worker_count[w], pid)

Goto(w, label) == pc' = [pc EXCEPT ![w] = label]

Free == global_mutex = None
Lock(w) == Free /\ global_mutex' = w
Unlock == global_mutex' = None

----------------------------------------------------------------------------
(* The start of a worker, in the slot of a dead one or in a new one: it    *)
(* cleans what is left in the slot ...                                     *)
CleanWorkerData(w) ==
  /\ pc[w] = "start"
  /\ Lock(w)
  /\ global_pid' = global_pid \cup {w}
  /\ pid' = pid \ {w}
  /\ worker_count' = [worker_count EXCEPT ![w] = 0]
  /\ sentinel' = [c \in Channels |-> [sentinel[c] EXCEPT ![w] = 0]]
  /\ Goto(w, "enrol")
  /\ UNCHANGED <<total, subscribers, own, census, faults, locals>>

(* ... begins a census ...                                                 *)
Enrol(w) ==
  /\ pc[w] = "enrol"
  /\ pid' = pid \cup {w}
  /\ slots_for_census' = Cardinality(pid')
  /\ Unlock
  /\ todo' = [todo EXCEPT ![w] = Workers]
  /\ Goto(w, "alert")
  /\ UNCHANGED <<counters, own, commands, global_pid, faults, wanted>>

(* Mutant: a worker does not ask itself.                                   *)
AsksOthers(w, v) == v \in global_pid \ {w}

Asks(w, v) == v \in global_pid

(* ... and asks every worker for it, itself included.                      *)
Alert(w) ==
  /\ pc[w] = "alert"
  /\ \E v \in todo[w] :
       /\ commands' = [commands EXCEPT ![v] = IF Asks(w, v) THEN @ + 1 ELSE @]
       /\ todo' = [todo EXCEPT ![w] = @ \ {v}]
       /\ Goto(w, IF todo[w] = {v} THEN "idle" ELSE "alert")
  /\ UNCHANGED <<counters, own, slots_for_census, registry, faults, wanted, global_mutex>>

----------------------------------------------------------------------------
(* Mutant: the census does not exclude others.                             *)
NoLock(w) == UNCHANGED global_mutex

LockForCensus(w) == Lock(w)

(* Mutant: the count goes on from what was there.                          *)
NotZeroed(w) == worker_count

Zeroed(w) == [worker_count EXCEPT ![w] = 0]

(* census_worker_subscribers: the counts of the worker are set to zero ... *)
CensusWorkerSubscribers(w) ==
  /\ pc[w] = "idle"
  /\ commands[w] > 0
  /\ LockForCensus(w)
  /\ commands' = [commands EXCEPT ![w] = @ - 1]
  /\ worker_count' = Zeroed(w)
  /\ sentinel' = [c \in Channels |-> [sentinel[c] EXCEPT ![w] = 0]]
  /\ Goto(w, "count")
  /\ UNCHANGED <<total, subscribers, own, slots_for_census, registry, faults, locals>>

(* ... and each of its subscribers is counted, without the mutexes.        *)
Count(w) ==
  /\ pc[w] = "count"
  /\ worker_count' = [worker_count EXCEPT ![w] = @ + joined[w]]
  /\ sentinel' = [c \in Channels |-> [sentinel[c] EXCEPT ![w] = @ + subscribed[c][w]]]
  /\ Goto(w, "answer")
  /\ UNCHANGED <<total, subscribers, own, census, registry, faults, locals, global_mutex>>

(* The last one to answer adds up.                                         *)
Answer(w) ==
  /\ pc[w] = "answer"
  /\ slots_for_census' = (slots_for_census - 1) % Modulus
  /\ IF slots_for_census' = 0
     THEN Goto(w, "total") /\ UNCHANGED global_mutex
     ELSE Goto(w, "idle") /\ Unlock
  /\ UNCHANGED <<counters, own, commands, registry, faults, locals>>

RecountTotal(w) ==
  /\ pc[w] = "total"
  /\ total' = OfRegistered
  /\ todo' = [todo EXCEPT ![w] = Channels]
  /\ Goto(w, "channels")
  /\ UNCHANGED <<worker_count, sentinel, subscribers, own, census, registry, faults, wanted,
                 global_mutex>>

RecountChannel(w) ==
  /\ pc[w] = "channels"
  /\ \E c \in todo[w] :
       /\ subscribers' = [subscribers EXCEPT ![c] = InWorkers(sentinel[c])]
       /\ todo' = [todo EXCEPT ![w] = @ \ {c}]
       /\ IF todo[w] = {c} THEN Goto(w, "idle") /\ Unlock
          ELSE UNCHANGED <<pc, global_mutex>>
  /\ UNCHANGED <<total, worker_count, sentinel, own, census, registry, faults, wanted>>

----------------------------------------------------------------------------
(* registry_subscriber: the zone is counted under a mutex ...              *)
Register(w, c) ==
  /\ pc[w] = "idle"
  /\ joined[w] < MaxSubscribers
  /\ joined' = [joined EXCEPT ![w] = @ + 1]
  /\ total' = total + 1
  /\ wanted' = [wanted EXCEPT ![w] = c]
  /\ Goto(w, "register")
  /\ UNCHANGED <<worker_count, sentinel, subscribers, subscribed, census, registry, faults,
                 todo, global_mutex>>

(* ... the worker without one ...                                          *)
CountInWorker(w) ==
  /\ pc[w] = "register"
  /\ worker_count' = [worker_count EXCEPT ![w] = @ + 1]
  /\ Goto(w, "assign")
  /\ UNCHANGED <<total, sentinel, subscribers, own, census, registry, faults, locals,
                 global_mutex>>

(* ... and assing_subscription_to_channel under that of the channel.       *)
Assign(w) ==
  /\ pc[w] = "assign"
  /\ LET c == wanted[w]
     IN  /\ subscribers' = [subscribers EXCEPT ![c] = @ + 1]
         /\ sentinel' = [sentinel EXCEPT ![c][w] = @ + 1]
         /\ subscribed' = [subscribed EXCEPT ![c][w] = @ + 1]
  /\ wanted' = [wanted EXCEPT ![w] = None]
  /\ Goto(w, "idle")
  /\ UNCHANGED <<total, worker_count, joined, census, registry, faults, todo, global_mutex>>

After(label) == IF label = "idle" THEN "leave" ELSE "evict"

(* worker_subscriber_cleanup, for a subscriber that leaves or, when the    *)
(* worker shuts down, for each one: its subscription ...                   *)
Unsubscribe(w, c) ==
  /\ pc[w] \in {"idle", "shutdown"}
  /\ subscribed[c][w] > 0
  /\ subscribers' = [subscribers EXCEPT ![c] = Decrement(@)]
  /\ sentinel' = [sentinel EXCEPT ![c][w] = Decrement(@)]
  /\ subscribed' = [subscribed EXCEPT ![c][w] = @ - 1]
  /\ Goto(w, After(pc[w]))
  /\ UNCHANGED <<total, worker_count, joined, census, registry, faults, locals, global_mutex>>

(* ... and itself.                                                         *)
Unregister(w) ==
  /\ pc[w] \in {"leave", "evict"}
  /\ joined' = [joined EXCEPT ![w] = @ - 1]
  /\ total' = Decrement(total)
  /\ worker_count' = [worker_count EXCEPT ![w] = Decrement(@)]
  /\ Goto(w, IF pc[w] = "leave" THEN "idle" ELSE "shutdown")
  /\ UNCHANGED <<sentinel, subscribers, subscribed, census, registry, faults, locals,
                 global_mutex>>

----------------------------------------------------------------------------
(* cleanup_shutting_down_worker takes no mutex of the global zone. The     *)
(* worker leaves the registry of the zone, then the global one.            *)
ShutDown(w) ==
  /\ pc[w] = "idle"
  /\ shut_downs < MaxShutDowns
  /\ shut_downs' = shut_downs + 1
  /\ Goto(w, "shutdown")
  /\ UNCHANGED <<counters, own, census, registry, crashes, locals, global_mutex>>

CleanOwnData(w) ==
  /\ pc[w] = "shutdown"
  /\ joined[w] = 0
  /\ sentinel' = [c \in Channels |-> [sentinel[c] EXCEPT ![w] = 0]]
  /\ pid' = pid \ {w}
  /\ worker_count' = [worker_count EXCEPT ![w] = 0]
  /\ Goto(w, "exit")
  /\ UNCHANGED <<total, subscribers, own, census, global_pid, faults, locals, global_mutex>>

Exit(w) ==
  /\ pc[w] = "exit"
  /\ global_pid' = global_pid \ {w}
  /\ Goto(w, "gone")
  /\ UNCHANGED <<counters, own, census, pid, faults, locals, global_mutex>>

Crash(w) ==
  /\ pc[w] \notin {"start", "gone", "dead"}
  /\ crashes < MaxCrashes
  /\ crashes' = crashes + 1
  /\ joined' = [joined EXCEPT ![w] = 0]
  /\ subscribed' = [c \in Channels |-> [subscribed[c] EXCEPT ![w] = 0]]
  /\ todo' = [todo EXCEPT ![w] = {}]
  /\ wanted' = [wanted EXCEPT ![w] = None]
  /\ global_mutex' = IF global_mutex = w THEN None ELSE global_mutex
  /\ Goto(w, "dead")
  /\ UNCHANGED <<counters, census, registry, shut_downs>>

Respawn(w) ==
  /\ pc[w] = "dead"
  /\ Goto(w, "start")
  /\ UNCHANGED <<counters, own, census, registry, faults, locals, global_mutex>>

----------------------------------------------------------------------------
Init ==
  /\ pid = {} /\ global_pid = {} /\ slots_for_census = 0
  /\ total = 0 /\ worker_count = [w \in Workers |-> 0]
  /\ sentinel = [c \in Channels |-> [w \in Workers |-> 0]]
  /\ subscribers = [c \in Channels |-> 0]
  /\ commands = [w \in Workers |-> 0]
  /\ joined = [w \in Workers |-> 0]
  /\ subscribed = [c \in Channels |-> [w \in Workers |-> 0]]
  /\ pc = [w \in Workers |-> "start"]
  /\ todo = [w \in Workers |-> {}]
  /\ wanted = [w \in Workers |-> None]
  /\ global_mutex = None
  /\ crashes = 0 /\ shut_downs = 0

(* What a worker does of itself, once it has begun.                        *)
Work(w) ==
  \/ CleanWorkerData(w) \/ Enrol(w) \/ Alert(w)
  \/ CensusWorkerSubscribers(w) \/ Count(w) \/ Answer(w) \/ RecountTotal(w) \/ RecountChannel(w)
  \/ CountInWorker(w) \/ Assign(w) \/ Unregister(w)
  \/ CleanOwnData(w) \/ Exit(w)

Next ==
  \E w \in Workers :
    \/ Work(w)
    \/ \E c \in Channels : Register(w, c) \/ Unsubscribe(w, c)
    \/ ShutDown(w) \/ Crash(w) \/ Respawn(w)

Spec == Init /\ [][Next]_vars

(* Handlers run on, commands are read, and the mutex is handed on, even if *)
(* subscribers come and go all the time; the master replaces the dead.     *)
Fairness ==
  \A w \in Workers :
    /\ SF_vars(Work(w))
    /\ SF_vars(CensusWorkerSubscribers(w))
    /\ WF_vars(Respawn(w))

FairSpec == Spec /\ Fairness

----------------------------------------------------------------------------
Labels == {"start", "enrol", "alert", "idle", "count", "answer", "total", "channels",
           "register", "assign", "leave", "shutdown", "evict", "exit", "gone", "dead"}

(* The types of all the variables.                                         *)
TypeOK ==
  /\ pid \subseteq Workers /\ global_pid \subseteq Workers
  /\ slots_for_census \in 0..(Modulus - 1)
  /\ total \in Nat
  /\ worker_count \in [Workers -> Nat]
  /\ sentinel \in [Channels -> [Workers -> Nat]]
  /\ subscribers \in [Channels -> Nat]
  /\ commands \in [Workers -> Nat]
  /\ joined \in [Workers -> 0..MaxSubscribers]
  /\ subscribed \in [Channels -> [Workers -> Nat]]
  /\ pc \in [Workers -> Labels]
  /\ todo \in [Workers -> SUBSET (Workers \cup Channels)]
  /\ wanted \in [Workers -> Channels \cup {None}]
  /\ global_mutex \in Workers \cup {None}

(* A worker that is not in the middle of a change has exact counts of its  *)
(* own, whatever was in its slot before, and however many censuses ran.    *)
WorkerCountsExact ==
  \A w \in Workers :
    pc[w] = "idle" =>
      /\ worker_count[w] = joined[w]
      /\ \A c \in Channels : sentinel[c][w] = subscribed[c][w]

(* A channel never counts fewer subscribers than it has, at no time of any *)
(* census: it would be collected as empty under them.                      *)
NeverUndercounted ==
  \A c \in Channels : subscribers[c] >= InWorkers(subscribed[c])

AtRest == \A w \in Workers : pc[w] = "idle" /\ commands[w] = 0

(* When the censuses are over, of however many starts and deaths they were *)
(* mixed up, the channels count no one who is not there, and the zone does *)
(* not either. (It may count fewer: see TotalExact.)                       *)
ExactAtRest ==
  AtRest =>
    /\ \A c \in Channels : subscribers[c] = InWorkers(subscribed[c])
    /\ total <= InWorkers(joined)

(* What is counted is what is there: by the workers at any time that they  *)
(* change nothing, by the channels and the zone after the censuses.        *)
CountsExact == WorkerCountsExact /\ ExactAtRest

(* The same, with what the header says of the counter of the zone. The     *)
(* code does not ensure it: a sum that is taken between the two steps of   *)
(* Register misses the subscriber who is registered at that moment.        *)
TotalExact == AtRest => total = InWorkers(joined)

(* The share of the dead goes away: a wrong count of a channel becomes     *)
(* right, if no worker leaves for good meanwhile, who may be waited for.   *)
GhostsVanish ==
  \A c \in Channels :
    subscribers[c] # InWorkers(subscribed[c])
      ~> \/ subscribers[c] = InWorkers(subscribed[c])
         \/ shut_downs > 0
=============================================================================

----------------------- MODULE ChannelLifecycleProofs -----------------------
(***************************************************************************)
(* The channels of a zone, for any number of workers, requests, channels   *)
(* and ids: a channel is in one place, is counted where it is, has its id  *)
(* for itself; no connected subscriber goes uncounted; the limit of        *)
(* channels holds, and that of subscribers is exceeded by races only.      *)
(*                                                                         *)
(* The argument turns on "deleted": it is tested and set under the mutex   *)
(* of the queue from which the channel is taken, so one request or timer   *)
(* alone moves a channel on, whatever pointers to it others still have.    *)
(* And as long as nobody has entered a released channel, each sentinel's   *)
(* subscribers are counted in channel->subscribers, so a channel that is   *)
(* released has none connected, and its record can be used again.          *)
(***************************************************************************)
EXTENDS ChannelLifecycle, FiniteSetTheorems, TLAPS

(* A handler under way has its worker, and the arguments that it goes by.  *)
UnderWay == {"create", "assign", "limit", "count", "move"}
Pointing == {"assign", "subscribed", "body", "limit", "count", "move"}

RequestInv ==
  \A r \in Requests :
    /\ pc[r] # "new" => worker[r] \in Workers
    /\ pc[r] \in UnderWay => task[worker[r]] = r
    /\ pc[r] = "create" => wanted[r] \in Ids
    /\ pc[r] \in Pointing => channel[r] \in Channels
    /\ channel[r] # None => id[channel[r]] # None
    /\ pc[r] \in {"delete", "move"} /\ channel[r] # None => channel[r] # EventsChannel

(* "deleted" tells in which places a channel can be, and MarkDeleted gives  *)
(* it to one request alone.                                                *)
PlaceInv ==
  /\ \A c \in Channels :
       /\ deleted[c] => id[c] # None
       /\ c \in tree <=> id[c] # None /\ ~deleted[c]
       /\ c \in channels_to_delete \cup channels_trash \cup freed => deleted[c]
       /\ ~(c \in channels_to_delete /\ c \in channels_trash)
       /\ ~(c \in channels_to_delete /\ c \in freed)
       /\ ~(c \in channels_trash /\ c \in freed)
  /\ \A r \in Requests :
       pc[r] = "move" =>
         /\ deleted[channel[r]]
         /\ channel[r] \notin channels_to_delete \cup channels_trash \cup freed
  /\ \A q, r \in Requests : pc[q] = "move" /\ pc[r] = "move" /\ channel[q] = channel[r] => q = r

(* Who is linked in a sentinel.                                            *)
LinkedInv ==
  /\ \A c \in Channels : \A r \in subscriptions[c] :
       /\ pc[r] \in {"subscribed", "done"}
       /\ pc[r] = "subscribed" => channel[r] = c
  /\ \A r \in Requests : pc[r] = "subscribed" => task[worker[r]] # "dead"
  /\ \A w \in Workers : task[w] = "dead" => crashes # 0

(* Who is counted: those linked, and no others unless a worker has died.   *)
CountedInv ==
  ~stranded =>
    /\ \A r \in Requests :
         pc[r] = "subscribed" => /\ r \in subscriptions[channel[r]]
                                 /\ channel[r] \notin channels_trash \cup freed
    /\ \A c \in Channels : Cardinality(subscriptions[c]) <= subscribers[c]
    /\ crashes = 0 =>
         \A c \in Channels : /\ subscribers[c] = Cardinality(subscriptions[c])
                            /\ \A r \in subscriptions[c] : pc[r] = "subscribed"

(* The requests that are past the test of a channel's limit, or will find  *)
(* the channel without it.                                                 *)
Admitted(c) ==
  {r \in Requests : \/ pc[r] = "assign" /\ channel[r] = c
                    \/ pc[r] = "create" /\ c \in tree /\ wanted[r] = id[c]}

AdmittedInv ==
  ~stranded => \A c \in Channels :
    subscribers[c] + Cardinality(Admitted(c)) <= MaxSubscribers + Cardinality(Workers) - 1

IInv ==
  /\ TypeOK /\ RequestInv /\ PlaceInv
  /\ ChannelCountersExact /\ OneChannelPerId /\ WithinMaxChannels /\ EventsChannelStays
  /\ LinkedInv /\ CountedInv

----------------------------------------------------------------------------
(* Lookups and types                                                       *)

(* find_channel_on_tree returns a channel of the tree with that id, if any. *)
LEMMA Found ==
  ASSUME tree \subseteq Channels, NEW i
  PROVE  \/ FindChannel(i) = None /\ Matches(i) = {}
         \/ FindChannel(i) \in Channels /\ FindChannel(i) \in tree /\ id[FindChannel(i)] = i
<1>1. CASE Matches(i) = {}
  BY <1>1 DEF FindChannel
<1>2. CASE Matches(i) # {}
  BY <1>2 DEF FindChannel, Matches
<1> QED
  BY <1>1, <1>2

(* NGX_HTTP_PUSH_STREAM_DECREMENT_COUNTER_BY does not go below zero.       *)
LEMMA DecrementType ==
  ASSUME NEW x \in Nat, NEW y \in Nat
  PROVE  Decrement(x, y) \in Nat /\ (y <= x => Decrement(x, y) = x - y)
BY DEF Decrement

(* Events change the number of messages of one channel.                    *)
LEMMA EventsType ==
  ASSUME NEW counts \in [Channels -> Nat], NEW n \in Nat
  PROVE  WithEvents(counts, n) \in [Channels -> Nat]
BY ConstantsAssumption DEF WithEvents, Least

(* A total of natural numbers is one.                                      *)
LEMMA TotalType ==
  ASSUME NEW S, IsFiniteSet(S), NEW f, \A c \in S : f[c] \in Nat
  PROVE  Total(f, S) \in Nat
<1> DEFINE Of(c) == {c} \X (1..f[c])
           of == [c \in S |-> Of(c)]
           All == {Of(c) : c \in S}
<1>1. ASSUME NEW c \in S PROVE IsFiniteSet(Of(c))
  <2>1. f[c] \in Int /\ 1 \in Int
    OBVIOUS
  <2>2. IsFiniteSet({c}) /\ IsFiniteSet(1..f[c])
    BY <2>1, FS_Singleton, FS_Interval
  <2> QED
    BY <2>2, FS_Product
<1>2. IsFiniteSet(All)
  <2> HIDE DEF Of
  <2>1. of \in Surjection(S, All)
    BY DEF Surjection
  <2> HIDE DEF of, All
  <2> QED
    BY <2>1, FS_Surjection
<1>3. \A T \in All : IsFiniteSet(T)
  <2> HIDE DEF Of
  <2> QED
    BY <1>1
<1>4. IsFiniteSet(UNION All)
  <2> HIDE DEF All
  <2> QED
    BY <1>2, <1>3, FS_UNION
<1> QED
  BY <1>4, FS_CardinalityType DEF Total

(* What get_channel writes for a new channel has the right types.          *)
LEMMA InsertTypes ==
  ASSUME TypeOK, NEW c \in Channels, NEW i \in Ids, InsertChannel(c, i)
  PROVE  /\ {tree, channels_to_delete, channels_trash, freed}' \subseteq SUBSET Channels
         /\ id' \in [Channels -> Ids \cup {None, EventsChannel}]
         /\ deleted' \in [Channels -> BOOLEAN]
         /\ stored' \in [Channels -> Nat]
         /\ subscribers' \in [Channels -> Nat]
         /\ subscriptions' \in [Channels -> SUBSET Requests]
         /\ data' \in [channels : Nat, channels_in_delete : Nat, channels_in_trash : Nat,
                       stored_messages : Nat]
<1> USE DEF TypeOK, InsertChannel
<1>1. stored' \in [Channels -> Nat]
  BY EventsType
<1>2. data' \in [channels : Nat, channels_in_delete : Nat, channels_in_trash : Nat,
                 stored_messages : Nat]
  OBVIOUS
<1> QED
  BY <1>1, <1>2

(* Every step keeps the types.                                             *)
LEMMA TypePreserved == IInv /\ [Next]_vars => TypeOK'
<1> SUFFICES ASSUME IInv, [Next]_vars PROVE TypeOK'
  OBVIOUS
<1> USE ConstantsAssumption DEF IInv, TypeOK, Labels, CleanupTasks, Goto, Continue, Return, Forget,
                                places, use, locals, faults
<1>1. CASE UNCHANGED vars
  BY <1>1 DEF vars
<1>2. ASSUME NEW r \in Requests, NEW w \in Workers, NEW i \in Ids, ValidateChannel(r, w, i)
      PROVE  TypeOK'
  <2>1. FindChannel(i) \in Channels \cup {None}
    BY Found
  <2> QED
    BY <1>2, <2>1 DEF ValidateChannel, Begin
<1>3. ASSUME NEW r \in Requests, CreateOnSubscribe(r) PROVE TypeOK'
  <2>1. FindChannel(wanted[r]) \in Channels \cup {None}
    BY Found
  <2>2. worker[r] \in Workers /\ wanted[r] \in Ids
    BY <1>3 DEF CreateOnSubscribe, RequestInv
  <2>3. CASE \E c \in Channels : InsertChannel(c, wanted[r]) /\ channel' = [channel EXCEPT ![r] = c]
    <3>1. PICK c \in Channels : InsertChannel(c, wanted[r]) /\ channel' = [channel EXCEPT ![r] = c]
      BY <2>3
    <3> QED
      BY <1>3, <2>2, <3>1, InsertTypes, SMTT(60) DEF CreateOnSubscribe
  <2>4. CASE UNCHANGED <<places, use, data>>
    BY <1>3, <2>1, <2>2, <2>4 DEF CreateOnSubscribe
  <2> QED
    BY <1>3, <2>3, <2>4 DEF CreateOnSubscribe
<1>4. ASSUME NEW r \in Requests, AssignSubscription(r) PROVE TypeOK'
  <2>1. EventsAbout(channel[r]) \in Nat
    BY DEF EventsAbout
  <2>2. channel[r] \in Channels /\ worker[r] \in Workers
    BY <1>4 DEF AssignSubscription, RequestInv, Pointing
  <2>3. /\ subscribers' \in [Channels -> Nat] /\ stored' \in [Channels -> Nat]
        /\ subscriptions' \in [Channels -> SUBSET Requests]
    BY <1>4, <2>1, <2>2, EventsType DEF AssignSubscription
  <2> QED
    BY <1>4, <2>2, <2>3 DEF AssignSubscription
<1>5. ASSUME NEW r \in Requests, Disconnect(r) PROVE TypeOK'
  <2>1. EventsAbout(channel[r]) \in Nat
    BY DEF EventsAbout
  <2>2. channel[r] \in Channels
    BY <1>5 DEF Disconnect, RequestInv, Pointing
  <2> QED
    BY <1>5, <2>1, <2>2, EventsType, DecrementType DEF Disconnect
<1>6. ASSUME NEW r \in Requests, NEW w \in Workers, NEW i \in Ids, GetChannel(r, w, i)
      PROVE  TypeOK'
  <2>1. FindChannel(i) \in Channels \cup {None}
    BY Found
  <2>2. CASE \E c \in Channels : InsertChannel(c, i) /\ channel' = [channel EXCEPT ![r] = c]
    <3>1. PICK c \in Channels : InsertChannel(c, i) /\ channel' = [channel EXCEPT ![r] = c]
      BY <2>2
    <3> QED
      BY <1>6, <3>1, InsertTypes DEF GetChannel, Begin
  <2>3. CASE UNCHANGED <<places, use, data>>
    BY <1>6, <2>1, <2>3 DEF GetChannel, Begin
  <2> QED
    BY <1>6, <2>2, <2>3 DEF GetChannel
<1>7. ASSUME NEW r \in Requests, StoreMessage(r) PROVE TypeOK'
  <2>1. channel[r] \in Channels /\ worker[r] \in Workers
    BY <1>7 DEF StoreMessage, RequestInv, Pointing
  <2> QED
    BY <1>7, <2>1 DEF StoreMessage
<1>8. ASSUME NEW r \in Requests, EnsureQtdOfMessages(r) PROVE TypeOK'
  <2>1. channel[r] \in Channels
    BY <1>8 DEF EnsureQtdOfMessages, RequestInv, Pointing
  <2> QED
    BY <1>8, <2>1, DecrementType DEF EnsureQtdOfMessages, Least
<1>9. ASSUME NEW r \in Requests, CountMessage(r) PROVE TypeOK'
  BY <1>9, DecrementType DEF CountMessage, RequestInv, UnderWay
<1>10. ASSUME NEW r \in Requests, NEW w \in Workers, NEW i \in Ids, FindForDelete(r, w, i)
       PROVE  TypeOK'
  <2>1. FindChannel(i) \in Channels \cup {None}
    BY Found
  <2> QED
    BY <1>10, <2>1 DEF FindForDelete, Begin
<1>11. ASSUME NEW r \in Requests, MarkDeleted(r) PROVE TypeOK'
  <2>1. worker[r] \in Workers
    BY <1>11 DEF MarkDeleted, RequestInv
  <2>2. Decrement(data.channels, 1) \in Nat
    BY DecrementType
  <2>3. data' \in [channels : Nat, channels_in_delete : Nat, channels_in_trash : Nat,
                   stored_messages : Nat]
    <3>1. data' = data \/ data' = [data EXCEPT !.channels = Decrement(data.channels, 1)]
      BY <1>11 DEF MarkDeleted
    <3> QED
      BY <2>2, <3>1
  <2>4. tree' \subseteq Channels /\ deleted' \in [Channels -> BOOLEAN]
    <3>1. PICK c \in {channel[r]} :
            \/ tree' = tree \ {c} /\ deleted' = [deleted EXCEPT ![c] = TRUE]
            \/ UNCHANGED <<tree, deleted>>
      BY <1>11, ZenonT(60) DEF MarkDeleted
    <3> QED
      BY <3>1
  <2>5. /\ pc' \in [Requests -> Labels]
        /\ channel' \in [Requests -> Channels \cup {None}]
        /\ task' \in [Workers -> CleanupTasks \cup Requests \cup {"idle", "dead"}]
    BY <1>11, <2>1 DEF MarkDeleted
  <2> QED
    BY <1>11, <2>3, <2>4, <2>5 DEF MarkDeleted
<1>12. ASSUME NEW r \in Requests, MoveToDelete(r) PROVE TypeOK'
  BY <1>12 DEF MoveToDelete, RequestInv, Pointing, UnderWay
<1>13. ASSUME NEW w \in Workers, NEW next \in {"idle", "collect_deleted"}, DeleteChannels(w, next)
       PROVE  TypeOK'
  <2> DEFINE gone(c) == {r \in Evicted(w) : channel[r] = c}
  <2>1. IsFiniteSet(Evicted(w))
    BY FS_Subset DEF Evicted, Doomed
  <2>2. Cardinality(Evicted(w)) \in Nat
    BY <2>1, FS_CardinalityType
  <2>3. ASSUME NEW c \in Channels PROVE Decrement(subscribers[c], Cardinality(gone(c))) \in Nat
    <3>1. Cardinality(gone(c)) \in Nat
      BY <2>1, FS_Subset, FS_CardinalityType
    <3> HIDE DEF gone
    <3> QED
      BY <3>1, DecrementType
  <2> HIDE DEF gone
  <2>4. subscribers' \in [Channels -> Nat] /\ subscriptions' \in [Channels -> SUBSET Requests]
    BY <1>13, <2>3 DEF DeleteChannels, gone
  <2> QED
    BY <1>13, <2>2, <2>4, EventsType DEF DeleteChannels
<1>14. ASSUME NEW w \in Workers, CollectDeleted(w) PROVE TypeOK'
  <2> DEFINE leaving == {c \in channels_to_delete : Releasable(c)}
             dropped == Total(stored, channels_to_delete)
             emptied == [c \in Channels |-> IF c \in channels_to_delete THEN 0 ELSE stored[c]]
  <2>1. IsFiniteSet(channels_to_delete) /\ IsFiniteSet(leaving)
    BY FS_Subset
  <2>2. dropped \in Nat
    BY <2>1, TotalType
  <2>3. Cardinality(leaving) \in Nat
    BY <2>1, FS_CardinalityType
  <2>4. emptied \in [Channels -> Nat]
    OBVIOUS
  <2> HIDE DEF leaving, dropped, emptied
  <2>5. /\ stored' = WithEvents(emptied, Cardinality(leaving))
        /\ channels_to_delete' = channels_to_delete \ leaving
        /\ channels_trash' = channels_trash \cup leaving
        /\ data' = [data EXCEPT
                      !.stored_messages = Decrement(@, dropped),
                      !.channels_in_delete = Decrement(@, Cardinality(leaving)),
                      !.channels_in_trash = @ + Cardinality(leaving)]
    BY <1>14 DEF CollectDeleted, leaving, dropped, emptied
  <2>6. leaving \subseteq channels_to_delete
    BY DEF leaving
  <2>7. stored' \in [Channels -> Nat]
    BY <2>3, <2>4, <2>5, EventsType
  <2>8. /\ Decrement(data.stored_messages, dropped) \in Nat
        /\ Decrement(data.channels_in_delete, Cardinality(leaving)) \in Nat
    BY <2>2, <2>3, DecrementType
  <2>9. data' \in [channels : Nat, channels_in_delete : Nat, channels_in_trash : Nat,
                   stored_messages : Nat]
    <3>1. data' = [channels |-> data.channels,
                   channels_in_delete |-> Decrement(data.channels_in_delete, Cardinality(leaving)),
                   channels_in_trash |-> data.channels_in_trash + Cardinality(leaving),
                   stored_messages |-> Decrement(data.stored_messages, dropped)]
      BY <2>5
    <3> QED
      BY <2>3, <2>8, <3>1
  <2> QED
    BY <1>14, <2>5, <2>6, <2>7, <2>9 DEF CollectDeleted
<1>15. ASSUME NEW w \in Workers, CollectExpired(w) PROVE TypeOK'
  <2>1. PICK expired \in [tree -> 0..(MaxStored + Cardinality(Requests))] :
          /\ \A c \in tree : expired[c] <= stored[c]
          /\ stored' = [c \in Channels |-> IF c \in tree THEN stored[c] - expired[c] ELSE stored[c]]
          /\ data' = [data EXCEPT !.stored_messages =
                        Decrement(@, Total(expired, tree))]
    BY <1>15 DEF CollectExpired
  <2>2. Cardinality(Requests) \in Nat
    BY FS_CardinalityType
  <2>3. \A c \in tree : expired[c] \in Nat
    BY <2>2
  <2>4. Total(expired, tree) \in Nat
    <3>1. IsFiniteSet(tree)
      BY FS_Subset
    <3> QED
      BY <2>3, <3>1, TotalType
  <2>5. stored' \in [Channels -> Nat]
    BY <2>1, <2>3
  <2> DEFINE dropped == Total(expired, tree)
  <2>6. dropped \in Nat /\ data' = [data EXCEPT !.stored_messages = Decrement(@, dropped)]
    BY <2>1, <2>4
  <2> HIDE DEF dropped
  <2>7. data' \in [channels : Nat, channels_in_delete : Nat, channels_in_trash : Nat,
                   stored_messages : Nat]
    BY <2>6, DecrementType
  <2> QED
    BY <1>15, <2>5, <2>7 DEF CollectExpired
<1>16. ASSUME NEW w \in Workers, CollectEmpty(w) PROVE TypeOK'
  <2>1. PICK inactive \in SUBSET {c \in tree : Empty(c)} :
          /\ deleted' = [c \in Channels |-> deleted[c] \/ c \in inactive]
          /\ tree' = tree \ inactive
          /\ channels_trash' = channels_trash \cup inactive
          /\ stored' = WithEvents(stored, Cardinality(inactive))
          /\ data' = [data EXCEPT !.channels = Decrement(@, Cardinality(inactive)),
                                  !.channels_in_trash = @ + Cardinality(inactive)]
    BY <1>16 DEF CollectEmpty
  <2>2. Cardinality(inactive) \in Nat
    BY FS_Subset, FS_CardinalityType
  <2>3. stored' \in [Channels -> Nat]
    BY <2>1, <2>2, EventsType
  <2>4. Decrement(data.channels, Cardinality(inactive)) \in Nat
    BY <2>2, DecrementType
  <2>5. data' \in [channels : Nat, channels_in_delete : Nat, channels_in_trash : Nat,
                   stored_messages : Nat]
    <3>1. data' = [channels |-> Decrement(data.channels, Cardinality(inactive)),
                   channels_in_delete |-> data.channels_in_delete,
                   channels_in_trash |-> data.channels_in_trash + Cardinality(inactive),
                   stored_messages |-> data.stored_messages]
      BY <2>1
    <3> QED
      BY <2>2, <2>4, <3>1
  <2> QED
    BY <1>16, <2>1, <2>3, <2>5 DEF CollectEmpty
<1>17. ASSUME NEW w \in Workers, NEW c \in Channels, FreeChannel(w, c) PROVE TypeOK'
  BY <1>17, DecrementType DEF FreeChannel
<1>18. ASSUME NEW w \in Workers, CleanupDone(w) \/ Crash(w) PROVE TypeOK'
  BY <1>18 DEF CleanupDone, Crash
<1>19. ASSUME NEW w \in Workers, Respawn(w) PROVE TypeOK'
  <2>1. subscriptions' \in [Channels -> SUBSET Requests]
    BY <1>19 DEF Respawn
  <2> QED
    BY <1>19, <2>1 DEF Respawn
<1>20. ASSUME NEW w \in Workers, NEW c \in Channels, RecountChannel(w, c) PROVE TypeOK'
  <2>1. Cardinality(subscriptions[c]) \in Nat
    BY FS_Subset, FS_CardinalityType
  <2>2. subscribers' \in [Channels -> Nat]
    BY <1>20, <2>1 DEF RecountChannel
  <2> QED
    BY <1>20, <2>2 DEF RecountChannel
<1>21. ASSUME NEW r \in Requests, AssignFails(r) PROVE TypeOK'
  BY <1>21 DEF AssignFails, RequestInv, UnderWay
<1> QED
  BY <1>1, <1>2, <1>3, <1>4, <1>5, <1>6, <1>7, <1>8, <1>9, <1>10, <1>11, <1>12, <1>13, <1>14,
     <1>15, <1>16, <1>17, <1>18, <1>19, <1>20, <1>21
     DEF Next, Arrival, Handle, Timer, DeleteWorkerChannel, MemoryCleanup

----------------------------------------------------------------------------
(* What a request has                                                      *)

(* An event loop that is idle, or has died, runs no handler.               *)
LEMMA OneHandler ==
  ASSUME IInv, NEW q \in Requests, pc[q] \in UnderWay
  PROVE  /\ worker[q] \in Workers /\ task[worker[q]] = q
         /\ task[worker[q]] \notin CleanupTasks \cup {"idle", "dead"}
BY ConstantsAssumption DEF IInv, RequestInv, UnderWay, CleanupTasks

(* A new channel takes an id, and a record that is in no queue; the other  *)
(* channels keep theirs.                                                   *)
LEMMA InsertKeeps ==
  ASSUME IInv, NEW c \in Channels, NEW i \in Ids, InsertChannel(c, i)
  PROVE  /\ id'[c] = i /\ i # None /\ c \in tree' /\ deleted'[c] = FALSE
         /\ id[c] = None \/ c \in freed
         /\ c \notin tree \cup channels_to_delete \cup channels_trash
         /\ \A d \in Channels \ {c} : id'[d] = id[d] /\ deleted'[d] = deleted[d]
         /\ c # EventsChannel
<1> USE DEF IInv, TypeOK, InsertChannel
<1>1. /\ id'[c] = i /\ i # None /\ c \in tree' /\ deleted'[c] = FALSE
      /\ \A d \in Channels \ {c} : id'[d] = id[d] /\ deleted'[d] = deleted[d]
  BY ConstantsAssumption
<1>2. /\ id[c] = None \/ c \in freed
      /\ c \notin tree \cup channels_to_delete \cup channels_trash
  BY DEF Unallocated, PlaceInv
<1>3. c # EventsChannel
  BY <1>2, ConstantsAssumption DEF EventsChannelStays
<1> QED
  BY <1>1, <1>2, <1>3

(* Every step leaves each request with what its handler needs.             *)
LEMMA RequestPreserved == IInv /\ [Next]_vars => RequestInv'
<1> SUFFICES ASSUME IInv, [Next]_vars PROVE RequestInv'
  OBVIOUS
<1> USE ConstantsAssumption DEF IInv, TypeOK, RequestInv, UnderWay, Pointing,
                                Goto, Continue, Return, Forget, places, locals
<1>1. CASE UNCHANGED vars
  BY <1>1 DEF vars
<1>2. ASSUME NEW r \in Requests, NEW w \in Workers, NEW i \in Ids, ValidateChannel(r, w, i)
      PROVE  RequestInv'
  BY <1>2, Found, OneHandler DEF ValidateChannel, Begin
<1>3. ASSUME NEW r \in Requests, CreateOnSubscribe(r) PROVE RequestInv'
  <2>1. worker[r] \in Workers /\ wanted[r] \in Ids /\ task[worker[r]] = r
    BY <1>3 DEF CreateOnSubscribe
  <2>2. CASE \E c \in Channels : InsertChannel(c, wanted[r]) /\ channel' = [channel EXCEPT ![r] = c]
    <3>1. PICK c \in Channels : InsertChannel(c, wanted[r]) /\ channel' = [channel EXCEPT ![r] = c]
      BY <2>2
    <3>2. id'[c] # None /\ c # EventsChannel /\ \A d \in Channels \ {c} : id'[d] = id[d]
      BY <2>1, <3>1, InsertKeeps
    <3> QED
      BY <1>3, <2>1, <3>1, <3>2, OneHandler DEF CreateOnSubscribe
  <2>3. CASE UNCHANGED <<places, use, data>>
    <3>1. id' = id /\ tree' = tree
      BY <2>3
    <3>2. \/ FindChannel(wanted[r]) = None
          \/ FindChannel(wanted[r]) \in Channels /\ id[FindChannel(wanted[r])] = wanted[r]
      BY Found
    <3>3. \/ channel' = channel /\ pc' = [pc EXCEPT ![r] = "done"]
          \/ /\ FindChannel(wanted[r]) # None
             /\ channel' = [channel EXCEPT ![r] = FindChannel(wanted[r])]
             /\ pc' = [pc EXCEPT ![r] = "assign"]
             /\ task' = [task EXCEPT ![worker[r]] = r]
      <4>1. ASSUME NEW c \in Channels, InsertChannel(c, wanted[r]) PROVE FALSE
        BY <3>1, <4>1, <2>1, InsertKeeps
      <4> QED
        BY <1>3, <4>1 DEF CreateOnSubscribe
    <3>4. /\ worker' = worker /\ wanted' = [wanted EXCEPT ![r] = None]
          /\ \A q \in Requests : q # r /\ pc[q] \in UnderWay => task'[worker[q]] = q
      BY <1>3, <2>1, OneHandler DEF CreateOnSubscribe
    <3> QED
      BY <2>1, <3>1, <3>2, <3>3, <3>4
  <2> QED
    BY <1>3, <2>2, <2>3 DEF CreateOnSubscribe
<1>4. ASSUME NEW r \in Requests,
             \/ AssignSubscription(r) \/ AssignFails(r)
             \/ EnsureQtdOfMessages(r) \/ CountMessage(r)
      PROVE  RequestInv'
  BY <1>4, OneHandler DEF AssignSubscription, AssignFails, EnsureQtdOfMessages, CountMessage, Running
<1>5. ASSUME NEW r \in Requests, Disconnect(r) \/ StoreMessage(r) PROVE RequestInv'
  BY <1>5, OneHandler DEF Disconnect, StoreMessage
<1>6. ASSUME NEW r \in Requests, NEW w \in Workers, NEW i \in Ids, GetChannel(r, w, i)
      PROVE  RequestInv'
  <2>1. CASE \E c \in Channels : InsertChannel(c, i) /\ channel' = [channel EXCEPT ![r] = c]
    <3>1. PICK c \in Channels : InsertChannel(c, i) /\ channel' = [channel EXCEPT ![r] = c]
      BY <2>1
    <3>2. id'[c] # None /\ c # EventsChannel /\ \A d \in Channels \ {c} : id'[d] = id[d]
      BY <3>1, InsertKeeps
    <3> QED
      BY <1>6, <3>1, <3>2, OneHandler DEF GetChannel, Begin
  <2>2. CASE UNCHANGED <<places, use, data>>
    <3>1. id' = id /\ tree' = tree
      BY <2>2
    <3>2. \/ FindChannel(i) = None
          \/ FindChannel(i) \in Channels /\ id[FindChannel(i)] = i
      BY Found
    <3>3. \/ channel' = channel /\ pc' = [pc EXCEPT ![r] = "done"]
          \/ /\ FindChannel(i) # None
             /\ channel' = [channel EXCEPT ![r] = FindChannel(i)]
             /\ pc' = [pc EXCEPT ![r] = "body"]
      <4>1. ASSUME NEW c \in Channels, InsertChannel(c, i) PROVE FALSE
        BY <3>1, <4>1, InsertKeeps
      <4> QED
        BY <1>6, <4>1 DEF GetChannel
    <3>4. /\ pc[r] = "new" /\ worker' = [worker EXCEPT ![r] = w] /\ wanted' = wanted
          /\ \A q \in Requests : q # r /\ pc[q] \in UnderWay => task'[worker[q]] = q
      BY <1>6, OneHandler DEF GetChannel, Begin
    <3> QED
      BY <3>1, <3>2, <3>3, <3>4
  <2> QED
    BY <1>6, <2>1, <2>2 DEF GetChannel
<1>7. ASSUME NEW r \in Requests, NEW w \in Workers, NEW i \in Ids, FindForDelete(r, w, i)
      PROVE  RequestInv'
  BY <1>7, Found, OneHandler DEF FindForDelete, Begin
<1>8. ASSUME NEW r \in Requests, MarkDeleted(r) PROVE RequestInv'
  BY <1>8, OneHandler DEF MarkDeleted, Deletable
<1>9. ASSUME NEW r \in Requests, MoveToDelete(r) PROVE RequestInv'
  BY <1>9, OneHandler DEF MoveToDelete, Running
<1>10. ASSUME NEW w \in Workers, NEW next \in {"idle", "collect_deleted"}, DeleteChannels(w, next)
       PROVE  RequestInv'
  BY <1>10, OneHandler DEF DeleteChannels, Evicted, Doomed
<1>11. ASSUME NEW w \in Workers,
              CollectDeleted(w) \/ CollectExpired(w) \/ CollectEmpty(w) \/ CleanupDone(w) \/ Respawn(w)
       PROVE  RequestInv'
  <2>1. UNCHANGED <<id, pc, locals>>
    BY <1>11 DEF CollectDeleted, CollectExpired, CollectEmpty, CleanupDone, Respawn
  <2>2. /\ task[w] \in CleanupTasks \cup {"dead"}
        /\ \A v \in Workers \ {w} : task'[v] = task[v]
    <3>1. /\ task[w] \in {"collect_deleted", "collect_expired", "collect_empty", "free", "dead"}
          /\ \E t : task' = [task EXCEPT ![w] = t]
      <4>1. CASE CollectDeleted(w)
        BY <4>1, Zenon DEF CollectDeleted
      <4>2. CASE CollectExpired(w)
        BY <4>2, Zenon DEF CollectExpired
      <4>3. CASE CollectEmpty(w)
        BY <4>3, Zenon DEF CollectEmpty
      <4>4. CASE CleanupDone(w)
        BY <4>4, Zenon DEF CleanupDone
      <4>5. CASE Respawn(w)
        BY <4>5, Zenon DEF Respawn
      <4> QED
        BY <1>11, <4>1, <4>2, <4>3, <4>4, <4>5
    <3> QED
      BY <3>1 DEF CleanupTasks
  <2>3. \A q \in Requests : pc[q] \in UnderWay => task'[worker[q]] = q
    BY <2>2, OneHandler
  <2> QED
    BY <2>1, <2>3
<1>12. ASSUME NEW w \in Workers, NEW c \in Channels, FreeChannel(w, c) \/ RecountChannel(w, c)
       PROVE  RequestInv'
  BY <1>12 DEF FreeChannel, RecountChannel
<1>13. ASSUME NEW w \in Workers, Crash(w) PROVE RequestInv'
  BY <1>13, OneHandler DEF Crash
<1> QED
  BY <1>1, <1>2, <1>3, <1>4, <1>5, <1>6, <1>7, <1>8, <1>9, <1>10, <1>11, <1>12, <1>13
     DEF Next, Arrival, Handle, Timer, DeleteWorkerChannel, MemoryCleanup

----------------------------------------------------------------------------
(* Where a channel is                                                      *)

(* get_channel leaves the zone alone or adds one channel, with an id that  *)
(* no other has.                                                           *)
LEMMA Creation ==
  ASSUME IInv, NEW r \in Requests,
         \/ CreateOnSubscribe(r)
         \/ \E w \in Workers, i \in Ids : GetChannel(r, w, i)
  PROVE  \/ UNCHANGED <<places, use, data>>
         \/ \E c \in Channels, i \in Ids : InsertChannel(c, i) /\ Matches(i) = {}
<1> USE DEF IInv, TypeOK
<1>1. CASE CreateOnSubscribe(r)
  <2>1. wanted[r] \in Ids
    BY <1>1 DEF CreateOnSubscribe, RequestInv
  <2>2. FindChannel(wanted[r]) = None => Matches(wanted[r]) = {}
    BY Found, ConstantsAssumption
  <2> QED
    BY <1>1, <2>1, <2>2 DEF CreateOnSubscribe
<1>2. ASSUME NEW w \in Workers, NEW i \in Ids, GetChannel(r, w, i)
      PROVE  UNCHANGED <<places, use, data>> \/ \E c \in Channels : InsertChannel(c, i) /\ Matches(i) = {}
  <2>1. FindChannel(i) = None => Matches(i) = {}
    BY Found, ConstantsAssumption
  <2> QED
    BY <1>2, <2>1 DEF GetChannel
<1> QED
  BY <1>1, <1>2

(* Only MarkDeleted starts to move a channel.                              *)
LEMMA MoversKeep ==
  ASSUME IInv, [Next]_vars, \A r \in Requests : ~MarkDeleted(r)
  PROVE  \A r \in Requests : pc'[r] = "move" => pc[r] = "move" /\ channel'[r] = channel[r]
<1> USE DEF IInv, TypeOK, Goto, Continue, Return, Forget, locals
<1>1. CASE UNCHANGED vars
  BY <1>1 DEF vars
<1>2. ASSUME NEW q \in Requests, Arrival(q)
      PROVE  \A r \in Requests : pc'[r] = "move" => pc[r] = "move" /\ channel'[r] = channel[r]
  BY <1>2 DEF Arrival, ValidateChannel, GetChannel, FindForDelete, Disconnect, StoreMessage, Begin
<1>3. ASSUME NEW q \in Requests, Handle(q)
      PROVE  \A r \in Requests : pc'[r] = "move" => pc[r] = "move" /\ channel'[r] = channel[r]
  BY <1>3 DEF Handle, CreateOnSubscribe, AssignSubscription, AssignFails, EnsureQtdOfMessages,
              CountMessage, MoveToDelete
<1>4. ASSUME NEW w \in Workers,
             Timer(w) \/ Crash(w) \/ Respawn(w) \/ \E c \in Channels : RecountChannel(w, c)
      PROVE  \A r \in Requests : pc'[r] = "move" => pc[r] = "move" /\ channel'[r] = channel[r]
  BY <1>4, ZenonT(60) DEF Timer, DeleteWorkerChannel, MemoryCleanup, DeleteChannels, Evicted, Doomed,
              CollectDeleted, CollectExpired, CollectEmpty, FreeChannel, CleanupDone, Crash, Respawn,
              RecountChannel
<1> QED
  BY <1>1, <1>2, <1>3, <1>4 DEF Next

(* Every step leaves each channel in one place.                            *)
LEMMA PlacePreserved == IInv /\ [Next]_vars => PlaceInv'
<1> SUFFICES ASSUME IInv, [Next]_vars PROVE PlaceInv'
  OBVIOUS
<1> USE ConstantsAssumption DEF IInv, TypeOK, PlaceInv, places
<1>1. ASSUME NEW r \in Requests, MarkDeleted(r) PROVE PlaceInv'
  <2>1. \A q \in Requests : pc[q] = "move" => channel[q] \in Channels
    BY DEF RequestInv, Pointing
  <2>2. CASE Deletable(channel[r]) /\ tree' = tree \ {channel[r]}
    <3>1. channel[r] \in Channels /\ id[channel[r]] # None /\ ~deleted[channel[r]]
      BY <2>2 DEF Deletable, RequestInv
    <3>2. /\ deleted' = [deleted EXCEPT ![channel[r]] = TRUE]
          /\ UNCHANGED <<channels_to_delete, channels_trash, freed, id, channel>>
          /\ pc' = [pc EXCEPT ![r] = "move"]
      BY <1>1, <2>2, <3>1 DEF MarkDeleted, Goto, Continue, Return
    <3> QED
      BY <2>1, <2>2, <3>1, <3>2
  <2>3. CASE UNCHANGED <<tree, deleted, data>>
    <3>1. pc' = [pc EXCEPT ![r] = "done"] /\ channel' = [channel EXCEPT ![r] = None]
      BY <1>1, <2>3 DEF MarkDeleted, Goto, Return, Forget, Deletable, RequestInv
    <3> QED
      BY <1>1, <2>3, <3>1 DEF MarkDeleted
  <2> QED
    BY <1>1, <2>2, <2>3 DEF MarkDeleted
<1> SUFFICES ASSUME \A r \in Requests : ~MarkDeleted(r) PROVE PlaceInv'
  BY <1>1
<1>2. \A r \in Requests : pc'[r] = "move" => /\ pc[r] = "move" /\ channel'[r] = channel[r]
                                             /\ channel[r] \in Channels
  BY MoversKeep DEF RequestInv, Pointing
<1>3. CASE UNCHANGED places
  BY <1>2, <1>3
<1>4. ASSUME NEW c \in Channels, NEW i \in Ids, InsertChannel(c, i) PROVE PlaceInv'
  <2>1. /\ id'[c] # None /\ ~deleted'[c] /\ (id[c] = None \/ c \in freed)
        /\ c \notin tree \cup channels_to_delete \cup channels_trash
        /\ \A d \in Channels \ {c} : id'[d] = id[d] /\ deleted'[d] = deleted[d]
    BY <1>4, InsertKeeps
  <2>2. /\ tree' = tree \cup {c} /\ freed' = freed \ {c}
        /\ UNCHANGED <<channels_to_delete, channels_trash>>
    BY <1>4 DEF InsertChannel
  <2>3. ASSUME NEW d \in Channels PROVE d \in tree' <=> id'[d] # None /\ ~deleted'[d]
    <3>1. CASE d = c
      BY <2>1, <2>2, <3>1
    <3>2. CASE d # c
      <4>1. id'[d] = id[d] /\ deleted'[d] = deleted[d] /\ (d \in tree' <=> d \in tree)
        BY <2>1, <2>2, <3>2
      <4> QED
        BY <4>1
    <3> QED
      BY <3>1, <3>2
  <2>4. \A r \in Requests : pc[r] = "move" => channel[r] # c
    BY <2>1 DEF RequestInv
  <2> QED
    BY <1>2, <2>1, <2>2, <2>3, <2>4
<1>5. ASSUME NEW r \in Requests, MoveToDelete(r) PROVE PlaceInv'
  <2>1. channel[r] \in Channels /\ deleted[channel[r]] /\ pc[r] = "move" /\ pc'[r] = "done"
    BY <1>5 DEF MoveToDelete, RequestInv, Pointing, Return, Goto
  <2> QED
    BY <1>2, <1>5, <2>1 DEF MoveToDelete
<1>6. ASSUME NEW w \in Workers, CollectDeleted(w) PROVE PlaceInv'
  BY <1>2, <1>6 DEF CollectDeleted
<1>7. ASSUME NEW w \in Workers, CollectEmpty(w) PROVE PlaceInv'
  <2>1. PICK inactive \in SUBSET tree :
          /\ deleted' = [c \in Channels |-> deleted[c] \/ c \in inactive]
          /\ tree' = tree \ inactive
          /\ channels_trash' = channels_trash \cup inactive
    BY <1>7 DEF CollectEmpty
  <2>2. UNCHANGED <<channels_to_delete, freed, id>>
    BY <1>7 DEF CollectEmpty
  <2>3. \A c \in Channels : deleted'[c] <=> deleted[c] \/ c \in inactive
    BY <2>1
  <2>4. \A c \in Channels : c \in tree' <=> id'[c] # None /\ ~deleted'[c]
    BY <2>1, <2>2, <2>3
  <2> HIDE DEF TypeOK
  <2> QED
    BY <1>2, <2>1, <2>2, <2>3, <2>4
<1>8. ASSUME NEW w \in Workers, NEW c \in Channels, FreeChannel(w, c) PROVE PlaceInv'
  BY <1>2, <1>8 DEF FreeChannel
<1>9. ASSUME NEW r \in Requests, NEW w \in Workers, NEW i \in Ids,
             ValidateChannel(r, w, i) \/ FindForDelete(r, w, i)
      PROVE  UNCHANGED places
  BY <1>9 DEF ValidateChannel, FindForDelete
<1>10. ASSUME NEW r \in Requests,
              \/ AssignSubscription(r) \/ AssignFails(r) \/ Disconnect(r) \/ StoreMessage(r)
              \/ EnsureQtdOfMessages(r) \/ CountMessage(r)
       PROVE  UNCHANGED places
  BY <1>10 DEF AssignSubscription, AssignFails, Disconnect, StoreMessage, EnsureQtdOfMessages, CountMessage
<1>11. ASSUME NEW w \in Workers,
              \/ DeleteWorkerChannel(w) \/ MemoryCleanup(w) \/ CollectExpired(w)
              \/ CleanupDone(w) \/ Crash(w) \/ Respawn(w)
              \/ \E c \in Channels : RecountChannel(w, c)
       PROVE  UNCHANGED places
  BY <1>11 DEF DeleteWorkerChannel, MemoryCleanup, DeleteChannels, CollectExpired, CleanupDone,
               Crash, Respawn, RecountChannel
<1>12. ASSUME NEW r \in Requests,
              CreateOnSubscribe(r) \/ \E w \in Workers, i \in Ids : GetChannel(r, w, i)
       PROVE  PlaceInv'
  BY <1>3, <1>4, <1>12, Creation
<1> QED
  BY <1>3, <1>5, <1>6, <1>7, <1>8, <1>9, <1>10, <1>11, <1>12
     DEF Next, Arrival, Handle, Timer, vars

----------------------------------------------------------------------------
(* Counters, ids and limits of channels                                    *)

(* Taking a part away from a finite set, and adding it elsewhere.          *)
LEMMA Moving ==
  ASSUME NEW S, IsFiniteSet(S), NEW M \in SUBSET S
  PROVE  /\ Cardinality(M) \in Nat /\ Cardinality(M) <= Cardinality(S)
         /\ Cardinality(S \ M) = Cardinality(S) - Cardinality(M)
         /\ Decrement(Cardinality(S), Cardinality(M)) = Cardinality(S \ M)
<1>1. IsFiniteSet(M) /\ Cardinality(M) \in Nat /\ Cardinality(S) \in Nat
  BY FS_Subset, FS_CardinalityType
<1>2. Cardinality(M) <= Cardinality(S)
  BY FS_Subset
<1>3. Cardinality(S \ M) = Cardinality(S) - Cardinality(S \cap M)
  BY FS_Difference
<1>4. S \cap M = M
  OBVIOUS
<1> QED
  BY <1>1, <1>2, <1>3, <1>4, DecrementType

(* The size of a union of two sets apart.                                  *)
LEMMA Joining ==
  ASSUME NEW S, IsFiniteSet(S), NEW M, IsFiniteSet(M), S \cap M = {}
  PROVE  Cardinality(S \cup M) = Cardinality(S) + Cardinality(M)
<1>1. /\ Cardinality(S) \in Nat /\ Cardinality(M) \in Nat /\ Cardinality({}) = 0
  BY FS_CardinalityType, FS_EmptySet
<1>2. Cardinality(S \cup M) = Cardinality(S) + Cardinality(M) - Cardinality(S \cap M)
  BY FS_Union
<1>3. Cardinality(S \cap M) = 0
  BY <1>1
<1> QED
  BY <1>1, <1>2, <1>3

(* Every step counts the channels that it moves, once.                     *)
LEMMA CountersPreserved == IInv /\ [Next]_vars => ChannelCountersExact'
<1> SUFFICES ASSUME IInv, [Next]_vars PROVE ChannelCountersExact'
  OBVIOUS
<1> USE ConstantsAssumption DEF IInv, TypeOK, ChannelCountersExact
<1>1. /\ IsFiniteSet(tree) /\ IsFiniteSet(channels_to_delete) /\ IsFiniteSet(channels_trash)
  BY FS_Subset
<1>2. CASE UNCHANGED <<places, data>>
  BY <1>2 DEF places
<1>3. ASSUME NEW c \in Channels, NEW i \in Ids, InsertChannel(c, i) PROVE ChannelCountersExact'
  <2>1. c \notin tree
    BY <1>3, InsertKeeps
  <2>2. Cardinality(tree \cup {c}) = Cardinality(tree) + 1
    BY <1>1, <2>1, FS_AddElement
  <2> QED
    BY <1>3, <2>2 DEF InsertChannel
<1>4. ASSUME NEW r \in Requests, MarkDeleted(r) PROVE ChannelCountersExact'
  <2>1. CASE Deletable(channel[r]) /\ tree' = tree \ {channel[r]}
                                   /\ data' = [data EXCEPT !.channels = Decrement(@, 1)]
    <3>1. channel[r] \in tree
      BY <2>1 DEF Deletable, RequestInv, PlaceInv
    <3>2. Cardinality({channel[r]}) = 1
      BY FS_Singleton
    <3>3. Decrement(data.channels, 1) = Cardinality(tree \ {channel[r]})
      BY <1>1, <3>1, <3>2, Moving
    <3> QED
      BY <1>4, <2>1, <3>3 DEF MarkDeleted
  <2>2. CASE UNCHANGED <<tree, data>>
    BY <1>4, <2>2 DEF MarkDeleted
  <2> QED
    BY <1>4, <2>1, <2>2 DEF MarkDeleted
<1>5. ASSUME NEW r \in Requests, MoveToDelete(r) PROVE ChannelCountersExact'
  <2>1. channel[r] \notin channels_to_delete
    BY <1>5 DEF MoveToDelete, PlaceInv
  <2>2. Cardinality(channels_to_delete \cup {channel[r]}) = Cardinality(channels_to_delete) + 1
    BY <1>1, <2>1, FS_AddElement
  <2> QED
    BY <1>5, <2>2 DEF MoveToDelete
<1>6. ASSUME NEW w \in Workers, CollectDeleted(w) PROVE ChannelCountersExact'
  <2> DEFINE leaving == {c \in channels_to_delete : Releasable(c)}
             dropped == Total(stored, channels_to_delete)
  <2>1. leaving \in SUBSET channels_to_delete /\ IsFiniteSet(leaving)
    BY <1>1, FS_Subset
  <2>2. channels_trash \cap leaving = {}
    BY <2>1 DEF PlaceInv
  <2> HIDE DEF leaving, dropped
  <2>3. /\ tree' = tree
        /\ channels_to_delete' = channels_to_delete \ leaving
        /\ channels_trash' = channels_trash \cup leaving
        /\ data' = [data EXCEPT
                      !.stored_messages = Decrement(@, dropped),
                      !.channels_in_delete = Decrement(@, Cardinality(leaving)),
                      !.channels_in_trash = @ + Cardinality(leaving)]
    BY <1>6 DEF CollectDeleted, leaving, dropped
  <2>4. /\ data'.channels = data.channels
        /\ data'.channels_in_delete = Decrement(data.channels_in_delete, Cardinality(leaving))
        /\ data'.channels_in_trash = data.channels_in_trash + Cardinality(leaving)
    BY <2>3
  <2>5. /\ Decrement(Cardinality(channels_to_delete), Cardinality(leaving))
             = Cardinality(channels_to_delete \ leaving)
        /\ Cardinality(channels_trash \cup leaving)
             = Cardinality(channels_trash) + Cardinality(leaving)
    BY <1>1, <2>1, <2>2, Moving, Joining
  <2> QED
    BY <2>3, <2>4, <2>5
<1>7. ASSUME NEW w \in Workers, CollectEmpty(w) PROVE ChannelCountersExact'
  <2>1. PICK inactive \in SUBSET {c \in tree : Empty(c)} :
          /\ tree' = tree \ inactive
          /\ channels_trash' = channels_trash \cup inactive
          /\ data' = [data EXCEPT !.channels = Decrement(@, Cardinality(inactive)),
                                  !.channels_in_trash = @ + Cardinality(inactive)]
    BY <1>7 DEF CollectEmpty
  <2>2. inactive \in SUBSET tree /\ IsFiniteSet(inactive)
    BY <1>1, FS_Subset
  <2>3. channels_trash \cap inactive = {}
    BY <2>2 DEF PlaceInv
  <2>4. /\ data'.channels = Decrement(data.channels, Cardinality(inactive))
        /\ data'.channels_in_delete = data.channels_in_delete
        /\ data'.channels_in_trash = data.channels_in_trash + Cardinality(inactive)
    BY <2>1
  <2>5. channels_to_delete' = channels_to_delete
    BY <1>7 DEF CollectEmpty
  <2>6. /\ Decrement(Cardinality(tree), Cardinality(inactive)) = Cardinality(tree \ inactive)
        /\ Cardinality(channels_trash \cup inactive)
             = Cardinality(channels_trash) + Cardinality(inactive)
    BY <1>1, <2>2, <2>3, Moving, Joining
  <2> QED
    BY <2>1, <2>4, <2>5, <2>6
<1>8. ASSUME NEW w \in Workers, NEW c \in Channels, FreeChannel(w, c) PROVE ChannelCountersExact'
  <2>1. Cardinality({c}) = 1
    BY FS_Singleton
  <2>2. Decrement(data.channels_in_trash, 1) = Cardinality(channels_trash \ {c})
    <3>1. {c} \in SUBSET channels_trash
      BY <1>8 DEF FreeChannel
    <3> QED
      BY <1>1, <2>1, <3>1, Moving
  <2> QED
    BY <1>8, <2>2 DEF FreeChannel
<1>9. ASSUME NEW r \in Requests,
              CreateOnSubscribe(r) \/ \E w \in Workers, i \in Ids : GetChannel(r, w, i)
       PROVE  ChannelCountersExact'
  BY <1>2, <1>3, <1>9, Creation
<1>10. CASE UNCHANGED <<tree, channels_to_delete, channels_trash, data.channels,
                        data.channels_in_delete, data.channels_in_trash>>
  BY <1>10
<1>11. ASSUME NEW r \in Requests, CountMessage(r) PROVE ChannelCountersExact'
  BY <1>10, <1>11 DEF CountMessage, places
<1>12. ASSUME NEW w \in Workers, CollectExpired(w) PROVE ChannelCountersExact'
  <2>1. PICK expired : data' = [data EXCEPT !.stored_messages = Decrement(@, Total(expired, tree))]
    BY <1>12 DEF CollectExpired
  <2> QED
    BY <1>10, <1>12, <2>1 DEF CollectExpired, places
<1>13. ASSUME NEW r \in Requests, NEW w \in Workers, NEW i \in Ids,
              ValidateChannel(r, w, i) \/ FindForDelete(r, w, i)
       PROVE  UNCHANGED <<places, data>>
  BY <1>13 DEF ValidateChannel, FindForDelete
<1>14. ASSUME NEW r \in Requests,
              \/ AssignSubscription(r) \/ AssignFails(r) \/ Disconnect(r)
              \/ StoreMessage(r) \/ EnsureQtdOfMessages(r)
       PROVE  UNCHANGED <<places, data>>
  BY <1>14 DEF AssignSubscription, AssignFails, Disconnect, StoreMessage, EnsureQtdOfMessages
<1>15. ASSUME NEW w \in Workers,
              \/ DeleteWorkerChannel(w) \/ MemoryCleanup(w) \/ CleanupDone(w)
              \/ Crash(w) \/ Respawn(w) \/ \E c \in Channels : RecountChannel(w, c)
       PROVE  UNCHANGED <<places, data>>
  BY <1>15 DEF DeleteWorkerChannel, MemoryCleanup, DeleteChannels, CleanupDone, Crash, Respawn,
               RecountChannel
<1> QED
  BY <1>2, <1>4, <1>5, <1>6, <1>7, <1>8, <1>9, <1>11, <1>12, <1>13, <1>14, <1>15
     DEF Next, Arrival, Handle, Timer, vars

(* The tree grows by get_channel only, and otherwise loses channels other  *)
(* than that of the events.                                                *)
LEMMA TreeSteps ==
  ASSUME IInv, [Next]_vars
  PROVE  \/ tree' \subseteq tree /\ id' = id /\ (EventsChannel \in tree => EventsChannel \in tree')
         \/ \E c \in Channels, i \in Ids : InsertChannel(c, i) /\ Matches(i) = {}
<1> USE DEF IInv, TypeOK
<1> DEFINE Shrinks == tree' \subseteq tree /\ id' = id
                      /\ (EventsChannel \in tree => EventsChannel \in tree')
<1>1. CASE UNCHANGED <<tree, id>>
  BY <1>1
<1>2. ASSUME NEW r \in Requests, MarkDeleted(r) PROVE Shrinks
  <2>1. Deletable(channel[r]) => channel[r] # EventsChannel
    BY <1>2 DEF MarkDeleted, Deletable, RequestInv
  <2> QED
    BY <1>2, <2>1 DEF MarkDeleted
<1>3. ASSUME NEW w \in Workers, CollectEmpty(w) PROVE Shrinks
  BY <1>3 DEF CollectEmpty, Empty
<1>4. ASSUME NEW r \in Requests, NEW w \in Workers, NEW i \in Ids,
             ValidateChannel(r, w, i) \/ FindForDelete(r, w, i)
      PROVE  UNCHANGED <<tree, id>>
  BY <1>4 DEF ValidateChannel, FindForDelete, places
<1>5. ASSUME NEW r \in Requests,
             \/ AssignSubscription(r) \/ AssignFails(r) \/ Disconnect(r) \/ StoreMessage(r)
             \/ EnsureQtdOfMessages(r) \/ CountMessage(r) \/ MoveToDelete(r)
      PROVE  UNCHANGED <<tree, id>>
  BY <1>5 DEF AssignSubscription, AssignFails, Disconnect, StoreMessage, EnsureQtdOfMessages,
              CountMessage, MoveToDelete, places
<1>6. ASSUME NEW w \in Workers,
             \/ DeleteWorkerChannel(w) \/ MemoryCleanup(w) \/ CollectDeleted(w)
             \/ CollectExpired(w) \/ CleanupDone(w) \/ Crash(w) \/ Respawn(w)
      PROVE  UNCHANGED <<tree, id>>
  BY <1>6 DEF DeleteWorkerChannel, MemoryCleanup, DeleteChannels, CollectDeleted, CollectExpired,
              CleanupDone, Crash, Respawn, places
<1>7. ASSUME NEW w \in Workers, NEW c \in Channels, FreeChannel(w, c) \/ RecountChannel(w, c)
      PROVE  UNCHANGED <<tree, id>>
  BY <1>7 DEF FreeChannel, RecountChannel, places
<1>8. ASSUME UNCHANGED <<places, use, data>> PROVE UNCHANGED <<tree, id>>
  BY <1>8 DEF places
<1>9. ASSUME NEW r \in Requests,
             CreateOnSubscribe(r) \/ \E w \in Workers, i \in Ids : GetChannel(r, w, i)
      PROVE  \/ UNCHANGED <<tree, id>>
             \/ \E c \in Channels, i \in Ids : InsertChannel(c, i) /\ Matches(i) = {}
  BY <1>8, <1>9, Creation
<1> HIDE DEF Shrinks
<1> QED
  BY <1>1, <1>2, <1>3, <1>4, <1>5, <1>6, <1>7, <1>8, <1>9
     DEF Next, Arrival, Handle, Timer, vars, places, Shrinks

(* Every step keeps ids apart, the limit, and the channel of the events.   *)
LEMMA IdsPreserved ==
  IInv /\ [Next]_vars => OneChannelPerId' /\ EventsChannelStays' /\ WithinMaxChannels'
<1> SUFFICES ASSUME IInv, [Next]_vars
             PROVE  OneChannelPerId' /\ EventsChannelStays' /\ WithinMaxChannels'
  OBVIOUS
<1> USE ConstantsAssumption DEF IInv, TypeOK, OneChannelPerId, EventsChannelStays, WithinMaxChannels
<1>1. IsFiniteSet(tree) /\ Cardinality(tree) \in Nat
  BY FS_Subset, FS_CardinalityType
<1>2. CASE tree' \subseteq tree /\ id' = id /\ (EventsChannel \in tree => EventsChannel \in tree')
  <2>1. Cardinality(tree') \in Nat /\ Cardinality(tree') <= Cardinality(tree)
    BY <1>1, <1>2, FS_Subset, FS_CardinalityType
  <2> QED
    BY <1>1, <1>2, <2>1
<1>3. ASSUME NEW c \in Channels, NEW i \in Ids, InsertChannel(c, i), Matches(i) = {}
      PROVE  OneChannelPerId' /\ EventsChannelStays' /\ WithinMaxChannels'
  <2>1. id'[c] = i /\ c \notin tree /\ \A d \in Channels \ {c} : id'[d] = id[d]
    BY <1>3, InsertKeeps
  <2>2. tree' = tree \cup {c} /\ c \notin tree /\ Cardinality(tree) # MaxChannels
    BY <1>3, <2>1 DEF InsertChannel, BelowMaxChannels, ChannelCountersExact
  <2>3. \A d \in tree : id'[d] # i
    BY <1>3, <2>1, <2>2 DEF Matches
  <2>4. OneChannelPerId'
    BY <2>1, <2>2, <2>3
  <2>5. Cardinality(tree \cup {c}) = Cardinality(tree) + 1
    BY <1>1, <2>2, FS_AddElement
  <2> QED
    BY <1>1, <2>2, <2>4, <2>5
<1> QED
  BY <1>2, <1>3, TreeSteps

----------------------------------------------------------------------------
(* Subscribers                                                             *)

(* Nothing but a death or a late subscription changes what the history     *)
(* variables say, and they never go back.                                  *)
LEMMA FaultsStay ==
  ASSUME IInv, [Next]_vars
  PROVE  /\ stranded => stranded'
         /\ crashes' = crashes \/ crashes' # 0
         /\ (\A r \in Requests : ~AssignSubscription(r)) => stranded' = stranded
<1> DEFINE Stays == UNCHANGED <<stranded, crashes>>
<1>1. ASSUME NEW r \in Requests, NEW w \in Workers, NEW i \in Ids,
             ValidateChannel(r, w, i) \/ GetChannel(r, w, i) \/ FindForDelete(r, w, i)
      PROVE  Stays
  BY <1>1 DEF ValidateChannel, GetChannel, FindForDelete, faults
<1>2. ASSUME NEW r \in Requests, Disconnect(r) \/ StoreMessage(r) \/ MarkDeleted(r) PROVE Stays
  BY <1>2 DEF Disconnect, StoreMessage, MarkDeleted, faults
<1>3. ASSUME NEW r \in Requests,
             \/ CreateOnSubscribe(r) \/ AssignFails(r) \/ EnsureQtdOfMessages(r)
             \/ CountMessage(r) \/ MoveToDelete(r)
      PROVE  Stays
  BY <1>3 DEF CreateOnSubscribe, AssignFails, EnsureQtdOfMessages, CountMessage, MoveToDelete, faults
<1>4. ASSUME NEW w \in Workers, Timer(w) PROVE Stays
  BY <1>4 DEF Timer, DeleteWorkerChannel, MemoryCleanup, DeleteChannels, CollectDeleted,
              CollectExpired, CollectEmpty, FreeChannel, CleanupDone, faults
<1>5. ASSUME NEW w \in Workers, Respawn(w) \/ \E c \in Channels : RecountChannel(w, c) PROVE Stays
  BY <1>5 DEF Respawn, RecountChannel, faults
<1>6. ASSUME NEW w \in Workers, Crash(w) PROVE stranded' = stranded /\ crashes' # 0
  BY <1>6 DEF Crash, IInv, TypeOK
<1>7. ASSUME NEW r \in Requests, AssignSubscription(r)
      PROVE  (stranded => stranded') /\ crashes' = crashes
  BY <1>7 DEF AssignSubscription
<1>8. CASE UNCHANGED vars
  BY <1>8 DEF vars, faults
<1> QED
  BY <1>1, <1>2, <1>3, <1>4, <1>5, <1>6, <1>7, <1>8 DEF Next, Arrival, Handle

(* Only assing_subscription_to_channel makes a subscriber, a request that  *)
(* is over does nothing more, and one that leaves takes its subscription   *)
(* with it, unless its worker dies.                                        *)
SubscriberStays ==
  \A r \in Requests :
    /\ pc'[r] = "subscribed" => /\ pc[r] = "subscribed" /\ channel'[r] = channel[r]
                                /\ task'[worker'[r]] # "dead"
    /\ pc[r] \in {"subscribed", "done"} => pc'[r] \in {"subscribed", "done"}
    /\ pc[r] = "subscribed" => \/ pc'[r] = "subscribed" \/ crashes' # 0
                               \/ r \notin subscriptions'[channel[r]]

LEMMA SubscribersStay ==
  ASSUME IInv, [Next]_vars, \A r \in Requests : ~AssignSubscription(r)
  PROVE  SubscriberStays
<1> USE ConstantsAssumption DEF IInv, TypeOK, Goto, Continue, Return, Forget, locals, SubscriberStays
<1>1. \A r \in Requests :
        pc[r] = "subscribed" => /\ worker[r] \in Workers /\ task[worker[r]] # "dead"
                                /\ channel[r] \in Channels
  BY DEF RequestInv, LinkedInv, Pointing
<1>2. CASE UNCHANGED vars
  BY <1>1, <1>2 DEF vars
<1>3. ASSUME NEW q \in Requests, NEW w \in Workers, NEW i \in Ids,
             ValidateChannel(q, w, i) \/ GetChannel(q, w, i) \/ FindForDelete(q, w, i)
      PROVE  SubscriberStays
  BY <1>1, <1>3 DEF ValidateChannel, GetChannel, FindForDelete, Begin
<1>4. ASSUME NEW q \in Requests, StoreMessage(q) \/ MarkDeleted(q)
      PROVE  SubscriberStays
  <2>1. worker[q] \in Workers
    BY <1>4 DEF RequestInv, StoreMessage, MarkDeleted
  <2> QED
    BY <1>1, <1>4, <2>1 DEF StoreMessage, MarkDeleted
<1>5. ASSUME NEW q \in Requests, Handle(q) PROVE SubscriberStays
  <2>1. worker[q] \in Workers /\ pc[q] \in UnderWay
    BY <1>5 DEF RequestInv, UnderWay, Handle, CreateOnSubscribe, AssignFails, EnsureQtdOfMessages,
                CountMessage, MoveToDelete
  <2> QED
    BY <1>1, <1>5, <2>1 DEF Handle, CreateOnSubscribe, AssignFails, EnsureQtdOfMessages,
                            CountMessage, MoveToDelete
<1>6. ASSUME NEW w \in Workers, Timer(w) PROVE SubscriberStays
  <2>1. ASSUME NEW next \in {"idle", "collect_deleted"}, DeleteChannels(w, next)
        PROVE  SubscriberStays
    <3>1. /\ \A r \in Requests : pc'[r] = IF r \in Evicted(w) THEN "done" ELSE pc[r]
          /\ \A r \in Requests : channel'[r] = IF r \in Evicted(w) THEN None ELSE channel[r]
          /\ task' = [task EXCEPT ![w] = next] /\ worker' = worker
      BY <2>1 DEF DeleteChannels
    <3>2. \A r \in Evicted(w) : channel[r] \in Channels => r \notin subscriptions'[channel[r]]
      BY <2>1 DEF DeleteChannels
    <3> QED
      BY <1>1, <3>1, <3>2
  <2>2. CASE \/ CollectDeleted(w) \/ CollectExpired(w) \/ CollectEmpty(w) \/ CleanupDone(w)
             \/ \E c \in Channels : FreeChannel(w, c)
    <3>1. UNCHANGED <<pc, locals>>
      BY <2>2 DEF CollectDeleted, CollectExpired, CollectEmpty, CleanupDone, FreeChannel
    <3>2. \/ task' = task
          \/ \E t \in {"collect_expired", "collect_empty", "free", "idle"} :
               task' = [task EXCEPT ![w] = t]
      BY <2>2 DEF CollectDeleted, CollectExpired, CollectEmpty, CleanupDone, FreeChannel
    <3> QED
      BY <1>1, <3>1, <3>2
  <2> QED
    BY <1>6, <2>1, <2>2 DEF Timer, DeleteWorkerChannel, MemoryCleanup
<1>7. ASSUME NEW w \in Workers, Crash(w) PROVE SubscriberStays
  BY <1>1, <1>7 DEF Crash
<1>8. ASSUME NEW w \in Workers, Respawn(w) \/ \E c \in Channels : RecountChannel(w, c)
      PROVE  SubscriberStays
  BY <1>1, <1>8 DEF Respawn, RecountChannel
<1>9. ASSUME NEW q \in Requests, Disconnect(q) PROVE SubscriberStays
  <2>1. worker[q] \in Workers /\ channel[q] \in Channels
    BY <1>1, <1>9 DEF Disconnect
  <2> QED
    BY <1>1, <1>9, <2>1 DEF Disconnect
<1> QED
  BY <1>2, <1>3, <1>4, <1>5, <1>6, <1>7, <1>8, <1>9 DEF Next, Arrival

(* Only deaths leave a worker dead.                                        *)
LEMMA DeadStay ==
  ASSUME IInv, [Next]_vars, NEW w \in Workers, task'[w] = "dead"
  PROVE  task[w] = "dead" \/ crashes' # 0
<1> USE ConstantsAssumption DEF IInv, TypeOK, Goto, Continue, Return
<1>1. ASSUME NEW r \in Requests, Arrival(r) PROVE task[w] = "dead"
  BY <1>1 DEF Arrival, ValidateChannel, GetChannel, FindForDelete, Disconnect, StoreMessage,
              MarkDeleted
<1>2. ASSUME NEW r \in Requests, Handle(r) PROVE task[w] = "dead"
  BY <1>2 DEF Handle, CreateOnSubscribe, AssignSubscription, AssignFails, EnsureQtdOfMessages,
              CountMessage, MoveToDelete
<1>3. ASSUME NEW v \in Workers, NEW next \in {"idle", "collect_deleted"}, DeleteChannels(v, next)
      PROVE  task[w] = "dead"
  BY <1>3 DEF DeleteChannels
<1>4. ASSUME NEW v \in Workers,
             \/ CollectDeleted(v) \/ CollectExpired(v) \/ CollectEmpty(v) \/ CleanupDone(v)
             \/ Respawn(v) \/ \E c \in Channels : FreeChannel(v, c) \/ RecountChannel(v, c)
      PROVE  task[w] = "dead"
  <2>1. \/ task' = task
        \/ \E t \in {"collect_expired", "collect_empty", "free", "idle"} :
             task' = [task EXCEPT ![v] = t]
    <3>1. CASE CollectDeleted(v)
      BY <3>1, Zenon DEF CollectDeleted
    <3>2. CASE CollectExpired(v)
      BY <3>2, Zenon DEF CollectExpired
    <3>3. CASE CollectEmpty(v)
      BY <3>3, Zenon DEF CollectEmpty
    <3>4. CASE CleanupDone(v) \/ Respawn(v)
      BY <3>4, Zenon DEF CleanupDone, Respawn
    <3>5. CASE \E c \in Channels : FreeChannel(v, c) \/ RecountChannel(v, c)
      BY <3>5, Zenon DEF FreeChannel, RecountChannel
    <3> QED
      BY <1>4, <3>1, <3>2, <3>3, <3>4, <3>5
  <2> QED
    BY <2>1
<1>5. ASSUME NEW v \in Workers, Crash(v) PROVE crashes' # 0
  BY <1>5 DEF Crash
<1>6. CASE UNCHANGED vars
  BY <1>6 DEF vars
<1> QED
  BY <1>1, <1>2, <1>3, <1>4, <1>5, <1>6 DEF Next, Timer, DeleteWorkerChannel, MemoryCleanup

(* Links are made by assing_subscription_to_channel only.                  *)
LEMMA LinksStay ==
  ASSUME IInv, [Next]_vars, \A r \in Requests : ~AssignSubscription(r)
  PROVE  \A c \in Channels : subscriptions'[c] \subseteq subscriptions[c]
<1> USE DEF IInv, TypeOK
<1>1. CASE UNCHANGED subscriptions
  BY <1>1
<1>2. ASSUME NEW r \in Requests,
             \/ \E w \in Workers, i \in Ids : ValidateChannel(r, w, i) \/ FindForDelete(r, w, i)
             \/ MarkDeleted(r) \/ MoveToDelete(r) \/ CountMessage(r) \/ AssignFails(r)
             \/ StoreMessage(r) \/ EnsureQtdOfMessages(r)
      PROVE  UNCHANGED subscriptions
  BY <1>2 DEF ValidateChannel, FindForDelete, MarkDeleted, MoveToDelete, CountMessage, AssignFails,
              StoreMessage, EnsureQtdOfMessages, use
<1>3. ASSUME NEW w \in Workers,
             \/ CollectDeleted(w) \/ CollectExpired(w) \/ CollectEmpty(w) \/ CleanupDone(w)
             \/ Crash(w) \/ \E c \in Channels : FreeChannel(w, c) \/ RecountChannel(w, c)
      PROVE  UNCHANGED subscriptions
  BY <1>3 DEF CollectDeleted, CollectExpired, CollectEmpty, CleanupDone, Crash, FreeChannel,
              RecountChannel, use
<1>4. ASSUME NEW w \in Workers, NEW next, DeleteChannels(w, next) \/ Respawn(w)
      PROVE  \A c \in Channels : subscriptions'[c] \subseteq subscriptions[c]
  BY <1>4 DEF DeleteChannels, Respawn
<1>5. ASSUME NEW r \in Requests, Disconnect(r)
      PROVE  \A c \in Channels : subscriptions'[c] \subseteq subscriptions[c]
  BY <1>5 DEF Disconnect
<1>6. ASSUME NEW c \in Channels, NEW i \in Ids, InsertChannel(c, i)
      PROVE  \A d \in Channels : subscriptions'[d] \subseteq subscriptions[d]
  BY <1>6 DEF InsertChannel
<1>7. ASSUME NEW r \in Requests,
             CreateOnSubscribe(r) \/ \E w \in Workers, i \in Ids : GetChannel(r, w, i)
      PROVE  \/ UNCHANGED subscriptions
             \/ \E c \in Channels, i \in Ids : InsertChannel(c, i)
  BY <1>7, Creation DEF use
<1> QED
  BY <1>1, <1>2, <1>3, <1>4, <1>5, <1>6, <1>7
     DEF Next, Arrival, Handle, Timer, DeleteWorkerChannel, MemoryCleanup, vars, use

(* Every step leaves in the sentinels only subscribers, or requests that   *)
(* have been.                                                              *)
LEMMA LinkedPreserved == IInv /\ [Next]_vars => LinkedInv'
<1> SUFFICES ASSUME IInv, [Next]_vars PROVE LinkedInv'
  OBVIOUS
<1> USE ConstantsAssumption DEF IInv, TypeOK
<1>1. ASSUME NEW r \in Requests, AssignSubscription(r) PROVE LinkedInv'
  <2>1. channel[r] \in Channels /\ pc[r] = "assign" /\ worker[r] \in Workers
    BY <1>1 DEF AssignSubscription, RequestInv, Pointing
  <2>2. \A c \in Channels : r \notin subscriptions[c]
    BY <2>1 DEF LinkedInv
  <2>3. /\ subscriptions' = [subscriptions EXCEPT ![channel[r]] = @ \cup {r}]
        /\ pc' = [pc EXCEPT ![r] = "subscribed"] /\ task' = [task EXCEPT ![worker[r]] = "idle"]
        /\ UNCHANGED <<channel, worker, crashes>>
    BY <1>1 DEF AssignSubscription, Return, Goto, locals
  <2> QED
    BY <2>1, <2>2, <2>3 DEF LinkedInv, RequestInv
<1> SUFFICES ASSUME \A r \in Requests : ~AssignSubscription(r) PROVE LinkedInv'
  BY <1>1
<1>2. SubscriberStays
  BY SubscribersStay
<1>3. \A c \in Channels : subscriptions'[c] \subseteq subscriptions[c]
  BY LinksStay
<1>4. \A w \in Workers : task'[w] = "dead" => crashes' # 0
  BY FaultsStay, DeadStay DEF LinkedInv
<1>5. /\ \A c \in Channels : \A r \in subscriptions'[c] :
           /\ pc'[r] \in {"subscribed", "done"}
           /\ pc'[r] = "subscribed" => channel'[r] = c
      /\ \A r \in Requests : pc'[r] = "subscribed" => task'[worker'[r]] # "dead"
  BY <1>2, <1>3 DEF LinkedInv, SubscriberStays
<1> QED
  BY <1>4, <1>5 DEF LinkedInv

(* Every step counts those it links, as long as nobody enters a released   *)
(* channel.                                                                *)
LEMMA CountedPreserved == IInv /\ [Next]_vars => CountedInv'
<1> SUFFICES ASSUME IInv, [Next]_vars, ~stranded' PROVE CountedInv'
  BY DEF CountedInv
<1> USE ConstantsAssumption DEF IInv, TypeOK
<1>1. ~stranded /\ (crashes' = 0 => crashes = 0)
  BY FaultsStay
<1>2. \A c \in Channels : IsFiniteSet(subscriptions[c]) /\ Cardinality(subscriptions[c]) \in Nat
  BY FS_Subset, FS_CardinalityType
<1>3. \A r \in Requests : pc[r] = "subscribed" => channel[r] \in Channels
  BY DEF RequestInv, Pointing
<1>4. ASSUME NEW r \in Requests, AssignSubscription(r) PROVE CountedInv'
  <2>1. channel[r] \in Channels /\ pc[r] = "assign"
    BY <1>4 DEF AssignSubscription, RequestInv, Pointing
  <2>2. \A c \in Channels : r \notin subscriptions[c]
    BY <2>1 DEF LinkedInv
  <2>3. /\ subscribers' = [subscribers EXCEPT ![channel[r]] = @ + 1]
        /\ subscriptions' = [subscriptions EXCEPT ![channel[r]] = @ \cup {r}]
        /\ pc' = [pc EXCEPT ![r] = "subscribed"]
        /\ channel[r] \notin channels_trash \cup freed
        /\ UNCHANGED <<channel, channels_trash, freed>>
    BY <1>4 DEF AssignSubscription, Return, Goto, places, locals
  <2>4. Cardinality(subscriptions[channel[r]] \cup {r}) = Cardinality(subscriptions[channel[r]]) + 1
    BY <1>2, <2>1, <2>2, FS_AddElement
  <2>5. \A q \in Requests :
          pc'[q] = "subscribed" => /\ q \in subscriptions'[channel'[q]]
                                   /\ channel'[q] \notin channels_trash' \cup freed'
    BY <1>1, <1>3, <2>1, <2>3 DEF CountedInv
  <2>6. ASSUME NEW c \in Channels
        PROVE  /\ Cardinality(subscriptions'[c]) <= subscribers'[c]
               /\ crashes' = 0 => subscribers'[c] = Cardinality(subscriptions'[c])
    <3>1. CASE c = channel[r]
      BY <1>1, <1>2, <2>1, <2>3, <2>4, <3>1 DEF CountedInv
    <3>2. CASE c # channel[r]
      BY <1>1, <2>3, <3>2 DEF CountedInv
    <3> QED
      BY <3>1, <3>2
  <2>7. crashes' = 0 => \A c \in Channels : \A q \in subscriptions'[c] : pc'[q] = "subscribed"
    BY <1>1, <2>1, <2>3 DEF CountedInv
  <2> QED
    BY <2>5, <2>6, <2>7 DEF CountedInv
<1> SUFFICES ASSUME \A r \in Requests : ~AssignSubscription(r) PROVE CountedInv'
  BY <1>4
<1>5. SubscriberStays /\ \A c \in Channels : subscriptions'[c] \subseteq subscriptions[c]
  BY SubscribersStay, LinksStay
<1>6. crashes' = 0 => \A c \in Channels : \A r \in subscriptions'[c] : pc'[r] = "subscribed"
  BY <1>1, <1>5 DEF CountedInv, LinkedInv, SubscriberStays
<1> DEFINE Linked == \A r \in Requests : pc'[r] = "subscribed" => r \in subscriptions'[channel[r]]
           Kept == \A r \in Requests :
                     pc'[r] = "subscribed" => channel[r] \notin channels_trash' \cup freed'
           Counted == \A c \in Channels :
                        /\ Cardinality(subscriptions'[c]) <= subscribers'[c]
                        /\ crashes' = 0 => subscribers'[c] = Cardinality(subscriptions'[c])
<1>7. ASSUME Linked, Kept, Counted PROVE CountedInv'
  BY <1>5, <1>6, <1>7 DEF CountedInv, SubscriberStays
<1>8. ASSUME NEW r \in Requests, pc'[r] = "subscribed"
      PROVE  /\ pc[r] = "subscribed" /\ r \in subscriptions[channel[r]] /\ channel[r] \in Channels
             /\ channel[r] \notin channels_trash \cup freed
  BY <1>1, <1>3, <1>5, <1>8 DEF CountedInv, SubscriberStays
<1>9. ASSUME UNCHANGED <<subscribers, subscriptions>> PROVE Linked /\ Counted
  BY <1>1, <1>8, <1>9 DEF CountedInv
<1>10. ASSUME UNCHANGED <<channels_trash, freed>> PROVE Kept
  BY <1>8, <1>10
<1>11. ASSUME NEW r \in Requests, Disconnect(r) PROVE Linked /\ Kept /\ Counted
  <2>1. /\ channel[r] \in Channels /\ r \in subscriptions[channel[r]]
        /\ pc[r] = "subscribed" /\ pc'[r] = "done"
    BY <1>1, <1>3, <1>11 DEF Disconnect, CountedInv, Goto
  <2>2. /\ subscribers' = [subscribers EXCEPT ![channel[r]] = Decrement(@, 1)]
        /\ subscriptions' = [subscriptions EXCEPT ![channel[r]] = @ \ {r}]
        /\ UNCHANGED <<channels_trash, freed>>
    BY <1>11 DEF Disconnect, places
  <2> DEFINE linked == subscriptions[channel[r]]
  <2> HIDE DEF linked
  <2>3. /\ Cardinality(linked \ {r}) = Cardinality(linked) - 1
        /\ Cardinality(linked \ {r}) \in Nat
    <3>1. IsFiniteSet(linked) /\ r \in linked
      BY <1>2, <2>1 DEF linked
    <3> QED
      BY <3>1, FS_RemoveElement, FS_CardinalityType
  <2> USE DEF linked
  <2>5. ASSUME NEW c \in Channels
        PROVE  /\ Cardinality(subscriptions'[c]) <= subscribers'[c]
               /\ crashes' = 0 => subscribers'[c] = Cardinality(subscriptions'[c])
    <3>1. /\ Cardinality(subscriptions[c]) <= subscribers[c]
          /\ crashes = 0 => subscribers[c] = Cardinality(subscriptions[c])
      BY <1>1 DEF CountedInv
    <3>2. CASE c = channel[r]
      <4>1. Decrement(subscribers[c], 1) = subscribers[c] - 1
        BY <1>2, <2>3, <3>1, <3>2 DEF Decrement
      <4> QED
        BY <1>1, <1>2, <2>2, <2>3, <3>1, <3>2, <4>1
    <3>3. CASE c # channel[r]
      BY <1>1, <2>2, <3>1, <3>3
    <3> QED
      BY <3>2, <3>3
  <2>6. Linked
    BY <1>8, <2>1, <2>2
  <2> QED
    BY <1>10, <2>2, <2>5, <2>6
<1>12. ASSUME NEW w \in Workers, NEW next, DeleteChannels(w, next) PROVE Linked /\ Kept /\ Counted
  <2> DEFINE gone(c) == {r \in Evicted(w) : channel[r] = c}
  <2>1. /\ subscribers' = [c \in Channels |-> Decrement(subscribers[c], Cardinality(gone(c)))]
        /\ subscriptions' = [c \in Channels |-> subscriptions[c] \ gone(c)]
        /\ UNCHANGED <<channels_trash, freed>>
    BY <1>12 DEF DeleteChannels, places
  <2>2. \A r \in Evicted(w) : pc'[r] = "done"
    BY <1>12 DEF DeleteChannels, Evicted, Doomed
  <2>3. \A c \in Channels : gone(c) \in SUBSET subscriptions[c] /\ gone(c) \in SUBSET Evicted(w)
    BY DEF Evicted, Doomed
  <2> HIDE DEF gone
  <2>4. ASSUME NEW c \in Channels
        PROVE  /\ Cardinality(subscriptions'[c]) <= subscribers'[c]
               /\ crashes' = 0 => subscribers'[c] = Cardinality(subscriptions'[c])
    <3>1. /\ Cardinality(subscriptions[c]) <= subscribers[c]
          /\ crashes = 0 => subscribers[c] = Cardinality(subscriptions[c])
      BY <1>1 DEF CountedInv
    <3>2. /\ Cardinality(gone(c)) \in Nat /\ Cardinality(gone(c)) <= Cardinality(subscriptions[c])
          /\ Cardinality(subscriptions[c] \ gone(c))
               = Cardinality(subscriptions[c]) - Cardinality(gone(c))
      BY <1>2, <2>3, Moving
    <3>3. subscribers'[c] = subscribers[c] - Cardinality(gone(c))
      BY <1>2, <2>1, <3>1, <3>2, DecrementType
    <3>4. subscriptions'[c] = subscriptions[c] \ gone(c)
      BY <2>1
    <3> QED
      BY <1>1, <1>2, <3>1, <3>2, <3>3, <3>4
  <2>5. Linked
    BY <1>8, <2>1, <2>2, <2>3
  <2> QED
    BY <1>10, <2>1, <2>4, <2>5
<1>13. ASSUME NEW w \in Workers, Respawn(w) PROVE Linked /\ Kept /\ Counted
  <2>1. /\ subscriptions' = [c \in Channels |-> IF c \in tree
                                                THEN {r \in subscriptions[c] : worker[r] # w}
                                                ELSE subscriptions[c]]
        /\ task[w] = "dead" /\ UNCHANGED <<channels_trash, freed, subscribers, crashes>>
    BY <1>13 DEF Respawn, places, faults
  <2>2. crashes # 0
    BY <2>1 DEF LinkedInv
  <2>3. \A r \in Requests : pc[r] = "subscribed" => worker[r] # w
    BY <2>1 DEF LinkedInv
  <2>4. Linked
    BY <1>8, <2>1, <2>3
  <2>5. ASSUME NEW c \in Channels PROVE Cardinality(subscriptions'[c]) <= subscribers'[c]
    <3>1. subscriptions'[c] \subseteq subscriptions[c]
      BY <1>5
    <3>2. /\ Cardinality(subscriptions'[c]) <= Cardinality(subscriptions[c])
          /\ Cardinality(subscriptions'[c]) \in Nat
      BY <1>2, <3>1, FS_Subset, FS_CardinalityType
    <3> QED
      BY <1>1, <1>2, <2>1, <3>2 DEF CountedInv
  <2> QED
    BY <1>10, <2>1, <2>2, <2>4, <2>5
<1>14. ASSUME NEW w \in Workers, NEW d \in Channels, RecountChannel(w, d)
       PROVE  Linked /\ Kept /\ Counted
  <2>1. /\ subscribers' = [subscribers EXCEPT ![d] = Cardinality(subscriptions[d])]
        /\ UNCHANGED <<subscriptions, channels_trash, freed>>
    BY <1>14 DEF RecountChannel, places
  <2>2. Counted
    BY <1>1, <1>2, <2>1 DEF CountedInv
  <2>3. Linked
    BY <1>8, <2>1
  <2> QED
    BY <1>10, <2>1, <2>2, <2>3
<1>15. ASSUME NEW d \in Channels, NEW i \in Ids, InsertChannel(d, i) PROVE Linked /\ Kept /\ Counted
  <2>1. /\ subscribers' = [subscribers EXCEPT ![d] = 0]
        /\ subscriptions' = [subscriptions EXCEPT ![d] = {}]
        /\ freed' = freed \ {d} /\ channels_trash' = channels_trash
    BY <1>15 DEF InsertChannel
  <2>2. ASSUME NEW r \in Requests, pc'[r] = "subscribed" PROVE channel[r] # d
    <3>1. channel[r] \in Channels /\ channel[r] \notin freed
      BY <1>8, <2>2
    <3>2. id[channel[r]] # None
      BY <3>1 DEF RequestInv
    <3>3. id[d] = None \/ d \in freed
      BY <1>15, InsertKeeps
    <3> QED
      BY <3>1, <3>2, <3>3
  <2>3. Linked /\ Kept
    BY <1>8, <2>1, <2>2
  <2>4. ASSUME NEW c \in Channels
        PROVE  /\ Cardinality(subscriptions'[c]) <= subscribers'[c]
               /\ crashes' = 0 => subscribers'[c] = Cardinality(subscriptions'[c])
    <3>1. CASE c = d
      BY <2>1, <3>1, FS_EmptySet
    <3>2. CASE c # d
      BY <1>1, <2>1, <3>2 DEF CountedInv
    <3> QED
      BY <3>1, <3>2
  <2> QED
    BY <2>3, <2>4
<1>16. ASSUME NEW w \in Workers, CollectDeleted(w) PROVE Linked /\ Kept /\ Counted
  <2>1. /\ UNCHANGED <<subscribers, subscriptions, freed>>
        /\ channels_trash' = channels_trash \cup {c \in channels_to_delete : subscribers[c] = 0}
    BY <1>16 DEF CollectDeleted, Releasable
  <2>2. \A r \in Requests : pc'[r] = "subscribed" => subscribers[channel[r]] # 0
    BY <1>1, <1>2, <1>8, FS_EmptySet DEF CountedInv
  <2>3. Kept
    BY <1>8, <2>1, <2>2
  <2> QED
    BY <1>9, <2>1, <2>3
<1>17. ASSUME NEW w \in Workers, CollectEmpty(w) PROVE Linked /\ Kept /\ Counted
  <2>1. /\ UNCHANGED <<subscribers, subscriptions, freed>>
        /\ channels_trash' \subseteq channels_trash \cup {c \in Channels : subscribers[c] = 0}
    BY <1>17 DEF CollectEmpty, Empty
  <2>2. \A r \in Requests : pc'[r] = "subscribed" => subscribers[channel[r]] # 0
    BY <1>1, <1>2, <1>8, FS_EmptySet DEF CountedInv
  <2>3. Kept
    BY <1>8, <2>1, <2>2
  <2> QED
    BY <1>9, <2>1, <2>3
<1>18. ASSUME NEW w \in Workers, NEW c \in Channels, FreeChannel(w, c)
       PROVE  Linked /\ Kept /\ Counted
  <2>1. /\ c \in channels_trash /\ freed' = freed \cup {c} /\ channels_trash' = channels_trash \ {c}
        /\ UNCHANGED <<subscribers, subscriptions>>
    BY <1>18 DEF FreeChannel, use
  <2>2. Kept
    BY <1>8, <2>1
  <2> QED
    BY <1>9, <2>1, <2>2
<1>19. ASSUME NEW r \in Requests, NEW w \in Workers, NEW i \in Ids,
              ValidateChannel(r, w, i) \/ FindForDelete(r, w, i)
       PROVE  UNCHANGED <<places, use>>
  BY <1>19 DEF ValidateChannel, FindForDelete
<1>20. ASSUME NEW r \in Requests,
              MarkDeleted(r) \/ MoveToDelete(r) \/ CountMessage(r) \/ AssignFails(r)
       PROVE  UNCHANGED <<subscribers, subscriptions, channels_trash, freed>>
  BY <1>20 DEF MarkDeleted, MoveToDelete, CountMessage, AssignFails, use, places
<1>21. ASSUME NEW r \in Requests, StoreMessage(r) \/ EnsureQtdOfMessages(r)
       PROVE  UNCHANGED <<subscribers, subscriptions, channels_trash, freed>>
  BY <1>21 DEF StoreMessage, EnsureQtdOfMessages, places
<1>22. ASSUME NEW w \in Workers, CollectExpired(w) \/ CleanupDone(w) \/ Crash(w)
       PROVE  UNCHANGED <<subscribers, subscriptions, channels_trash, freed>>
  BY <1>22 DEF CollectExpired, CleanupDone, Crash, use, places
<1>23. ASSUME UNCHANGED <<places, use>>
       PROVE  UNCHANGED <<subscribers, subscriptions, channels_trash, freed>>
  BY <1>23 DEF use, places
<1>24. ASSUME NEW r \in Requests,
              CreateOnSubscribe(r) \/ \E w \in Workers, i \in Ids : GetChannel(r, w, i)
       PROVE  \/ UNCHANGED <<places, use>>
              \/ \E c \in Channels, i \in Ids : InsertChannel(c, i)
  BY <1>24, Creation
<1> HIDE DEF Linked, Kept, Counted
<1> QED
  BY <1>7, <1>9, <1>10, <1>11, <1>12, <1>13, <1>14, <1>15, <1>16, <1>17, <1>18, <1>19, <1>20,
     <1>21, <1>22, <1>23, <1>24
     DEF Next, Arrival, Handle, Timer, DeleteWorkerChannel, MemoryCleanup, vars

----------------------------------------------------------------------------
(* The limit of subscribers                                                *)

(* Handlers under way are in different workers.                            *)
LEMMA InDifferentWorkers ==
  ASSUME NEW S \in SUBSET Requests, NEW f \in [Requests -> Workers \cup {None}], NEW t,
         \A r \in S : f[r] \in Workers /\ t[f[r]] = r
  PROVE  IsFiniteSet(S) /\ Cardinality(S) \in Nat /\ Cardinality(S) <= Cardinality(Workers)
<1> DEFINE g == [r \in S |-> f[r]]
<1>1. g \in [S -> Workers]
  OBVIOUS
<1>2. \A q, r \in S : g[q] = g[r] => q = r
  OBVIOUS
<1>3. g \in Injection(S, Workers)
  BY <1>1, <1>2 DEF Injection, IsInjective
<1> QED
  BY <1>3, FS_Injection, FS_CardinalityType, ConstantsAssumption

(* So not more requests are admitted than there are workers.               *)
LEMMA FewAdmitted ==
  ASSUME IInv, NEW c \in Channels
  PROVE  /\ IsFiniteSet(Admitted(c)) /\ Cardinality(Admitted(c)) \in Nat
         /\ Cardinality(Admitted(c)) <= Cardinality(Workers)
<1>1. /\ Admitted(c) \in SUBSET Requests
      /\ worker \in [Requests -> Workers \cup {None}]
      /\ \A r \in Admitted(c) : worker[r] \in Workers /\ task[worker[r]] = r
  BY DEF Admitted, IInv, TypeOK, RequestInv, UnderWay
<1> QED
  BY <1>1, InDifferentWorkers

(* The channel that a step leaves with no more subscribers and no more     *)
(* requests admitted than before is within its limit.                      *)
LEMMA NotMoreAdmitted ==
  ASSUME IInv, AdmittedInv, ~stranded, NEW c \in Channels, subscribers'[c] \in Nat,
         subscribers'[c] <= subscribers[c], Admitted(c)' \subseteq Admitted(c)
  PROVE  (subscribers[c] + Cardinality(Admitted(c)) <= MaxSubscribers + Cardinality(Workers) - 1)'
<1>1. IsFiniteSet(Admitted(c)) /\ Cardinality(Admitted(c)) \in Nat
  BY FewAdmitted
<1>2. Cardinality(Admitted(c)') \in Nat /\ Cardinality(Admitted(c)') <= Cardinality(Admitted(c))
  BY <1>1, FS_Subset, FS_CardinalityType
<1>3. Cardinality(Workers) \in Nat /\ subscribers[c] \in Nat /\ MaxSubscribers \in Nat
  BY FS_CardinalityType, ConstantsAssumption DEF IInv, TypeOK
<1> QED
  BY <1>1, <1>2, <1>3 DEF AdmittedInv

(* So is a channel with room for one more, since as many requests can be   *)
(* under way as there are workers.                                         *)
LEMMA RoomForAll ==
  ASSUME IInv', NEW c \in Channels, subscribers'[c] < MaxSubscribers
  PROVE  (subscribers[c] + Cardinality(Admitted(c)) <= MaxSubscribers + Cardinality(Workers) - 1)'
<1>1. /\ Admitted(c)' \in SUBSET Requests
      /\ worker' \in [Requests -> Workers \cup {None}]
      /\ \A r \in Admitted(c)' : worker'[r] \in Workers /\ task'[worker'[r]] = r
  BY DEF Admitted, IInv, TypeOK, RequestInv, UnderWay
<1>2. Cardinality(Admitted(c)') \in Nat /\ Cardinality(Admitted(c)') <= Cardinality(Workers)
  <2> HIDE DEF Admitted
  <2> QED
    BY <1>1, InDifferentWorkers
<1>3. Cardinality(Workers) \in Nat /\ subscribers'[c] \in Nat /\ MaxSubscribers \in Nat
  BY FS_CardinalityType, ConstantsAssumption DEF IInv, TypeOK
<1> QED
  BY <1>2, <1>3

(* Steps other than those of a subscription that begins.                   *)
NoneAdmitted ==
  \A q \in Requests : pc'[q] \in {"assign", "create"} =>
    pc'[q] = pc[q] /\ channel'[q] = channel[q] /\ wanted'[q] = wanted[q]

(* Every step keeps the bound on subscribers and admitted requests.        *)
LEMMA AdmittedPreserved == IInv /\ IInv' /\ AdmittedInv /\ [Next]_vars => AdmittedInv'
<1> DEFINE Within(c) ==
      subscribers[c] + Cardinality(Admitted(c)) <= MaxSubscribers + Cardinality(Workers) - 1
<1> SUFFICES ASSUME IInv, IInv', AdmittedInv, [Next]_vars, ~stranded'
             PROVE  \A c \in Channels : Within(c)'
  BY DEF AdmittedInv
<1> USE ConstantsAssumption
<1>0. ~stranded
  BY FaultsStay
<1>1. subscribers \in [Channels -> Nat] /\ subscribers' \in [Channels -> Nat] /\ tree \subseteq Channels
  BY DEF IInv, TypeOK
<1>2. ASSUME NoneAdmitted, UNCHANGED <<tree, id>> \/ (tree' \subseteq tree /\ id' = id),
             \A c \in Channels : subscribers'[c] <= subscribers[c]
      PROVE  \A c \in Channels : Within(c)'
  <2>1. ASSUME NEW c \in Channels PROVE Admitted(c)' \subseteq Admitted(c)
    BY <1>2 DEF NoneAdmitted, Admitted
  <2> QED
    BY <1>1, <1>2, <2>1, <1>0, NotMoreAdmitted
<1>3. ASSUME NEW r \in Requests, NEW w \in Workers, NEW i \in Ids, ValidateChannel(r, w, i)
      PROVE  \A c \in Channels : Within(c)'
  <2>1. \/ FindChannel(i) = None /\ Matches(i) = {}
        \/ FindChannel(i) \in Channels
    BY <1>1, Found
  <2>2. UNCHANGED <<tree, id, subscribers>> /\ pc[r] = "new" /\ pc \in [Requests -> Labels]
    BY <1>3 DEF ValidateChannel, Begin, places, use, IInv, TypeOK
  <2>3. ASSUME NEW c \in Channels, c # FindChannel(i) \/ ~Admits(c) PROVE Admitted(c)' \subseteq Admitted(c)
    <3>1. CASE FindChannel(i) = None
      BY <1>3, <2>1, <2>2, <3>1
         DEF ValidateChannel, Admitted, Matches, Continue, Goto, IInv, TypeOK
    <3>2. CASE FindChannel(i) # None
      BY <1>3, <2>2, <2>3, <3>2
         DEF ValidateChannel, Admitted, Continue, Return, Goto, IInv, TypeOK
    <3> QED
      BY <3>1, <3>2
  <2>4. ASSUME NEW c \in Channels, Admits(c) PROVE subscribers'[c] < MaxSubscribers
    BY <2>2, <2>4 DEF Admits
  <2>5. \A c \in Channels : subscribers'[c] <= subscribers[c] /\ subscribers'[c] \in Nat
    BY <1>1, <2>2
  <2> QED
    BY <2>3, <2>4, <2>5, <1>0, NotMoreAdmitted, RoomForAll
<1>4. ASSUME NEW r \in Requests,
             CreateOnSubscribe(r) \/ \E w \in Workers, i \in Ids : GetChannel(r, w, i),
             NEW d \in Channels, NEW j \in Ids, InsertChannel(d, j)
      PROVE  \A c \in Channels : Within(c)'
  <2>1. /\ \A c \in Channels \ {d} : id'[c] = id[c]
        /\ tree' = tree \cup {d} /\ d \notin tree
        /\ subscribers' = [subscribers EXCEPT ![d] = 0]
    BY <1>4, InsertKeeps DEF InsertChannel
  <2>2. subscribers'[d] < MaxSubscribers
    BY <1>1, <2>1
  <2>3. \A q \in Requests : /\ pc'[q] = "create" => pc[q] = "create" /\ wanted'[q] = wanted[q]
                            /\ pc'[q] = "assign" => \/ pc[q] = "assign" /\ channel'[q] = channel[q]
                                                    \/ channel'[q] = d
    <3>1. tree' # tree
      BY <2>1
    <3>2. ~UNCHANGED <<places, use, data>>
      BY <3>1 DEF places
    <3>3. \A c \in Channels, i \in Ids : InsertChannel(c, i) => c = d
      BY <2>1, InsertKeeps DEF InsertChannel
    <3>4. ASSUME CreateOnSubscribe(r)
          PROVE  /\ pc' = [pc EXCEPT ![r] = "assign"] /\ channel' = [channel EXCEPT ![r] = d]
                 /\ wanted' = [wanted EXCEPT ![r] = None]
      <4>1. wanted[r] \in Ids
        BY <3>4 DEF CreateOnSubscribe, IInv, RequestInv
      <4>2. FindChannel(wanted[r]) = None
        BY <3>2, <3>4 DEF CreateOnSubscribe
      <4> QED
        BY <3>1, <3>2, <3>3, <3>4, <4>1, <4>2 DEF CreateOnSubscribe, Continue, Goto, places
    <3>5. ASSUME NEW w \in Workers, NEW i \in Ids, GetChannel(r, w, i)
          PROVE  pc' = [pc EXCEPT ![r] = "body"] /\ channel' = [channel EXCEPT ![r] = d]
                 /\ wanted' = wanted
      BY <3>2, <3>3, <3>5 DEF GetChannel, Return, Goto
    <3> QED
      BY <1>4, <3>4, <3>5 DEF IInv, TypeOK
  <2>4. ASSUME NEW c \in Channels \ {d} PROVE Admitted(c)' \subseteq Admitted(c)
    BY <2>1, <2>3 DEF Admitted
  <2>5. \A c \in Channels : subscribers'[c] <= subscribers[c] /\ subscribers'[c] \in Nat
    BY <1>1, <2>1
  <2> QED
    BY <2>2, <2>4, <2>5, <1>0, NotMoreAdmitted, RoomForAll
<1>5. ASSUME NEW r \in Requests, CreateOnSubscribe(r), UNCHANGED <<places, use, data>>
      PROVE  \A c \in Channels : Within(c)'
  <2>1. UNCHANGED <<tree, id, subscribers>> /\ pc[r] = "create" /\ wanted[r] \in Ids
    BY <1>5 DEF CreateOnSubscribe, places, use, IInv, RequestInv
  <2>2. \/ FindChannel(wanted[r]) = None
        \/ FindChannel(wanted[r]) \in tree /\ id[FindChannel(wanted[r])] = wanted[r]
    BY <1>1, Found
  <2>3. ASSUME NEW c \in Channels, NEW i \in Ids, InsertChannel(c, i) PROVE FALSE
    BY <2>1, <2>3, InsertKeeps
  <2>4. /\ wanted' = [wanted EXCEPT ![r] = None]
        /\ \/ pc' = [pc EXCEPT ![r] = "done"] /\ channel' = channel
           \/ /\ pc' = [pc EXCEPT ![r] = "assign"]
              /\ channel' = [channel EXCEPT ![r] = FindChannel(wanted[r])]
              /\ FindChannel(wanted[r]) # None
    BY <1>5, <2>1, <2>3 DEF CreateOnSubscribe, Continue, Return, Goto
  <2>5. ASSUME NEW c \in Channels PROVE Admitted(c)' \subseteq Admitted(c)
    BY <2>1, <2>2, <2>4 DEF Admitted, IInv, TypeOK
  <2> QED
    BY <1>1, <2>1, <2>5, <1>0, NotMoreAdmitted
<1>6. ASSUME NEW r \in Requests, AssignSubscription(r) PROVE \A c \in Channels : Within(c)'
  <2>1. /\ UNCHANGED <<tree, id, channel, wanted>> /\ pc[r] = "assign"
        /\ subscribers' = [subscribers EXCEPT ![channel[r]] = @ + 1]
        /\ pc' = [pc EXCEPT ![r] = "subscribed"] /\ channel[r] \in Channels
    BY <1>6 DEF AssignSubscription, Return, Goto, places, locals, IInv, RequestInv, Pointing
  <2>2. ASSUME NEW c \in Channels PROVE Admitted(c)' = Admitted(c) \ {r}
    BY <2>1 DEF Admitted, IInv, TypeOK
  <2>3. r \in Admitted(channel[r])
    BY <2>1 DEF Admitted
  <2>4. Cardinality(Admitted(channel[r])') = Cardinality(Admitted(channel[r])) - 1
    BY <2>1, <2>2, <2>3, FewAdmitted, FS_RemoveElement
  <2>5. Within(channel[r])'
    <3>1. /\ Cardinality(Admitted(channel[r])) \in Nat /\ Cardinality(Workers) \in Nat
          /\ MaxSubscribers \in Nat /\ subscribers[channel[r]] \in Nat
      BY <1>1, <2>1, FewAdmitted, FS_CardinalityType
    <3>2. subscribers'[channel[r]] = subscribers[channel[r]] + 1 /\ channel' = channel
      BY <1>1, <2>1
    <3>3. Within(channel[r])
      BY <1>0, <2>1 DEF AdmittedInv
    <3> HIDE DEF Admitted
    <3> QED
      BY <2>4, <3>1, <3>2, <3>3
  <2>6. ASSUME NEW c \in Channels \ {channel[r]} PROVE Within(c)'
    BY <1>1, <2>1, <2>2, <1>0, NotMoreAdmitted
  <2> QED
    BY <2>1, <2>5, <2>6
<1>7. ASSUME NEW w \in Workers, NEW next \in {"idle", "collect_deleted"}, DeleteChannels(w, next)
      PROVE  \A c \in Channels : Within(c)'
  <2>1. NoneAdmitted /\ UNCHANGED <<tree, id>>
    BY <1>7 DEF NoneAdmitted, DeleteChannels, places, IInv, TypeOK
  <2> DEFINE gone(c) == {r \in Evicted(w) : channel[r] = c}
  <2>2. ASSUME NEW c \in Channels PROVE subscribers'[c] <= subscribers[c]
    <3>1. subscribers'[c] = Decrement(subscribers[c], Cardinality(gone(c)))
      BY <1>7 DEF DeleteChannels
    <3>2. IsFiniteSet(gone(c)) /\ Cardinality(gone(c)) \in Nat
      BY FS_Subset, FS_CardinalityType DEF Evicted, Doomed
    <3> HIDE DEF gone
    <3> QED
      BY <1>1, <3>1, <3>2 DEF Decrement
  <2> QED
    BY <1>2, <2>1, <2>2
<1>8. ASSUME NEW w \in Workers, NEW d \in Channels, RecountChannel(w, d)
      PROVE  \A c \in Channels : Within(c)'
  <2>1. NoneAdmitted /\ UNCHANGED <<tree, id>>
    BY <1>8 DEF NoneAdmitted, RecountChannel, places, locals
  <2>2. subscribers' = [subscribers EXCEPT ![d] = Cardinality(subscriptions[d])]
    BY <1>8 DEF RecountChannel
  <2>3. Cardinality(subscriptions[d]) <= subscribers[d]
    BY <1>0 DEF IInv, CountedInv
  <2>4. \A c \in Channels : subscribers'[c] <= subscribers[c]
    BY <1>1, <2>2, <2>3
  <2> QED
    BY <1>2, <2>1, <2>4
<1>9. ASSUME NEW r \in Requests, Disconnect(r) PROVE \A c \in Channels : Within(c)'
  <2>1. NoneAdmitted /\ UNCHANGED <<tree, id>>
    BY <1>9 DEF NoneAdmitted, Disconnect, Goto, Forget, places, IInv, TypeOK
  <2>2. subscribers' = [subscribers EXCEPT ![channel[r]] = Decrement(@, 1)]
    BY <1>9 DEF Disconnect
  <2>3. \A c \in Channels : subscribers'[c] <= subscribers[c]
    BY <1>1, <2>2 DEF Decrement
  <2> QED
    BY <1>2, <2>1, <2>3
<1>10. ASSUME NoneAdmitted, UNCHANGED <<tree, id>> \/ (tree' \subseteq tree /\ id' = id),
              subscribers' = subscribers
       PROVE  \A c \in Channels : Within(c)'
  BY <1>1, <1>2, <1>10
<1>11. ASSUME NEW r \in Requests, NEW w \in Workers, NEW i \in Ids,
              FindForDelete(r, w, i) \/ GetChannel(r, w, i)
       PROVE  NoneAdmitted
  BY <1>11 DEF FindForDelete, GetChannel, NoneAdmitted, Begin, Return, Goto, IInv, TypeOK
<1>12. ASSUME NEW r \in Requests,
              \/ AssignFails(r) \/ StoreMessage(r) \/ EnsureQtdOfMessages(r) \/ CountMessage(r)
              \/ MarkDeleted(r) \/ MoveToDelete(r)
       PROVE  /\ NoneAdmitted /\ subscribers' = subscribers
              /\ UNCHANGED <<tree, id>> \/ (tree' \subseteq tree /\ id' = id)
  BY <1>12 DEF AssignFails, StoreMessage, EnsureQtdOfMessages, CountMessage, MarkDeleted, MoveToDelete,
               NoneAdmitted, Continue, Return, Goto, Forget, places, use, locals, IInv, TypeOK
<1>13. ASSUME NEW w \in Workers,
              \/ CollectDeleted(w) \/ CollectExpired(w) \/ CollectEmpty(w) \/ CleanupDone(w)
              \/ Crash(w) \/ Respawn(w) \/ \E c \in Channels : FreeChannel(w, c)
       PROVE  /\ NoneAdmitted /\ subscribers' = subscribers
              /\ UNCHANGED <<tree, id>> \/ (tree' \subseteq tree /\ id' = id)
  <2>1. NoneAdmitted
    <3>1. CASE Crash(w)
      BY <3>1 DEF Crash, NoneAdmitted, IInv, TypeOK
    <3>2. CASE ~Crash(w)
      <4>1. UNCHANGED <<pc, locals>>
        BY <1>13, <3>2 DEF CollectDeleted, CollectExpired, CollectEmpty, CleanupDone, FreeChannel,
                           Respawn
      <4> QED
        BY <4>1 DEF NoneAdmitted, locals
    <3> QED
      BY <3>1, <3>2
  <2>2. /\ subscribers' = subscribers
        /\ UNCHANGED <<tree, id>> \/ (tree' \subseteq tree /\ id' = id)
    BY <1>13 DEF CollectDeleted, CollectExpired, CollectEmpty, CleanupDone, Crash, FreeChannel,
                 Respawn, places, use
  <2> QED
    BY <2>1, <2>2
<1>14. ASSUME UNCHANGED vars PROVE NoneAdmitted /\ UNCHANGED <<tree, id, subscribers>>
  BY <1>14 DEF vars, places, use, locals, NoneAdmitted
<1>15. ASSUME NEW r \in Requests, NEW w \in Workers, NEW i \in Ids, FindForDelete(r, w, i)
       PROVE  UNCHANGED <<tree, id, subscribers>>
  BY <1>15 DEF FindForDelete, places, use
<1>16. ASSUME UNCHANGED <<places, use, data>> PROVE UNCHANGED <<tree, id, subscribers>>
  BY <1>16 DEF places, use
<1>17. ASSUME NEW r \in Requests, CreateOnSubscribe(r) \/ \E w \in Workers, i \in Ids : GetChannel(r, w, i)
       PROVE  \A c \in Channels : Within(c)'
  BY <1>4, <1>5, <1>10, <1>11, <1>16, <1>17, Creation
<1> HIDE DEF Within
<1> QED
  BY <1>3, <1>6, <1>7, <1>8, <1>9, <1>10, <1>11, <1>12, <1>13, <1>14, <1>15, <1>17
     DEF Next, Arrival, Handle, Timer, DeleteWorkerChannel, MemoryCleanup

----------------------------------------------------------------------------
(* The invariant, and what it says of each property                        *)

(* The invariant holds initially ...                                       *)
LEMMA InitIInv == Init => IInv /\ AdmittedInv
<1> SUFFICES ASSUME Init PROVE IInv /\ AdmittedInv
  OBVIOUS
<1> USE ConstantsAssumption DEF Init
<1> DEFINE events == {EventsChannel} \ {None}
<1>1. events \subseteq Channels /\ Cardinality(events) \in Nat /\ Cardinality(events) <= 1
  <2>1. events \subseteq Channels /\ (events = {} \/ events = {EventsChannel})
    OBVIOUS
  <2>2. Cardinality({}) = 0 /\ Cardinality({EventsChannel}) = 1
    BY FS_EmptySet, FS_Singleton
  <2> HIDE DEF events
  <2> QED
    BY <2>1, <2>2, SMTT(60)
<1>2. /\ tree = events /\ data.channels = Cardinality(events)
      /\ id = [c \in Channels |-> IF c \in events THEN c ELSE None]
      /\ data \in [channels : Nat, channels_in_delete : Nat, channels_in_trash : Nat,
                   stored_messages : Nat]
  BY <1>1
<1>3. Cardinality({}) = 0
  BY FS_EmptySet
<1> HIDE DEF events
<1>4. TypeOK
  BY <1>1, <1>2 DEF TypeOK, Labels, events
<1>5. RequestInv /\ LinkedInv /\ CountedInv
  BY <1>3 DEF RequestInv, UnderWay, Pointing, LinkedInv, CountedInv
<1>6. PlaceInv
  BY <1>1, <1>2 DEF PlaceInv
<1>7. ChannelCountersExact /\ WithinMaxChannels
  BY <1>1, <1>2, <1>3 DEF ChannelCountersExact, WithinMaxChannels
<1>8. OneChannelPerId /\ EventsChannelStays
  BY <1>1, <1>2 DEF OneChannelPerId, EventsChannelStays, events
<1>9. AdmittedInv
  <2>1. ASSUME NEW c \in Channels
        PROVE  subscribers[c] + Cardinality(Admitted(c)) <= MaxSubscribers + Cardinality(Workers) - 1
    <3>1. Admitted(c) = {}
      BY DEF Admitted
    <3>2. Cardinality(Workers) \in Nat /\ Cardinality(Workers) # 0
      BY FS_CardinalityType, FS_EmptySet
    <3> QED
      BY <1>3, <3>1, <3>2
  <2> QED
    BY <2>1 DEF AdmittedInv
<1> QED
  BY <1>4, <1>5, <1>6, <1>7, <1>8, <1>9 DEF IInv

(* ... and always.                                                         *)
LEMMA Invariance == Spec => [](IInv /\ AdmittedInv)
<1>1. IInv /\ AdmittedInv /\ [Next]_vars => IInv' /\ AdmittedInv'
  <2> SUFFICES ASSUME IInv, AdmittedInv, [Next]_vars PROVE IInv' /\ AdmittedInv'
    OBVIOUS
  <2>1. IInv'
    BY TypePreserved, RequestPreserved, PlacePreserved, CountersPreserved, IdsPreserved,
       LinkedPreserved, CountedPreserved DEF IInv
  <2> QED
    BY <2>1, AdmittedPreserved
<1> QED
  BY <1>1, InitIInv, PTL DEF Spec

(* Types are kept, data->stored_messages included, which saturates.        *)
THEOREM TypeCorrect == Spec => []TypeOK
<1>1. IInv => TypeOK
  BY DEF IInv
<1> QED
  BY <1>1, Invariance, PTL

(* A channel is in one place only, and "deleted" says on which side of the *)
(* tree, for every race of DELETEs, timers and old pointers.               *)
THEOREM InOnePlace == Spec => []PlacedOnce
<1>1. IInv => PlacedOnce
  <2> SUFFICES ASSUME IInv PROVE PlacedOnce
    OBVIOUS
  <2> USE DEF IInv, PlaceInv
  <2>1. InTransit \cap (channels_to_delete \cup channels_trash \cup freed \cup tree) = {}
    BY DEF InTransit, TypeOK, RequestInv, Pointing
  <2>2. /\ tree \cap (channels_to_delete \cup channels_trash \cup freed) = {}
        /\ channels_to_delete \cap (channels_trash \cup freed) = {} /\ channels_trash \cap freed = {}
    BY DEF TypeOK
  <2> DEFINE where == <<tree, channels_to_delete, channels_trash, freed, InTransit>>
  <2>3. ASSUME NEW i \in 1..5, NEW j \in 1..5, i # j PROVE where[i] \cap where[j] = {}
    <3>1. /\ where[1] = tree /\ where[2] = channels_to_delete /\ where[3] = channels_trash
          /\ where[4] = freed /\ where[5] = InTransit
      OBVIOUS
    <3> HIDE DEF where
    <3>2. \A n \in 1..5 : n = 1 \/ n = 2 \/ n = 3 \/ n = 4 \/ n = 5
      OBVIOUS
    <3>3. \A m, n \in 1..5 : m < n => where[m] \cap where[n] = {}
      BY <2>1, <2>2, <3>1, <3>2
    <3>4. i < j \/ j < i
      BY <2>3
    <3> QED
      BY <3>3, <3>4
  <2> QED
    BY <2>3 DEF PlacedOnce
<1> QED
  BY <1>1, Invariance, PTL

(* The statistics count the channels of each queue.                        *)
THEOREM CountersAreExact == Spec => []ChannelCountersExact
<1>1. IInv => ChannelCountersExact
  BY DEF IInv
<1> QED
  BY <1>1, Invariance, PTL

(* Two workers never create a channel each for one id.                     *)
THEOREM IdsAreUnique == Spec => []OneChannelPerId
<1>1. IInv => OneChannelPerId
  BY DEF IInv
<1> QED
  BY <1>1, Invariance, PTL

(* The limit of channels holds.                                            *)
THEOREM ChannelsAreLimited == Spec => []WithinMaxChannels
<1>1. IInv => WithinMaxChannels
  BY DEF IInv
<1> QED
  BY <1>1, Invariance, PTL

(* The events channel is never taken away.                                 *)
THEOREM EventsChannelIsKept == Spec => []EventsChannelStays
<1>1. IInv => EventsChannelStays
  BY DEF IInv
<1> QED
  BY <1>1, Invariance, PTL

(* No connected subscriber goes uncounted, and no channel is released      *)
(* under one, unless one entered a channel already released.               *)
THEOREM SubscribersAreCounted == Spec => []SubscribersCounted
<1>1. IInv => SubscribersCounted
  <2> SUFFICES ASSUME IInv, ~stranded, NEW c \in Channels
               PROVE  /\ Cardinality(Connected(c)) <= subscribers[c]
                      /\ crashes = 0 => subscribers[c] = Cardinality(Connected(c))
                      /\ c \in channels_trash \cup freed => Connected(c) = {}
    BY DEF SubscribersCounted
  <2>1. /\ Connected(c) \subseteq subscriptions[c]
        /\ c \in channels_trash \cup freed => Connected(c) = {}
    BY DEF IInv, CountedInv, Connected
  <2>2. /\ Cardinality(subscriptions[c]) <= subscribers[c]
        /\ crashes = 0 => subscribers[c] = Cardinality(subscriptions[c])
    BY DEF IInv, CountedInv
  <2>3. crashes = 0 => subscriptions[c] \subseteq Connected(c)
    BY DEF IInv, TypeOK, CountedInv, LinkedInv, Connected
  <2>4. /\ IsFiniteSet(subscriptions[c]) /\ Cardinality(subscriptions[c]) \in Nat
        /\ subscribers[c] \in Nat
    BY FS_Subset, FS_CardinalityType, ConstantsAssumption DEF IInv, TypeOK
  <2>5. /\ Cardinality(Connected(c)) \in Nat
        /\ Cardinality(Connected(c)) <= Cardinality(subscriptions[c])
    BY <2>1, <2>4, FS_Subset, FS_CardinalityType
  <2>6. crashes = 0 => subscriptions[c] = Connected(c)
    BY <2>1, <2>3
  <2> HIDE DEF Connected
  <2> QED
    BY <2>1, <2>2, <2>4, <2>5, <2>6
<1> QED
  BY <1>1, Invariance, PTL

(* The limit of subscribers is exceeded by at most one for each worker but *)
(* one, though the test takes no lock.                                     *)
THEOREM OverbookingIsBounded == Spec => []OverbookedByRacesOnly
<1>1. IInv /\ AdmittedInv => OverbookedByRacesOnly
  <2> SUFFICES ASSUME IInv, AdmittedInv, ~stranded, NEW c \in Channels
               PROVE  subscribers[c] <= MaxSubscribers + Cardinality(Workers) - 1
    BY DEF OverbookedByRacesOnly
  <2>1. /\ Cardinality(Admitted(c)) \in Nat /\ Cardinality(Workers) \in Nat
        /\ subscribers[c] \in Nat /\ MaxSubscribers \in Nat
    BY FewAdmitted, FS_CardinalityType, ConstantsAssumption DEF IInv, TypeOK
  <2>2. subscribers[c] + Cardinality(Admitted(c)) <= MaxSubscribers + Cardinality(Workers) - 1
    BY DEF AdmittedInv
  <2> QED
    BY <2>1, <2>2
<1> QED
  BY <1>1, Invariance, PTL
=============================================================================

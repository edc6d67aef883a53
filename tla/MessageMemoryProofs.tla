------------------------ MODULE MessageMemoryProofs ------------------------
(***************************************************************************)
(* For every number of workers, messages and values of the parameters that *)
(* satisfy GraceAssumption: no worker of MessageMemory ever points to      *)
(* freed memory, workers_ref_count is exact, and memory does not leak.     *)
(***************************************************************************)
EXTENDS MessageMemory, FiniteSetTheorems, TLAPS

(* Cached clocks are behind the wall clock, and by no more than HandlerTime *)
(* in a worker that is running a handler.                                  *)
ClocksInv ==
  \A w \in Workers :
    /\ ngx_time[w] <= now
    /\ pc[w] \notin {"idle", "dead"} => now <= ngx_time[w] + HandlerTime

(* Which handlers have a message in hand, and which one.                   *)
HandInv ==
  /\ \A w \in Workers : hand[w] # None <=> pc[w] \in PublisherSteps \cup {"respond"}
  /\ \A w \in Workers :
       pc[w] = "respond" => messages_queue[w] # <<>> /\ hand[w] = Head(messages_queue[w])
  /\ \A v, w \in Workers :
       pc[v] \in PublisherSteps /\ pc[w] \in PublisherSteps /\ hand[v] = hand[w] => v = w

(* The lists a record is in determine its state.                           *)
LinksInv ==
  /\ IsInjective(message_queue)
  /\ IsInjective(messages_trash)
  /\ \A m \in ToSet(message_queue) : state[m] = "live" /\ ~deleted[m]
  /\ \A m \in ToSet(messages_trash) : state[m] = "live" /\ deleted[m]

QueuesInv ==
  \A w \in Workers :
    /\ IsInjective(messages_queue[w])
    /\ \A m \in ToSet(messages_queue[w]) : state[m] = "live"

(* The message a worker is publishing is live; if another worker has       *)
(* thrown it away, its deadline is beyond the end of this handler; and no  *)
(* worker that broadcast has yet to visit has it queued.                   *)
PublishInv ==
  \A w \in Workers : pc[w] \in PublisherSteps =>
    /\ state[hand[w]] = "live"
    /\ deleted[hand[w]] => ngx_time[w] + ObjectsTTL <= expires[hand[w]] + HandlerTime
    /\ pc[w] \in {"limit", "broadcast"} =>
         \A v \in Workers : hand[w] \notin ToSet(messages_queue[v])
    /\ pc[w] = "enqueue" =>
         \A v \in targets[w] : hand[w] \notin ToSet(messages_queue[v])

IInv ==
  /\ TypeOK
  /\ ClocksInv
  /\ HandInv
  /\ LinksInv
  /\ QueuesInv
  /\ RefCountIsExact
  /\ PublishInv

----------------------------------------------------------------------------
(* Facts about sequences without repetition.                               *)

LEMMA AppendFacts ==
  ASSUME NEW S, NEW s \in Seq(S), NEW e \in S
  PROVE  /\ Append(s, e) \in Seq(S)
         /\ Append(s, e) # <<>>
         /\ ToSet(Append(s, e)) = ToSet(s) \cup {e}
         /\ s # <<>> => Head(Append(s, e)) = Head(s)
         /\ IsInjective(s) /\ e \notin ToSet(s) => IsInjective(Append(s, e))
<1> DEFINE t == Append(s, e)
<1>1. /\ t \in Seq(S) /\ Len(t) = Len(s) + 1
      /\ \A i \in 1..Len(s) : t[i] = s[i]
      /\ t[Len(s) + 1] = e
      /\ Len(s) \in Nat
  OBVIOUS
<1>2. DOMAIN s = 1..Len(s) /\ DOMAIN t = 1..(Len(s) + 1)
  BY <1>1
<1> HIDE DEF t
<1>3. ToSet(t) = ToSet(s) \cup {e}
  BY <1>1, <1>2 DEF ToSet
<1>4. s # <<>> => Head(t) = Head(s)
  BY <1>1, <1>2
<1>5. ASSUME IsInjective(s), e \notin ToSet(s)  PROVE IsInjective(t)
  BY <1>1, <1>2, <1>5 DEF IsInjective, ToSet
<1>6. t # <<>>
  BY <1>1
<1> QED BY <1>1, <1>3, <1>4, <1>5, <1>6 DEF t

LEMMA TailFacts ==
  ASSUME NEW S, NEW s \in Seq(S), s # <<>>
  PROVE  /\ Tail(s) \in Seq(S)
         /\ Head(s) \in S
         /\ Head(s) \in ToSet(s)
         /\ IsInjective(s) => /\ IsInjective(Tail(s))
                              /\ ToSet(Tail(s)) = ToSet(s) \ {Head(s)}
<1> DEFINE t == Tail(s)
<1>1. /\ t \in Seq(S) /\ Len(t) = Len(s) - 1
      /\ \A i \in 1..(Len(s) - 1) : t[i] = s[i + 1]
      /\ Head(s) = s[1]
      /\ Len(s) \in Nat /\ Len(s) >= 1
  OBVIOUS
<1>2. DOMAIN s = 1..Len(s) /\ DOMAIN t = 1..(Len(s) - 1)
  BY <1>1
<1> HIDE DEF t
<1>3. Head(s) \in S /\ Head(s) \in ToSet(s)
  BY <1>1, <1>2 DEF ToSet
<1>4. ASSUME IsInjective(s)  PROVE IsInjective(t) /\ ToSet(t) = ToSet(s) \ {Head(s)}
  <2>1. IsInjective(t)
    BY <1>1, <1>2, <1>4, SMTT(60) DEF IsInjective
  <2>2. ToSet(t) \subseteq ToSet(s) \ {Head(s)}
    BY <1>1, <1>2, <1>4, SMTT(60) DEF IsInjective, ToSet
  <2>3. ASSUME NEW x \in ToSet(s), x # Head(s)  PROVE x \in ToSet(t)
    <3>1. PICK i \in 1..Len(s) : x = s[i]
      BY <1>2 DEF ToSet
    <3>2. i - 1 \in 1..(Len(s) - 1) /\ t[i - 1] = x
      BY <1>1, <2>3, <3>1
    <3> QED BY <1>2, <3>2 DEF ToSet
  <2> QED BY <2>1, <2>2, <2>3
<1> QED BY <1>1, <1>3, <1>4 DEF t

LEMMA EmptyFacts == ToSet(<<>>) = {} /\ IsInjective(<<>>)
BY DEF ToSet, IsInjective

LEMMA MemberType ==
  ASSUME NEW S, NEW s \in Seq(S)
  PROVE  ToSet(s) \subseteq S
BY DEF ToSet

----------------------------------------------------------------------------
LEMMA InitInv == Init => IInv
<1> SUFFICES ASSUME Init PROVE IInv
  OBVIOUS
<1> USE DEF Init
<1>1. TypeOK
  BY ParametersAssumption DEF TypeOK, Steps
<1>2. \A w \in Workers : messages_queue[w] = <<>> /\ pc[w] = "idle" /\ hand[w] = None
  OBVIOUS
<1>3. ClocksInv /\ HandInv /\ PublishInv
  BY <1>2, ParametersAssumption DEF ClocksInv, HandInv, PublishInv, PublisherSteps
<1>4. LinksInv /\ QueuesInv
  BY EmptyFacts, <1>2 DEF LinksInv, QueuesInv
<1>5. RefCountIsExact
  BY DEF RefCountIsExact
<1> QED BY <1>1, <1>3, <1>4, <1>5 DEF IInv

(* Types: one step per action.                                             *)
LEMMA TypeStep == IInv /\ [Next]_vars => TypeOK'
<1> SUFFICES ASSUME IInv, [Next]_vars PROVE TypeOK'
  OBVIOUS
<1>0. TypeOK /\ HandInv
  BY DEF IInv
<1> USE <1>0, WorkersAssumption, ParametersAssumption DEF TypeOK, clock, record, queues, sentinel, Goto, Steps, PublisherSteps, CleanupSteps
<1>1. ASSUME NEW w \in Workers, NEW m \in Messages, NEW store \in BOOLEAN, AddMessage(w, m, store)
      PROVE  TypeOK'
  <2>1. Append(message_queue, m) \in Seq(Messages)
    BY AppendFacts
  <2> QED BY <1>1, <2>1, SMTT(60) DEF AddMessage, Start
<1>2. ASSUME NEW w \in Workers, RemoveOldest(w) PROVE TypeOK'
  <2>1. message_queue # <<>>
    BY <1>2 DEF RemoveOldest, MustRemoveOldest
  <2>2. Tail(message_queue) \in Seq(Messages) /\ Head(message_queue) \in Messages
    BY <2>1, TailFacts
  <2>3. Append(messages_trash, Head(message_queue)) \in Seq(Messages)
    BY <2>2, AppendFacts
  <2>4. deleted' \in [Messages -> BOOLEAN]
    BY <1>2, <2>2 DEF RemoveOldest, ThrowAway
  <2>5. expires' \in [Messages -> Nat]
    BY <1>2, <2>2, SMTT(60) DEF RemoveOldest, ThrowAway
  <2> QED BY <1>2, <2>2, <2>3, <2>4, <2>5 DEF RemoveOldest, ThrowAway
<1>3. ASSUME NEW w \in Workers, RemoveDone(w) PROVE TypeOK'
  BY <1>3, ZenonT(60) DEF RemoveDone
<1>4. ASSUME NEW w \in Workers, BroadcastLock(w) PROVE TypeOK'
  BY <1>4 DEF BroadcastLock
<1>5. ASSUME NEW w \in Workers, NEW v \in Workers, SendWorkerMessage(w, v) PROVE TypeOK'
  <2>1. hand[w] \in Messages
    BY <1>5 DEF SendWorkerMessage, HandInv
  <2>2. Append(messages_queue[v], hand[w]) \in Seq(Messages)
    BY <2>1, AppendFacts
  <2>3. workers_ref_count' \in [Messages -> Int]
    BY <1>5, <2>1 DEF SendWorkerMessage
  <2>4. messages_queue' \in [Workers -> Seq(Messages)]
    BY <1>5, <2>2 DEF SendWorkerMessage
  <2> QED BY <1>5, <2>3, <2>4 DEF SendWorkerMessage
<1>6. ASSUME NEW w \in Workers, BroadcastUnlock(w) PROVE TypeOK'
  BY <1>6 DEF BroadcastUnlock
<1>7. ASSUME NEW w \in Workers, DiscardUnstored(w) PROVE TypeOK'
  <2>1. hand[w] \in Messages
    BY <1>7 DEF DiscardUnstored, HandInv
  <2>2. Append(messages_trash, hand[w]) \in Seq(Messages)
    BY <2>1, AppendFacts
  <2>3. deleted' \in [Messages -> BOOLEAN]
    BY <1>7, <2>1 DEF DiscardUnstored, ThrowAway
  <2>4. expires' \in [Messages -> Nat]
    BY <1>7, <2>1 DEF DiscardUnstored, ThrowAway
  <2>5. messages_trash' \in Seq(Messages)
    BY <1>7, <2>2 DEF DiscardUnstored, ThrowAway
  <2> QED BY <1>7, <2>3, <2>4, <2>5 DEF DiscardUnstored
<1>8. ASSUME NEW w \in Workers, messages_queue[w] # <<>>, DropReference(w)
      PROVE  /\ workers_ref_count' \in [Messages -> Int]
             /\ expires' \in [Messages -> Nat]
             /\ messages_queue' \in [Workers -> Seq(Messages)]
             /\ UNCHANGED <<state, deleted, message_queue, messages_trash>>
  <2>1. Head(messages_queue[w]) \in Messages /\ Tail(messages_queue[w]) \in Seq(Messages)
    BY <1>8, TailFacts
  <2>2. workers_ref_count' \in [Messages -> Int]
    BY <1>8, <2>1 DEF DropReference
  <2>3. expires' \in [Messages -> Nat]
    BY <1>8, <2>1, SMTT(60) DEF DropReference
  <2>4. messages_queue' \in [Workers -> Seq(Messages)]
    BY <1>8, <2>1 DEF DropReference
  <2> QED BY <1>8, <2>2, <2>3, <2>4 DEF DropReference
<1>9. ASSUME NEW w \in Workers, Respond(w) PROVE TypeOK'
  <2>1. Head(messages_queue[w]) \in Messages
    BY <1>9, TailFacts DEF Respond
  <2> QED BY <1>9, <2>1, SMTT(60) DEF Respond, Start
<1>10. ASSUME NEW w \in Workers, Release(w) PROVE TypeOK'
  <2>1. messages_queue[w] # <<>>
    BY <1>10 DEF Release, HandInv
  <2> QED BY <1>8, <1>10, <2>1 DEF Release
<1>11. ASSUME NEW w \in Workers, Subscribe(w) PROVE TypeOK'
  BY <1>11 DEF Subscribe, Start
<1>12. ASSUME NEW w \in Workers, NEW what \in {"expired", "all"}, Cleanup(w, what) PROVE TypeOK'
  BY <1>12 DEF Cleanup, Start
<1>13. ASSUME NEW w \in Workers, FreeHead(w) PROVE TypeOK'
  <2>1. Tail(messages_trash) \in Seq(Messages) /\ Head(messages_trash) \in Messages
    BY <1>13, TailFacts DEF FreeHead
  <2> QED BY <1>13, <2>1 DEF FreeHead
<1>14. ASSUME NEW w \in Workers, FreeDone(w) PROVE TypeOK'
  BY <1>14 DEF FreeDone
<1>15. ASSUME NEW w \in Workers, Crash(w) PROVE TypeOK'
  BY <1>15 DEF Crash
<1>16. ASSUME NEW w \in Workers, Respawn(w) PROVE TypeOK'
  BY <1>16 DEF Respawn
<1>17. ASSUME NEW w \in Workers, CleanQueue(w) PROVE TypeOK'
  BY <1>8, <1>17 DEF CleanQueue
<1>18. ASSUME NEW w \in Workers, CleanQueueDone(w) PROVE TypeOK'
  BY <1>18 DEF CleanQueueDone
<1>19. ASSUME NEW w \in Workers, UnsubscribeWorker(w) PROVE TypeOK'
  BY <1>19 DEF UnsubscribeWorker
<1>20. CASE Tick
  BY <1>20 DEF Tick
<1>21. CASE UNCHANGED vars
  BY <1>21 DEF vars
<1> HIDE <1>0, WorkersAssumption, ParametersAssumption DEF TypeOK, clock, record, queues, sentinel, Goto, Steps, PublisherSteps, CleanupSteps
<1> QED
  BY <1>1, <1>2, <1>3, <1>4, <1>5, <1>6, <1>7, <1>9, <1>10, <1>11, <1>12, <1>13, <1>14,
     <1>15, <1>16, <1>17, <1>18, <1>19, <1>20, <1>21
     DEF Next, Publisher, Housekeeping, Lifecycle
----------------------------------------------------------------------------
(* A step of worker w that touches no record and no list, and does not     *)
(* start publishing.                                                       *)
LocalStep(w) ==
  /\ UNCHANGED <<now, state, deleted, expires, workers_ref_count,
                 message_queue, messages_trash, messages_queue>>
  /\ \A v \in Workers \ {w} :
       /\ pc'[v] = pc[v] /\ hand'[v] = hand[v]
       /\ ngx_time'[v] = ngx_time[v] /\ targets'[v] = targets[v]
  /\ ngx_time'[w] <= now
  /\ pc'[w] \notin {"idle", "dead"} => now <= ngx_time'[w] + HandlerTime
  /\ hand'[w] # None <=> pc'[w] \in PublisherSteps \cup {"respond"}
  /\ pc'[w] = "respond" => messages_queue[w] # <<>> /\ hand'[w] = Head(messages_queue[w])
  /\ pc'[w] \in PublisherSteps =>
       /\ pc[w] \in PublisherSteps /\ hand'[w] = hand[w] /\ ngx_time'[w] = ngx_time[w]
       /\ pc'[w] \in {"limit", "broadcast"} => pc[w] \in {"limit", "broadcast"}
       /\ pc'[w] = "enqueue" => pc[w] = "broadcast"

LEMMA LocalStepInv ==
  ASSUME IInv, TypeOK', NEW w \in Workers, LocalStep(w)
  PROVE  IInv'
<1> USE DEF LocalStep
<1>1. ClocksInv'
  BY DEF IInv, ClocksInv
<1>2. HandInv'
  BY DEF IInv, HandInv
<1>3. LinksInv' /\ QueuesInv'
  BY DEF IInv, LinksInv, QueuesInv
<1>4. RefCountIsExact'
  BY DEF IInv, RefCountIsExact, Holders
<1>5. PublishInv'
  <2> SUFFICES ASSUME NEW u \in Workers, pc'[u] \in PublisherSteps
               PROVE  /\ state[hand'[u]] = "live"
                      /\ deleted[hand'[u]] => ngx_time'[u] + ObjectsTTL <= expires[hand'[u]] + HandlerTime
                      /\ pc'[u] \in {"limit", "broadcast"} =>
                           \A v \in Workers : hand'[u] \notin ToSet(messages_queue[v])
                      /\ pc'[u] = "enqueue" =>
                           \A v \in targets'[u] : hand'[u] \notin ToSet(messages_queue[v])
    BY DEF PublishInv
  <2>1. CASE u = w
    BY <2>1 DEF IInv, PublishInv, PublisherSteps, TypeOK
  <2>2. CASE u # w
    BY <2>2 DEF IInv, PublishInv
  <2> QED BY <2>1, <2>2
<1> QED BY <1>1, <1>2, <1>3, <1>4, <1>5 DEF IInv

LEMMA StartFacts ==
  ASSUME TypeOK, ClocksInv, NEW w \in Workers, NEW label, Start(w, label)
  PROVE  /\ pc[w] = "idle" /\ pc'[w] = label
         /\ ngx_time'[w] \in Nat /\ ngx_time'[w] <= now /\ now <= ngx_time'[w] + HandlerTime
         /\ \A v \in Workers \ {w} : pc'[v] = pc[v] /\ ngx_time'[v] = ngx_time[v]
         /\ now' = now
<1>1. PICK t \in {now, ngx_time[w]} :
        now - t <= HandlerTime /\ ngx_time' = [ngx_time EXCEPT ![w] = t]
  BY DEF Start
<1>2. t \in Nat /\ t <= now /\ now <= t + HandlerTime
  BY <1>1, ParametersAssumption DEF TypeOK, ClocksInv
<1>3. ngx_time'[w] = t /\ \A v \in Workers \ {w} : ngx_time'[v] = ngx_time[v]
  BY <1>1 DEF TypeOK
<1>4. pc'[w] = label /\ \A v \in Workers \ {w} : pc'[v] = pc[v]
  BY DEF TypeOK, Start, Goto
<1> QED BY <1>2, <1>3, <1>4 DEF Start

LEMMA LocalActions ==
  ASSUME IInv, NEW w \in Workers,
         \/ RemoveDone(w) \/ BroadcastLock(w) \/ BroadcastUnlock(w)
         \/ Respond(w) \/ Subscribe(w) \/ FreeDone(w)
         \/ \E what \in {"expired", "all"} : Cleanup(w, what)
         \/ Crash(w) \/ Respawn(w) \/ CleanQueueDone(w) \/ UnsubscribeWorker(w)
  PROVE  LocalStep(w)
<1> USE WorkersAssumption, ParametersAssumption
    DEF IInv, TypeOK, ClocksInv, HandInv, LocalStep, clock, record, queues, sentinel,
        Goto, PublisherSteps, CleanupSteps
<1>1. CASE RemoveDone(w)
  BY <1>1, SMTT(60) DEF RemoveDone
<1>2. CASE BroadcastLock(w)
  BY <1>2 DEF BroadcastLock
<1>3. CASE BroadcastUnlock(w)
  BY <1>3 DEF BroadcastUnlock
<1>4. CASE Respond(w)
  <2>1. Head(messages_queue[w]) \in Messages
    BY <1>4, TailFacts DEF Respond
  <2>2. pc[w] = "idle" /\ pc'[w] = "respond" /\ now' = now /\ ngx_time'[w] <= now
        /\ now <= ngx_time'[w] + HandlerTime
        /\ \A v \in Workers \ {w} : pc'[v] = pc[v] /\ ngx_time'[v] = ngx_time[v]
    BY <1>4, StartFacts DEF Respond
  <2>3. hand'[w] = Head(messages_queue[w]) /\ \A v \in Workers \ {w} : hand'[v] = hand[v]
    BY <1>4 DEF Respond
  <2> QED BY <1>4, <2>1, <2>2, <2>3 DEF Respond
<1>5. CASE Subscribe(w)
  BY <1>5, StartFacts DEF Subscribe
<1>6. CASE FreeDone(w)
  BY <1>6 DEF FreeDone
<1>7. ASSUME NEW what \in {"expired", "all"}, Cleanup(w, what) PROVE LocalStep(w)
  BY <1>7, StartFacts DEF Cleanup
<1>8. CASE Crash(w)
  BY <1>8 DEF Crash
<1>9. CASE Respawn(w)
  <2>1. ngx_time'[w] = now /\ pc[w] = "dead" /\ pc'[w] = "clean" /\ now' = now
    BY <1>9 DEF Respawn
  <2>2. \A v \in Workers \ {w} : pc'[v] = pc[v] /\ ngx_time'[v] = ngx_time[v]
    BY <1>9 DEF Respawn
  <2>3. hand[w] = None
    BY <2>1
  <2>5. now <= now + HandlerTime
    BY ONLY TypeOK, ParametersAssumption DEF TypeOK
  <2>4. UNCHANGED <<hand, targets, state, deleted, expires, workers_ref_count,
                    message_queue, messages_trash, messages_queue>>
    BY <1>9 DEF Respawn
  <2> QED BY <2>1, <2>2, <2>3, <2>4, <2>5
<1>10. CASE CleanQueueDone(w)
  BY <1>10 DEF CleanQueueDone
<1>11. CASE UnsubscribeWorker(w)
  BY <1>11 DEF UnsubscribeWorker
<1> HIDE DEF LocalStep
<1> QED BY <1>1, <1>2, <1>3, <1>4, <1>5, <1>6, <1>7, <1>8, <1>9, <1>10, <1>11

----------------------------------------------------------------------------
(* The steps that touch records and lists.                                 *)

LEMMA AddMessageInv ==
  ASSUME IInv, TypeOK', NEW w \in Workers, NEW m \in Messages, NEW store \in BOOLEAN,
         AddMessage(w, m, store)
  PROVE  IInv'
<1> USE DEF IInv
<1>1. /\ m \notin ToSet(message_queue) /\ m \notin ToSet(messages_trash)
      /\ \A v \in Workers : m \notin ToSet(messages_queue[v])
  BY DEF AddMessage, LinksInv, QueuesInv
<1>2. \A v \in Workers : hand[v] # m
  <2> SUFFICES ASSUME NEW v \in Workers, hand[v] = m PROVE FALSE
    OBVIOUS
  <2>1. state[m] = "unused" /\ m # None
    BY WorkersAssumption DEF AddMessage
  <2>2. pc[v] = "respond"
    BY <2>1 DEF HandInv, PublishInv
  <2>3. m \in ToSet(messages_queue[v])
    <3>1. messages_queue[v] \in Seq(Messages) /\ messages_queue[v] # <<>>
          /\ Head(messages_queue[v]) = m
      BY <2>2 DEF HandInv, TypeOK
    <3> QED BY <3>1, TailFacts
  <2> QED BY <1>1, <2>3
<1>3. /\ state' = [state EXCEPT ![m] = "live"]
      /\ deleted' = [deleted EXCEPT ![m] = FALSE]
      /\ workers_ref_count' = [workers_ref_count EXCEPT ![m] = 0]
      /\ hand' = [hand EXCEPT ![w] = m]
      /\ UNCHANGED <<messages_trash, messages_queue, targets>>
  BY DEF AddMessage, sentinel
<1>4. /\ pc[w] = "idle" /\ pc'[w] = "limit"
      /\ ngx_time'[w] <= now /\ now <= ngx_time'[w] + HandlerTime
      /\ \A v \in Workers \ {w} : pc'[v] = pc[v] /\ ngx_time'[v] = ngx_time[v]
      /\ now' = now
  BY StartFacts DEF AddMessage
<1>5. ClocksInv'
  BY <1>4 DEF ClocksInv
<1>6. HandInv'
  <2>1. hand'[w] = m /\ m # None /\ \A v \in Workers \ {w} : hand'[v] = hand[v]
    BY <1>3, WorkersAssumption DEF TypeOK
  <2> QED BY <1>2, <1>3, <1>4, <2>1 DEF HandInv, PublisherSteps
<1>7. LinksInv'
  <2>1. /\ IsInjective(message_queue')
        /\ ToSet(message_queue') \subseteq ToSet(message_queue) \cup {m}
    BY <1>1, AppendFacts DEF AddMessage, LinksInv, TypeOK
  <2>2. ToSet(message_queue) \subseteq Messages /\ ToSet(messages_trash) \subseteq Messages
    BY MemberType DEF TypeOK
  <2>3. \A n \in Messages \ {m} : state'[n] = state[n] /\ deleted'[n] = deleted[n]
    BY <1>3 DEF TypeOK
  <2>4. state'[m] = "live" /\ deleted'[m] = FALSE
    BY <1>3 DEF TypeOK
  <2>5. \A n \in ToSet(message_queue') : state'[n] = "live" /\ ~deleted'[n]
    BY <1>1, <2>1, <2>2, <2>3, <2>4 DEF LinksInv
  <2>6. \A n \in ToSet(messages_trash') : state'[n] = "live" /\ deleted'[n]
    BY <1>1, <1>3, <2>2, <2>3 DEF LinksInv
  <2> QED BY <1>3, <2>1, <2>5, <2>6 DEF LinksInv
<1>8. QueuesInv'
  BY <1>1, <1>3, MemberType DEF QueuesInv, TypeOK
<1>9. RefCountIsExact'
  <2> SUFFICES ASSUME NEW n \in Messages, state'[n] = "live"
               PROVE  workers_ref_count'[n] = Cardinality(Holders(n)')
    BY DEF RefCountIsExact
  <2>1. Holders(n)' = Holders(n)
    BY <1>3 DEF Holders
  <2>2. CASE n = m
    <3>1. Holders(n) = {}
      BY <1>1, <2>2 DEF Holders
    <3> QED BY <1>3, <2>1, <2>2, <3>1, FS_EmptySet DEF TypeOK
  <2>3. CASE n # m
    BY <1>3, <2>1, <2>3 DEF TypeOK, RefCountIsExact
  <2> QED BY <2>2, <2>3
<1>10. PublishInv'
  <2> SUFFICES ASSUME NEW u \in Workers, pc'[u] \in PublisherSteps
               PROVE  /\ state'[hand'[u]] = "live"
                      /\ deleted'[hand'[u]] => ngx_time'[u] + ObjectsTTL <= expires'[hand'[u]] + HandlerTime
                      /\ pc'[u] \in {"limit", "broadcast"} =>
                           \A v \in Workers : hand'[u] \notin ToSet(messages_queue[v])
                      /\ pc'[u] = "enqueue" =>
                           \A v \in targets'[u] : hand'[u] \notin ToSet(messages_queue[v])
    BY <1>3 DEF PublishInv
  <2>1. CASE u = w
    BY <1>1, <1>3, <1>4, <2>1 DEF TypeOK
  <2>2. CASE u # w
    <3>1. hand'[u] = hand[u] /\ hand[u] # m /\ hand[u] \in Messages /\ pc[u] \in PublisherSteps
      BY <1>2, <1>3, <1>4, <2>2 DEF HandInv, TypeOK
    <3>2. expires'[hand[u]] = expires[hand[u]]
      BY <3>1 DEF AddMessage, TypeOK
    <3> QED BY <1>3, <1>4, <2>2, <3>1, <3>2, SMTT(60) DEF PublishInv, TypeOK
  <2> QED BY <2>1, <2>2
<1> QED BY <1>5, <1>6, <1>7, <1>8, <1>9, <1>10

(* Two ways a record gets a new deadline: being thrown away, and losing    *)
(* its last reference. Both leave the publisher that may still point to it *)
(* at least the rest of its handler.                                       *)
LEMMA DeadlineFacts ==
  ASSUME TypeOK, ClocksInv, NEW w \in Workers, pc[w] \notin {"idle", "dead"},
         NEW u \in Workers
  PROVE  /\ ngx_time[w] + ObjectsTTL \in Nat
         /\ ngx_time[u] + ObjectsTTL <= (ngx_time[w] + ObjectsTTL) + HandlerTime
BY ParametersAssumption, SMTT(60) DEF TypeOK, ClocksInv

LEMMA RemoveOldestInv ==
  ASSUME IInv, TypeOK', NEW w \in Workers, RemoveOldest(w)
  PROVE  IInv'
<1> DEFINE m == Head(message_queue)
<1> USE DEF IInv
<1>1. /\ message_queue # <<>> /\ message_queue' = Tail(message_queue)
      /\ pc[w] \in {"limit", "expired", "all"}
      /\ deleted' = [deleted EXCEPT ![m] = TRUE]
      /\ expires' = [expires EXCEPT ![m] = ngx_time[w] + ObjectsTTL]
      /\ messages_trash' = Append(messages_trash, m)
      /\ UNCHANGED <<now, ngx_time, pc, hand, targets, state, workers_ref_count, messages_queue>>
  BY DEF RemoveOldest, MustRemoveOldest, ThrowAway, clock, sentinel
<1>2. /\ m \in Messages /\ m \in ToSet(message_queue)
      /\ IsInjective(message_queue')
      /\ ToSet(message_queue') = ToSet(message_queue) \ {m}
  BY <1>1, TailFacts DEF TypeOK, LinksInv
<1>3. state[m] = "live" /\ ~deleted[m] /\ m \notin ToSet(messages_trash)
  BY <1>2 DEF LinksInv
<1>4. IsInjective(messages_trash') /\ ToSet(messages_trash') = ToSet(messages_trash) \cup {m}
  BY <1>1, <1>2, <1>3, AppendFacts, SMTT(60) DEF TypeOK, LinksInv
<1> HIDE DEF m
<1>5. ClocksInv' /\ HandInv' /\ QueuesInv'
  BY <1>1 DEF ClocksInv, HandInv, QueuesInv
<1>6. LinksInv'
  <2>1. ToSet(message_queue) \subseteq Messages /\ ToSet(messages_trash) \subseteq Messages
    BY MemberType DEF TypeOK
  <2>2. deleted'[m] /\ \A n \in Messages \ {m} : deleted'[n] = deleted[n]
    BY <1>1, <1>2 DEF TypeOK
  <2> QED BY <1>1, <1>2, <1>3, <1>4, <2>1, <2>2 DEF LinksInv
<1>7. RefCountIsExact'
  BY <1>1 DEF RefCountIsExact, Holders
<1>8. PublishInv'
  <2> SUFFICES ASSUME NEW u \in Workers, pc[u] \in PublisherSteps, deleted'[hand[u]]
               PROVE  ngx_time[u] + ObjectsTTL <= expires'[hand[u]] + HandlerTime
    BY <1>1 DEF PublishInv
  <2>1. hand[u] \in Messages
    BY DEF HandInv, TypeOK
  <2>2. CASE hand[u] = m
    BY <1>1, <1>2, <2>2, DeadlineFacts DEF TypeOK
  <2>3. CASE hand[u] # m
    BY <1>1, <1>2, <2>1, <2>3 DEF PublishInv, TypeOK
  <2> QED BY <2>2, <2>3
<1> QED BY <1>5, <1>6, <1>7, <1>8

LEMMA SendWorkerMessageInv ==
  ASSUME IInv, TypeOK', NEW w \in Workers, NEW v \in Workers, SendWorkerMessage(w, v)
  PROVE  IInv'
<1> DEFINE m == hand[w]
<1> USE DEF IInv
<1>1. /\ pc[w] = "enqueue" /\ v \in targets[w]
      /\ targets' = [targets EXCEPT ![w] = @ \ {v}]
      /\ UNCHANGED <<now, ngx_time, pc, hand, state, deleted, expires,
                     message_queue, messages_trash>>
  BY DEF SendWorkerMessage, clock
<1>2. m \in Messages /\ state[m] = "live" /\ m \notin ToSet(messages_queue[v])
  BY <1>1 DEF HandInv, PublishInv, PublisherSteps, TypeOK
<1>3. \A u \in Workers : targets'[u] \subseteq targets[u] /\ (u = w => v \notin targets'[u])
  BY <1>1 DEF TypeOK
<1>4. CASE UNCHANGED <<workers_ref_count, messages_queue>>
  <2>1. ClocksInv' /\ HandInv' /\ LinksInv' /\ QueuesInv'
    BY <1>1, <1>4 DEF ClocksInv, HandInv, LinksInv, QueuesInv
  <2>2. RefCountIsExact'
    BY <1>1, <1>4 DEF RefCountIsExact, Holders
  <2>3. PublishInv'
    BY <1>1, <1>3, <1>4 DEF PublishInv
  <2> QED BY <2>1, <2>2, <2>3
<1>5. CASE /\ workers_ref_count' = [workers_ref_count EXCEPT ![m] = @ + 1]
           /\ messages_queue' = [messages_queue EXCEPT ![v] = Append(@, m)]
  <2>1. /\ messages_queue'[v] = Append(messages_queue[v], m)
        /\ \A u \in Workers \ {v} : messages_queue'[u] = messages_queue[u]
    BY <1>5 DEF TypeOK
  <2>2. /\ messages_queue'[v] # <<>>
        /\ ToSet(messages_queue'[v]) = ToSet(messages_queue[v]) \cup {m}
        /\ messages_queue[v] # <<>> => Head(messages_queue'[v]) = Head(messages_queue[v])
        /\ IsInjective(messages_queue'[v])
    <3>1. messages_queue[v] \in Seq(Messages) /\ IsInjective(messages_queue[v])
      BY DEF TypeOK, QueuesInv
    <3> HIDE DEF m
    <3> QED BY ONLY <1>2, <2>1, <3>1, AppendFacts
  <2>3. ClocksInv' /\ LinksInv'
    BY <1>1 DEF ClocksInv, LinksInv
  <2>4. HandInv'
    BY <1>1, <2>1, <2>2 DEF HandInv
  <2>5. QueuesInv'
    BY <1>1, <1>2, <2>1, <2>2 DEF QueuesInv
  <2>6. RefCountIsExact'
    <3> SUFFICES ASSUME NEW n \in Messages, state[n] = "live"
                 PROVE  workers_ref_count'[n] = Cardinality(Holders(n)')
      BY <1>1 DEF RefCountIsExact
    <3>1. IsFiniteSet(Holders(n))
      BY WorkersAssumption, FS_Subset DEF Holders
    <3>2. CASE n = m
      <4>1. v \notin Holders(n) /\ Holders(n)' = Holders(n) \cup {v}
        BY <1>2, <2>1, <2>2, <3>2 DEF Holders
      <4>2. Cardinality(Holders(n)') = Cardinality(Holders(n)) + 1
        BY <3>1, <4>1, FS_AddElement
      <4> QED BY <1>5, <3>2, <4>2 DEF RefCountIsExact, TypeOK
    <3>3. CASE n # m
      <4>1. Holders(n)' = Holders(n)
        BY <2>1, <2>2, <3>3 DEF Holders
      <4> QED BY <1>5, <3>3, <4>1 DEF RefCountIsExact, TypeOK
    <3> QED BY <3>2, <3>3
  <2>7. PublishInv'
    <3> SUFFICES ASSUME NEW u \in Workers, pc[u] \in PublisherSteps
                 PROVE  /\ pc[u] \in {"limit", "broadcast"} =>
                             \A x \in Workers : hand[u] \notin ToSet(messages_queue'[x])
                        /\ pc[u] = "enqueue" =>
                             \A x \in targets'[u] : hand[u] \notin ToSet(messages_queue'[x])
      BY <1>1 DEF PublishInv
    <3>0. \A x \in targets'[u] : x \in Workers /\ x \in targets[u]
      BY <1>3 DEF TypeOK
    <3>1. CASE u = w
      BY <1>1, <1>3, <2>1, <3>0, <3>1 DEF PublishInv, PublisherSteps
    <3>2. CASE u # w
      <4>1. hand[u] # m
        BY <1>1, <3>2 DEF HandInv, PublisherSteps
      <4> QED BY <2>1, <2>2, <3>0, <4>1 DEF PublishInv
    <3> QED BY <3>1, <3>2
  <2> QED BY <2>3, <2>4, <2>5, <2>6, <2>7
<1> QED BY <1>4, <1>5 DEF SendWorkerMessage

LEMMA DiscardUnstoredInv ==
  ASSUME IInv, TypeOK', NEW w \in Workers, DiscardUnstored(w)
  PROVE  IInv'
<1> DEFINE m == hand[w]
<1> USE DEF IInv
<1>1. /\ pc[w] = "check"
      /\ pc' = [pc EXCEPT ![w] = "idle"]
      /\ hand' = [hand EXCEPT ![w] = None]
      /\ UNCHANGED <<now, ngx_time, targets, state, workers_ref_count,
                     message_queue, messages_queue>>
  BY DEF DiscardUnstored, Goto, clock, sentinel
<1>2. m \in Messages /\ state[m] = "live" /\ pc[w] \in PublisherSteps
  BY <1>1 DEF HandInv, PublishInv, PublisherSteps, TypeOK
<1>3. /\ pc'[w] = "idle" /\ hand'[w] = None
      /\ \A u \in Workers \ {w} : pc'[u] = pc[u] /\ hand'[u] = hand[u]
  BY <1>1 DEF TypeOK
<1>4. ClocksInv' /\ HandInv' /\ QueuesInv'
  BY <1>1, <1>3 DEF ClocksInv, HandInv, QueuesInv, PublisherSteps
<1>5. RefCountIsExact'
  BY <1>1 DEF RefCountIsExact, Holders
<1>6. \A u \in Workers : pc'[u] \in PublisherSteps => u # w /\ hand[u] # m /\ hand[u] \in Messages
  <2> SUFFICES ASSUME NEW u \in Workers, pc'[u] \in PublisherSteps
               PROVE  u # w /\ hand[u] # m /\ hand[u] \in Messages
    OBVIOUS
  <2>1. u # w /\ pc[u] \in PublisherSteps
    BY <1>3 DEF PublisherSteps
  <2> QED BY <1>2, <2>1 DEF HandInv, TypeOK
<1>7. \A n \in Messages \ {m} : deleted'[n] = deleted[n] /\ expires'[n] = expires[n]
  BY DEF DiscardUnstored, ThrowAway, TypeOK
<1>8. PublishInv'
  BY <1>1, <1>3, <1>6, <1>7 DEF PublishInv
<1>9. LinksInv'
  <2>1. CASE Linked(m)
    BY <1>1, <2>1 DEF DiscardUnstored, LinksInv
  <2>2. CASE ~Linked(m)
    <3>1. /\ messages_trash' = Append(messages_trash, m)
          /\ deleted' = [deleted EXCEPT ![m] = TRUE]
      BY <2>2 DEF DiscardUnstored, ThrowAway
    <3>2. m \notin ToSet(message_queue) /\ m \notin ToSet(messages_trash)
      BY <2>2 DEF Linked
    <3>3. /\ IsInjective(messages_trash')
          /\ ToSet(messages_trash') = ToSet(messages_trash) \cup {m}
      BY <1>2, <3>1, <3>2, AppendFacts DEF TypeOK, LinksInv
    <3>4. ToSet(message_queue) \subseteq Messages /\ ToSet(messages_trash) \subseteq Messages
      BY MemberType DEF TypeOK
    <3>5. deleted'[m] = TRUE
      BY <1>2, <3>1 DEF TypeOK
    <3> QED BY <1>1, <1>2, <1>7, <3>2, <3>3, <3>4, <3>5 DEF LinksInv
  <2> QED BY <2>1, <2>2
<1> QED BY <1>4, <1>5, <1>8, <1>9

(* free_worker_message_memory, from a delivery or from clean_worker_data.  *)
LEMMA DropReferenceInv ==
  ASSUME IInv, TypeOK', NEW w \in Workers, messages_queue[w] # <<>>, DropReference(w),
         pc[w] \in {"respond", "clean"}, pc'[w] \in {"idle", "clean"}, hand'[w] = None,
         \A u \in Workers \ {w} : pc'[u] = pc[u] /\ hand'[u] = hand[u],
         pc'[w] = "clean" => pc[w] = "clean",
         UNCHANGED <<now, ngx_time, targets>>
  PROVE  IInv'
<1> DEFINE m == Head(messages_queue[w])
<1> USE DEF IInv
<1>1. /\ m \in Messages /\ m \in ToSet(messages_queue[w]) /\ state[m] = "live"
      /\ IsInjective(Tail(messages_queue[w]))
      /\ ToSet(Tail(messages_queue[w])) = ToSet(messages_queue[w]) \ {m}
  <2>1. messages_queue[w] \in Seq(Messages) /\ IsInjective(messages_queue[w])
    BY DEF TypeOK, QueuesInv
  <2>2. /\ m \in Messages /\ m \in ToSet(messages_queue[w])
        /\ IsInjective(Tail(messages_queue[w]))
        /\ ToSet(Tail(messages_queue[w])) = ToSet(messages_queue[w]) \ {m}
    BY <2>1, TailFacts
  <2> QED BY <2>2 DEF QueuesInv
<1>2. /\ workers_ref_count' = [workers_ref_count EXCEPT ![m] = @ - 1]
      /\ messages_queue' = [messages_queue EXCEPT ![w] = Tail(@)]
      /\ UNCHANGED <<state, deleted, message_queue, messages_trash>>
      /\ \/ expires' = expires
         \/ expires' = [expires EXCEPT ![m] = ngx_time[w] + ObjectsTTL]
  BY DEF DropReference
<1> HIDE DEF m
<1>3. /\ ToSet(messages_queue'[w]) = ToSet(messages_queue[w]) \ {m}
      /\ IsInjective(messages_queue'[w])
      /\ \A u \in Workers \ {w} : messages_queue'[u] = messages_queue[u]
  BY <1>1, <1>2 DEF TypeOK, m
<1>4. ClocksInv' /\ LinksInv'
  BY <1>2 DEF ClocksInv, LinksInv
<1>5. HandInv'
  BY <1>3 DEF HandInv, PublisherSteps
<1>6. QueuesInv'
  BY <1>2, <1>3 DEF QueuesInv
<1>7. RefCountIsExact'
  <2> SUFFICES ASSUME NEW n \in Messages, state[n] = "live"
               PROVE  workers_ref_count'[n] = Cardinality(Holders(n)')
    BY <1>2 DEF RefCountIsExact
  <2>1. IsFiniteSet(Holders(n))
    BY WorkersAssumption, FS_Subset DEF Holders
  <2>2. CASE n = m
    <3>1. w \in Holders(n) /\ Holders(n)' = Holders(n) \ {w}
      BY <1>1, <1>3, <2>2 DEF Holders
    <3>2. Cardinality(Holders(n)') = Cardinality(Holders(n)) - 1
      BY <2>1, <3>1, FS_RemoveElement
    <3> QED BY <1>2, <2>2, <3>2 DEF RefCountIsExact, TypeOK
  <2>3. CASE n # m
    <3>1. Holders(n)' = Holders(n)
      BY <1>3, <2>3 DEF Holders
    <3> QED BY <1>2, <2>3, <3>1 DEF RefCountIsExact, TypeOK
  <2> QED BY <2>2, <2>3
<1>8. PublishInv'
  <2> SUFFICES ASSUME NEW u \in Workers, pc'[u] \in PublisherSteps
               PROVE  /\ state[hand'[u]] = "live"
                      /\ deleted[hand'[u]] => ngx_time[u] + ObjectsTTL <= expires'[hand'[u]] + HandlerTime
                      /\ pc'[u] \in {"limit", "broadcast"} =>
                           \A v \in Workers : hand'[u] \notin ToSet(messages_queue'[v])
                      /\ pc'[u] = "enqueue" =>
                           \A v \in targets[u] : hand'[u] \notin ToSet(messages_queue'[v])
    BY <1>2 DEF PublishInv
  <2>1. u # w /\ pc'[u] = pc[u] /\ hand'[u] = hand[u] /\ hand[u] \in Messages
    BY DEF PublisherSteps, HandInv, TypeOK
  <2>2. \A v \in Workers : ToSet(messages_queue'[v]) \subseteq ToSet(messages_queue[v])
    BY <1>3
  <2>3. targets[u] \subseteq Workers
    BY DEF TypeOK
  <2>4. deleted[hand[u]] => ngx_time[u] + ObjectsTTL <= expires'[hand[u]] + HandlerTime
    <3>1. CASE expires'[hand[u]] = expires[hand[u]]
      BY <2>1, <3>1 DEF PublishInv
    <3>2. CASE expires'[hand[u]] = ngx_time[w] + ObjectsTTL
      BY <3>2, DeadlineFacts
    <3>3. expires'[hand[u]] \in {expires[hand[u]], ngx_time[w] + ObjectsTTL}
      BY <1>1, <1>2, <2>1 DEF TypeOK
    <3> QED BY <3>1, <3>2, <3>3
  <2>5. state[hand[u]] = "live"
    BY <2>1 DEF PublishInv
  <2>6. pc[u] \in {"limit", "broadcast"} => \A v \in Workers : hand[u] \notin ToSet(messages_queue'[v])
    BY <2>1, <2>2 DEF PublishInv
  <2>7. pc[u] = "enqueue" => \A v \in targets[u] : hand[u] \notin ToSet(messages_queue'[v])
    BY <2>1, <2>2, <2>3 DEF PublishInv
  <2> QED BY <2>1, <2>4, <2>5, <2>6, <2>7
<1> QED BY <1>4, <1>5, <1>6, <1>7, <1>8

(* The heart of the matter: what FreeHead frees, nobody points to. Queued  *)
(* pointers are counted; the pointer of a publisher is out of use by then, *)
(* since its handler would have lasted too long.                           *)
LEMMA FreedIsUnused ==
  ASSUME IInv, NEW w \in Workers, pc[w] = "free", NEW m \in ToSet(messages_trash),
         CanFree(w, m)
  PROVE  /\ \A v \in Workers : m \notin ToSet(messages_queue[v])
         /\ \A v \in Workers : hand[v] # m
<1> USE DEF IInv
<1>1. m \in Messages /\ state[m] = "live" /\ deleted[m]
  BY MemberType DEF LinksInv, TypeOK
<1>2. Holders(m) = {}
  <2>1. IsFiniteSet(Holders(m))
    BY WorkersAssumption, FS_Subset DEF Holders
  <2>2. Cardinality(Holders(m)) \in Nat /\ Cardinality(Holders(m)) <= 0
    BY <1>1, <2>1, FS_CardinalityType DEF RefCountIsExact, CanFree
  <2>3. Cardinality(Holders(m)) = 0
    BY <2>2
  <2> QED BY <2>1, <2>3, FS_EmptySet
<1>3. \A v \in Workers : m \notin ToSet(messages_queue[v])
  BY <1>2 DEF Holders
<1>4. ASSUME NEW v \in Workers, hand[v] = m  PROVE FALSE
  <2>1. CASE pc[v] \in PublisherSteps
    <3>1. ngx_time[v] + ObjectsTTL <= expires[m] + HandlerTime
      BY <1>1, <1>4, <2>1 DEF PublishInv
    <3>2. now <= ngx_time[v] + HandlerTime
      BY <2>1 DEF ClocksInv, PublisherSteps
    <3>3. expires[m] < ngx_time[w] /\ ngx_time[w] <= now
      BY <1>1 DEF CanFree, ClocksInv, TypeOK
    <3>4. /\ ngx_time[v] \in Nat /\ ngx_time[w] \in Nat /\ now \in Nat
          /\ expires[m] \in Nat /\ ObjectsTTL \in Nat /\ HandlerTime \in Nat
      BY <1>1, ParametersAssumption DEF TypeOK
    <3> QED BY ONLY <3>1, <3>2, <3>3, <3>4, GraceAssumption
  <2>2. CASE pc[v] = "respond"
    <3>1. messages_queue[v] \in Seq(Messages) /\ messages_queue[v] # <<>>
          /\ Head(messages_queue[v]) = m
      BY <1>4, <2>2 DEF HandInv, TypeOK
    <3>2. m \in ToSet(messages_queue[v])
      BY <3>1, TailFacts
    <3> QED BY <1>3, <3>2
  <2>3. m # None
    BY <1>1, WorkersAssumption
  <2> QED BY <1>4, <2>1, <2>2, <2>3 DEF HandInv
<1> QED BY <1>3, <1>4

LEMMA FreeHeadInv ==
  ASSUME IInv, TypeOK', NEW w \in Workers, FreeHead(w)
  PROVE  IInv'
<1> DEFINE m == Head(messages_trash)
<1> USE DEF IInv
<1>1. /\ messages_trash # <<>> /\ messages_trash' = Tail(messages_trash)
      /\ pc[w] = "free" /\ CanFree(w, m)
      /\ state' = [state EXCEPT ![m] = "freed"]
      /\ UNCHANGED <<now, ngx_time, pc, hand, targets, deleted, expires,
                     workers_ref_count, message_queue, messages_queue>>
  BY DEF FreeHead, clock, sentinel
<1>2. /\ m \in Messages /\ m \in ToSet(messages_trash)
      /\ IsInjective(messages_trash')
      /\ ToSet(messages_trash') = ToSet(messages_trash) \ {m}
  BY <1>1, TailFacts DEF TypeOK, LinksInv
<1>3. /\ \A v \in Workers : m \notin ToSet(messages_queue[v])
      /\ \A v \in Workers : hand[v] # m
  BY <1>1, <1>2, FreedIsUnused
<1> HIDE DEF m
<1>4. \A n \in Messages \ {m} : state'[n] = state[n]
  BY <1>1 DEF TypeOK
<1>5. ClocksInv' /\ HandInv'
  BY <1>1 DEF ClocksInv, HandInv
<1>6. LinksInv'
  <2>1. ToSet(message_queue) \subseteq Messages /\ ToSet(messages_trash) \subseteq Messages
    BY MemberType DEF TypeOK
  <2>2. m \notin ToSet(message_queue)
    BY <1>2 DEF LinksInv
  <2> QED BY <1>1, <1>2, <1>4, <2>1, <2>2 DEF LinksInv
<1>7. QueuesInv'
  <2>1. \A v \in Workers : ToSet(messages_queue[v]) \subseteq Messages
    BY MemberType DEF TypeOK
  <2> QED BY <1>1, <1>3, <1>4, <2>1 DEF QueuesInv
<1>8. RefCountIsExact'
  <2>1. \A n \in Messages : state'[n] = "live" => state[n] = "live"
    BY <1>1, <1>4 DEF TypeOK
  <2>2. \A n \in Messages : Holders(n)' = Holders(n)
    BY <1>1 DEF Holders
  <2> QED BY <1>1, <2>1, <2>2 DEF RefCountIsExact
<1>9. PublishInv'
  <2>1. \A u \in Workers : pc[u] \in PublisherSteps => hand[u] \in Messages \ {m}
    BY <1>3 DEF HandInv, TypeOK
  <2> QED BY <1>1, <1>4, <2>1 DEF PublishInv
<1> QED BY <1>5, <1>6, <1>7, <1>8, <1>9

LEMMA InvStep == IInv /\ [Next]_vars => IInv'
<1> SUFFICES ASSUME IInv, [Next]_vars PROVE IInv'
  OBVIOUS
<1>1. TypeOK'
  BY TypeStep
<1>2. ASSUME NEW w \in Workers, NEW m \in Messages, NEW store \in BOOLEAN, AddMessage(w, m, store)
      PROVE  IInv'
  BY <1>1, <1>2, AddMessageInv
<1>3. ASSUME NEW w \in Workers, RemoveOldest(w) PROVE IInv'
  BY <1>1, <1>3, RemoveOldestInv
<1>4. ASSUME NEW w \in Workers, NEW v \in Workers, SendWorkerMessage(w, v) PROVE IInv'
  BY <1>1, <1>4, SendWorkerMessageInv
<1>5. ASSUME NEW w \in Workers, DiscardUnstored(w) PROVE IInv'
  BY <1>1, <1>5, DiscardUnstoredInv
<1>6. ASSUME NEW w \in Workers, Release(w) PROVE IInv'
  <2>1. pc[w] = "respond" /\ DropReference(w) /\ UNCHANGED <<now, ngx_time, targets>>
    BY <1>6 DEF Release, clock, sentinel
  <2>2. messages_queue[w] # <<>>
    BY <2>1 DEF IInv, HandInv
  <2>3. /\ pc'[w] = "idle" /\ hand'[w] = None
        /\ \A u \in Workers \ {w} : pc'[u] = pc[u] /\ hand'[u] = hand[u]
    BY <1>6 DEF Release, Goto, IInv, TypeOK
  <2> QED BY <1>1, <2>1, <2>2, <2>3, DropReferenceInv
<1>7. ASSUME NEW w \in Workers, FreeHead(w) PROVE IInv'
  BY <1>1, <1>7, FreeHeadInv
<1>8. ASSUME NEW w \in Workers, CleanQueue(w) PROVE IInv'
  <2>1. /\ pc[w] = "clean" /\ DropReference(w) /\ messages_queue[w] # <<>>
        /\ UNCHANGED <<now, ngx_time, pc, hand, targets>>
    BY <1>8 DEF CleanQueue, clock, sentinel
  <2>2. hand[w] = None
    BY <2>1 DEF IInv, HandInv, PublisherSteps
  <2> QED BY <1>1, <2>1, <2>2, DropReferenceInv
<1>9. ASSUME NEW w \in Workers,
             \/ RemoveDone(w) \/ BroadcastLock(w) \/ BroadcastUnlock(w)
             \/ Respond(w) \/ Subscribe(w) \/ FreeDone(w)
             \/ \E what \in {"expired", "all"} : Cleanup(w, what)
             \/ Crash(w) \/ Respawn(w) \/ CleanQueueDone(w) \/ UnsubscribeWorker(w)
      PROVE  IInv'
  BY <1>1, <1>9, LocalActions, LocalStepInv
<1>10. CASE Tick
  <2>1. /\ now' = now + 1
        /\ \A w \in Workers : pc[w] \notin {"idle", "dead"} => now < ngx_time[w] + HandlerTime
        /\ UNCHANGED <<ngx_time, pc, hand, targets, state, deleted, expires,
                       workers_ref_count, message_queue, messages_trash, messages_queue>>
    BY <1>10 DEF Tick, sentinel, record, queues
  <2>2. ClocksInv'
    <3>1. now \in Nat /\ HandlerTime \in Nat /\ \A w \in Workers : ngx_time[w] \in Nat
      BY ParametersAssumption DEF IInv, TypeOK
    <3> QED BY <2>1, <3>1 DEF IInv, ClocksInv
  <2>3. HandInv' /\ LinksInv' /\ QueuesInv' /\ PublishInv'
    BY <2>1 DEF IInv, HandInv, LinksInv, QueuesInv, PublishInv
  <2>4. RefCountIsExact'
    BY <2>1 DEF IInv, RefCountIsExact, Holders
  <2> QED BY <1>1, <2>2, <2>3, <2>4 DEF IInv
<1>11. CASE UNCHANGED vars
  <2>1. UNCHANGED <<now, ngx_time, pc, hand, targets, state, deleted, expires,
                    workers_ref_count, message_queue, messages_trash, messages_queue>>
    BY <1>11 DEF vars, clock, sentinel, record, queues
  <2>2. ClocksInv' /\ HandInv' /\ LinksInv' /\ QueuesInv' /\ PublishInv'
    BY <2>1 DEF IInv, ClocksInv, HandInv, LinksInv, QueuesInv, PublishInv
  <2>3. RefCountIsExact'
    BY <2>1 DEF IInv, RefCountIsExact, Holders
  <2> QED BY <1>1, <2>2, <2>3 DEF IInv
<1> QED
  BY <1>2, <1>3, <1>4, <1>5, <1>6, <1>7, <1>8, <1>9, <1>10, <1>11
     DEF Next, Publisher, Housekeeping, Lifecycle

----------------------------------------------------------------------------
(* What IInv says of the pointers and the lists.                           *)

LEMMA InvDangling == IInv => NoDanglingPointer
<1> SUFFICES ASSUME IInv PROVE NoDanglingPointer
  OBVIOUS
<1> USE DEF IInv
<1>1. ASSUME NEW w \in Workers, hand[w] # None  PROVE state[hand[w]] = "live"
  <2>1. CASE pc[w] \in PublisherSteps
    BY <2>1 DEF PublishInv
  <2>2. CASE pc[w] = "respond"
    <3>1. messages_queue[w] \in Seq(Messages) /\ messages_queue[w] # <<>>
          /\ Head(messages_queue[w]) = hand[w]
      BY <2>2 DEF HandInv, TypeOK
    <3>2. hand[w] \in ToSet(messages_queue[w])
      BY <3>1, TailFacts
    <3> QED BY <3>2 DEF QueuesInv
  <2> QED BY <1>1, <2>1, <2>2 DEF HandInv
<1> QED BY <1>1 DEF NoDanglingPointer, QueuesInv

LEMMA InvLinked == IInv => LinkedOnce
BY DEF IInv, LinksInv, LinkedOnce, Linked

(* The invariant: everything below is read off it.                         *)
THEOREM Invariance == Spec => []IInv
<1>1. Init => IInv
  BY InitInv
<1>2. IInv /\ [Next]_vars => IInv'
  BY InvStep
<1> QED BY <1>1, <1>2, PTL DEF Spec

(* The handlers keep every field and every list of the shared memory well  *)
(* formed.                                                                 *)
THEOREM TypeCorrect == Spec => []TypeOK
<1>1. IInv => TypeOK
  BY DEF IInv
<1> QED BY <1>1, Invariance, PTL

(* No worker ever follows a pointer to a message whose memory went back to *)
(* the slab pool, provided the grace period is twice the longest handler.  *)
THEOREM NoUseAfterFree == Spec => []NoDanglingPointer
<1> QED BY InvDangling, Invariance, PTL

(* The counter that free_memory_of_expired_messages trusts is the number   *)
(* of queued references, whatever crashes and restarts came before.        *)
THEOREM ExactReferences == Spec => []RefCountIsExact
<1>1. IInv => RefCountIsExact
  BY DEF IInv
<1> QED BY <1>1, Invariance, PTL

(* A record is never linked twice, so never freed twice.                   *)
THEOREM NoDoubleLink == Spec => []LinkedOnce
<1> QED BY InvLinked, Invariance, PTL

----------------------------------------------------------------------------
(* Shared memory does not leak. A message that is in no list is held by    *)
(* its publisher; links are only given up from one list to the other or    *)
(* with the memory, and publishers only let go when they have linked.      *)

(* A step that links and frees nothing, and leaves the publishers alone.   *)
LEMMA UnlinkedStep ==
  ASSUME NoLeak, UNCHANGED <<state, message_queue, messages_trash>>, crashes' = 0 => crashes = 0,
         \A v \in Workers : pc[v] \in PublisherSteps =>
           pc'[v] \in PublisherSteps /\ hand'[v] = hand[v]
  PROVE  NoLeak'
BY DEF NoLeak, Linked

(* How the lists change: each message in a list stays in one of them, or   *)
(* is freed.                                                               *)
LEMMA AddMessageLeak ==
  ASSUME TypeOK, NoLeak, NEW w \in Workers, NEW m \in Messages, NEW store \in BOOLEAN,
         AddMessage(w, m, store)
  PROVE  NoLeak'
<1>1. /\ pc[w] = "idle" /\ pc' = [pc EXCEPT ![w] = "limit"] /\ hand' = [hand EXCEPT ![w] = m]
      /\ state' = [state EXCEPT ![m] = "live"]
      /\ message_queue' = IF store THEN Append(message_queue, m) ELSE message_queue
      /\ UNCHANGED <<messages_trash, crashes>>
  BY DEF AddMessage, Start, Goto
<1>2. ToSet(message_queue) \subseteq ToSet(message_queue')
  <2>1. ToSet(Append(message_queue, m)) = ToSet(message_queue) \cup {m}
    BY AppendFacts DEF TypeOK
  <2> QED
    BY <1>1, <2>1
<1>3. SUFFICES ASSUME crashes = 0, NEW n \in Messages, state'[n] = "live", ~Linked(n)'
               PROVE  \E v \in Workers : hand'[v] = n /\ pc'[v] \in PublisherSteps
  BY <1>1 DEF NoLeak
<1>4. CASE n = m
  BY <1>1, <1>4 DEF TypeOK, PublisherSteps
<1>5. CASE n # m
  <2>1. state[n] = "live" /\ ~Linked(n)
    BY <1>1, <1>2, <1>3, <1>5 DEF TypeOK, Linked
  <2>2. PICK v \in Workers : hand[v] = n /\ pc[v] \in PublisherSteps
    BY <1>3, <2>1 DEF NoLeak
  <2>3. v # w
    BY <1>1, <2>2 DEF PublisherSteps
  <2> QED
    BY <1>1, <2>2, <2>3 DEF TypeOK
<1> QED
  BY <1>4, <1>5

LEMMA RemoveOldestLeak ==
  ASSUME TypeOK, LinksInv, NoLeak, NEW w \in Workers, RemoveOldest(w)
  PROVE  NoLeak'
<1>1. /\ message_queue # <<>> /\ message_queue' = Tail(message_queue)
      /\ messages_trash' = Append(messages_trash, Head(message_queue))
      /\ UNCHANGED <<state, pc, hand, crashes>>
  BY DEF RemoveOldest, MustRemoveOldest, ThrowAway
<1>2. /\ Head(message_queue) \in Messages
      /\ ToSet(message_queue') = ToSet(message_queue) \ {Head(message_queue)}
  BY <1>1, TailFacts DEF TypeOK, LinksInv
<1>3. ToSet(messages_trash') = ToSet(messages_trash) \cup {Head(message_queue)}
  BY <1>1, <1>2, AppendFacts DEF TypeOK
<1> QED
  BY <1>1, <1>2, <1>3 DEF NoLeak, Linked

LEMMA DiscardUnstoredLeak ==
  ASSUME TypeOK, HandInv, NoLeak, NEW w \in Workers, DiscardUnstored(w)
  PROVE  NoLeak'
<1>1. /\ pc[w] = "check" /\ pc' = [pc EXCEPT ![w] = "idle"] /\ hand' = [hand EXCEPT ![w] = None]
      /\ UNCHANGED <<state, message_queue, crashes>>
      /\ IF Linked(hand[w]) THEN UNCHANGED messages_trash
         ELSE messages_trash' = Append(messages_trash, hand[w])
  BY DEF DiscardUnstored, Goto, ThrowAway
<1>2. hand[w] \in Messages
  BY <1>1 DEF TypeOK, HandInv, PublisherSteps
<1>3. ToSet(Append(messages_trash, hand[w])) = ToSet(messages_trash) \cup {hand[w]}
  BY <1>2, AppendFacts DEF TypeOK
<1>4. /\ \A m \in Messages : Linked(m) => Linked(m)'
      /\ hand[w] \in ToSet(message_queue') \cup ToSet(messages_trash')
  BY <1>1, <1>3 DEF Linked
<1>5. ASSUME NEW m \in Messages, state'[m] = "live", ~Linked(m)', crashes' = 0
      PROVE  \E v \in Workers : hand'[v] = m /\ pc'[v] \in PublisherSteps
  <2>1. PICK v \in Workers : hand[v] = m /\ pc[v] \in PublisherSteps
    BY <1>1, <1>4, <1>5 DEF NoLeak
  <2>2. v # w
    BY <1>1, <1>2, <1>3, <1>5, <2>1 DEF Linked
  <2> QED
    BY <1>1, <2>1, <2>2 DEF TypeOK
<1> QED
  BY <1>5 DEF NoLeak

LEMMA FreeHeadLeak ==
  ASSUME TypeOK, LinksInv, NoLeak, NEW w \in Workers, FreeHead(w)
  PROVE  NoLeak'
<1>1. /\ messages_trash # <<>> /\ messages_trash' = Tail(messages_trash)
      /\ state' = [state EXCEPT ![Head(messages_trash)] = "freed"]
      /\ UNCHANGED <<message_queue, pc, hand, crashes>>
  BY DEF FreeHead
<1>2. ToSet(messages_trash') = ToSet(messages_trash) \ {Head(messages_trash)}
  BY <1>1, TailFacts DEF TypeOK, LinksInv
<1>3. \A m \in Messages : state'[m] = "live" => state[m] = "live" /\ m # Head(messages_trash)
  BY <1>1 DEF TypeOK
<1> QED
  BY <1>1, <1>2, <1>3 DEF NoLeak, Linked

(* One step per action; the death of a worker is what NoLeak leaves out.   *)
LEMMA LeakStep ==
  ASSUME IInv, NoLeak, [Next]_vars
  PROVE  NoLeak'
<1>0. TypeOK /\ HandInv /\ LinksInv
  BY DEF IInv
<1>1. ASSUME NEW w \in Workers, Publisher(w)
      PROVE  NoLeak'
  <2>1. ASSUME RemoveDone(w) \/ BroadcastLock(w) \/ BroadcastUnlock(w)
               \/ \E v \in Workers : SendWorkerMessage(w, v)
        PROVE  NoLeak'
    <3>1. UNCHANGED <<state, message_queue, messages_trash, crashes, hand>>
      BY <2>1 DEF RemoveDone, BroadcastLock, BroadcastUnlock, SendWorkerMessage, record, queues
    <3>2. \A v \in Workers : pc[v] \in PublisherSteps => pc'[v] \in PublisherSteps
      BY <1>0, <2>1 DEF RemoveDone, BroadcastLock, BroadcastUnlock, SendWorkerMessage, Goto,
                        PublisherSteps, TypeOK
    <3> QED
      BY <3>1, <3>2, UnlinkedStep
  <2> QED
    BY <1>0, <1>1, <2>1, AddMessageLeak, RemoveOldestLeak, DiscardUnstoredLeak DEF Publisher
<1>2. ASSUME NEW w \in Workers,
             Respond(w) \/ Release(w) \/ Subscribe(w) \/ FreeDone(w)
             \/ (\E what \in {"expired", "all"} : Cleanup(w, what))
             \/ Respawn(w) \/ CleanQueue(w) \/ CleanQueueDone(w) \/ UnsubscribeWorker(w)
      PROVE  NoLeak'
  <2>1. UNCHANGED <<state, message_queue, messages_trash, crashes>>
    BY <1>2 DEF Respond, Release, Subscribe, FreeDone, Cleanup, Respawn, CleanQueue,
                CleanQueueDone, UnsubscribeWorker, DropReference, record, queues
  <2>2. /\ pc[w] \notin PublisherSteps
        /\ \E label : pc' = [pc EXCEPT ![w] = label]
        /\ hand' = hand \/ \E m : hand' = [hand EXCEPT ![w] = m]
    <3>1. pc' = pc => pc' = [pc EXCEPT ![w] = pc[w]]
      BY <1>0 DEF TypeOK
    <3> QED
      BY <1>2, <3>1 DEF Respond, Release, Subscribe, FreeDone, Cleanup, Respawn, CleanQueue,
           CleanQueueDone, UnsubscribeWorker, DropReference, Start, Goto, PublisherSteps
  <2>3. \A v \in Workers : pc[v] \in PublisherSteps => pc'[v] = pc[v] /\ hand'[v] = hand[v]
    BY <1>0, <2>2 DEF TypeOK
  <2> QED
    BY <2>1, <2>3, UnlinkedStep
<1>3. ASSUME NEW w \in Workers, Crash(w)
      PROVE  NoLeak'
  <2>1. crashes' # 0
    BY <1>0, <1>3 DEF Crash, TypeOK
  <2> QED
    BY <2>1 DEF NoLeak
<1>4. ASSUME NEW w \in Workers, FreeHead(w)
      PROVE  NoLeak'
  BY <1>0, <1>4, FreeHeadLeak
<1>5. ASSUME Tick \/ UNCHANGED vars
      PROVE  NoLeak'
  <2>1. UNCHANGED <<state, message_queue, messages_trash, crashes, pc, hand>>
    BY <1>5 DEF Tick, vars, record, queues
  <2> QED
    BY <2>1, UnlinkedStep
<1> QED
  BY <1>1, <1>2, <1>3, <1>4, <1>5 DEF Next, Housekeeping, Lifecycle

(* While no worker dies, every message that has been allocated and not     *)
(* freed can still be found: in a list, or in the hands of its publisher.  *)
THEOREM MemoryDoesNotLeak == Spec => []NoLeak
<1>1. Init => NoLeak
  BY DEF Init, NoLeak
<1>2. IInv /\ NoLeak /\ [Next]_vars => NoLeak'
  BY LeakStep
<1> QED
  BY <1>1, <1>2, Invariance, PTL DEF Spec

----------------------------------------------------------------------------
(* The module implements RecordLifetime.                                   *)

(* A step that gives no new pointer and takes away at most the pointer of  *)
(* w to m is a Drop or is not seen at all.                                 *)
LEMMA DropRefines ==
  ASSUME NEW w \in Workers, NEW m \in Messages, UNCHANGED state,
         \A n \in Messages \ {m} : Pointers'[n] = Pointers[n],
         Pointers'[m] \in {Pointers[m], Pointers[m] \ {w}}
  PROVE  [Lifetime!Next]_(Lifetime!vars)
<1> DEFINE P == Pointers
           Q == Pointers'
<1>0. P = [n \in Messages |-> P[n]] /\ Q = [n \in Messages |-> Q[n]]
  BY DEF Pointers
<1> HIDE DEF P, Q
<1>1. CASE Q[m] = P[m]
  <2>1. \A n \in Messages : Q[n] = P[n]
    BY <1>1 DEF P, Q
  <2>2. Q = P
    BY <1>0, <2>1
  <2> QED BY <2>2 DEF Lifetime!vars, P, Q
<1>2. CASE w \in P[m] /\ Q[m] = P[m] \ {w}
  <2>1. \A n \in Messages : Q[n] = [P EXCEPT ![m] = @ \ {w}][n]
    BY <1>0, <1>2 DEF P, Q
  <2>2. Q = [P EXCEPT ![m] = @ \ {w}]
    BY <1>0, <2>1
  <2>3. Lifetime!Drop(m, w)
    BY <1>2, <2>2 DEF Lifetime!Drop, P, Q
  <2> QED BY <2>3 DEF Lifetime!Next
<1> QED BY <1>1, <1>2 DEF P, Q

(* Who has a pointer, spelled out.                                         *)
LEMMA PointerFacts ==
  ASSUME NEW m \in Messages
  PROVE  /\ Pointers[m] \subseteq Workers
         /\ Pointers'[m] \subseteq Workers
         /\ \A u \in Workers : u \in Pointers[m] <=> hand[u] = m \/ m \in ToSet(messages_queue[u])
         /\ \A u \in Workers : u \in Pointers'[m] <=> hand'[u] = m \/ m \in ToSet(messages_queue'[u])
BY DEF Pointers, Holders

LEMMA AddMessageRefines ==
  ASSUME IInv, IInv', NEW w \in Workers, NEW m \in Messages, NEW store \in BOOLEAN,
         AddMessage(w, m, store)
  PROVE  Lifetime!Allocate(m, w)
<1> USE DEF IInv
<1>1. /\ state[m] = "unused" /\ state' = [state EXCEPT ![m] = "live"]
      /\ hand' = [hand EXCEPT ![w] = m] /\ UNCHANGED messages_queue
      /\ pc[w] = "idle"
  BY DEF AddMessage, Start
<1>2. hand[w] = None
  BY <1>1 DEF HandInv, PublisherSteps
<1>3. \A v \in Workers : hand[v] # m /\ m \notin ToSet(messages_queue[v])
  <2>1. NoDanglingPointer
    BY InvDangling
  <2> QED BY <1>1, <2>1, WorkersAssumption DEF NoDanglingPointer
<1>4. /\ hand'[w] = m
      /\ \A v \in Workers \ {w} : hand'[v] = hand[v]
  BY <1>1 DEF TypeOK
<1>5. Pointers'[m] = {w}
  BY <1>1, <1>3, <1>4, PointerFacts
<1>6. ASSUME NEW n \in Messages, n # m  PROVE Pointers'[n] = Pointers[n]
  <2>1. n # None
    BY WorkersAssumption
  <2>2. \A u \in Workers : u \in Pointers'[n] <=> u \in Pointers[n]
    BY <1>1, <1>2, <1>4, <1>6, <2>1, PointerFacts
  <2> QED BY <2>2, PointerFacts
<1>7. Pointers' = [Pointers EXCEPT ![m] = {w}]
  BY <1>5, <1>6 DEF Pointers
<1> QED BY <1>1, <1>7 DEF Lifetime!Allocate

LEMMA SendWorkerMessageRefines ==
  ASSUME IInv, IInv', NEW w \in Workers, NEW v \in Workers, SendWorkerMessage(w, v)
  PROVE  [Lifetime!Next]_(Lifetime!vars)
<1> DEFINE m == hand[w]
<1> USE DEF IInv
<1>1. pc[w] = "enqueue" /\ UNCHANGED <<hand, state>>
  BY DEF SendWorkerMessage
<1>2. m \in Messages /\ state[m] = "live"
  BY <1>1 DEF HandInv, PublishInv, PublisherSteps, TypeOK
<1>3. CASE UNCHANGED messages_queue
  BY <1>1, <1>3 DEF Lifetime!vars, Pointers, Holders
<1>4. CASE messages_queue' = [messages_queue EXCEPT ![v] = Append(@, m)]
  <2>1. /\ messages_queue'[v] = Append(messages_queue[v], m)
        /\ \A u \in Workers \ {v} : messages_queue'[u] = messages_queue[u]
        /\ messages_queue[v] \in Seq(Messages)
    BY <1>4 DEF TypeOK
  <2>2. ToSet(messages_queue'[v]) = ToSet(messages_queue[v]) \cup {m}
    <3> HIDE DEF m
    <3> QED BY ONLY <1>2, <2>1, AppendFacts
  <2>3. w \in Pointers[m]
    BY <1>2, PointerFacts
  <2>4. Pointers'[m] = Pointers[m] \cup {v}
    <3>1. \A u \in Workers : u \in Pointers'[m] <=> u \in Pointers[m] \cup {v}
      BY <1>1, <1>2, <2>1, <2>2, PointerFacts
    <3> QED BY <1>2, <3>1, PointerFacts
  <2>5. ASSUME NEW n \in Messages, n # m  PROVE Pointers'[n] = Pointers[n]
    <3>1. \A u \in Workers : u \in Pointers'[n] <=> u \in Pointers[n]
      BY <1>1, <2>1, <2>2, <2>5, PointerFacts
    <3> QED BY <3>1, PointerFacts
  <2>6. Pointers' = [Pointers EXCEPT ![m] = @ \cup {v}]
    BY <2>4, <2>5 DEF Pointers
  <2>7. Lifetime!Pass(m, w, v)
    BY <1>1, <1>2, <2>3, <2>6 DEF Lifetime!Pass
  <2> QED BY <1>2, <2>7 DEF Lifetime!Next
<1> QED BY <1>3, <1>4 DEF SendWorkerMessage

(* DiscardUnstored and Crash let go of what the handler had in hand.       *)
LEMMA LetGoRefines ==
  ASSUME IInv, NEW w \in Workers, hand' = [hand EXCEPT ![w] = None],
         UNCHANGED <<state, messages_queue>>
  PROVE  [Lifetime!Next]_(Lifetime!vars)
<1>1. hand'[w] = None /\ \A u \in Workers \ {w} : hand'[u] = hand[u]
  BY DEF IInv, TypeOK
<1>2. CASE hand[w] = None
  <2>1. \A u \in Workers : hand'[u] = hand[u]
    BY <1>1, <1>2
  <2> QED BY <2>1 DEF Lifetime!vars, Pointers, Holders
<1>3. CASE hand[w] # None
  <2> DEFINE m == hand[w]
  <2>1. m \in Messages
    BY <1>3 DEF IInv, TypeOK
  <2>2. hand[w] = m
    OBVIOUS
  <2> HIDE DEF m
  <2>3. ASSUME NEW n \in Messages \ {m}  PROVE Pointers'[n] = Pointers[n]
    <3>1. n # None
      BY WorkersAssumption
    <3>2. \A u \in Workers : u \in Pointers'[n] <=> u \in Pointers[n]
      BY <1>1, <2>2, <3>1, PointerFacts
    <3> QED BY <3>2, PointerFacts
  <2>4. Pointers'[m] \in {Pointers[m], Pointers[m] \ {w}}
    <3>1. m # None
      BY <2>1, WorkersAssumption
    <3>2. \A u \in Workers \ {w} : u \in Pointers'[m] <=> u \in Pointers[m]
      BY <1>1, <2>1, PointerFacts
    <3>3. w \in Pointers[m]
      BY <2>1, <2>2, PointerFacts
    <3>4. CASE w \in Pointers'[m]
      BY <2>1, <3>2, <3>3, <3>4, PointerFacts
    <3>5. CASE w \notin Pointers'[m]
      BY <2>1, <3>2, <3>5, PointerFacts
    <3> QED BY <3>4, <3>5
  <2> QED BY <2>1, <2>3, <2>4, DropRefines
<1> QED BY <1>2, <1>3

LEMMA DropReferenceRefines ==
  ASSUME IInv, NEW w \in Workers, messages_queue[w] # <<>>, DropReference(w),
         hand'[w] = None, hand[w] \in {None, Head(messages_queue[w])},
         \A u \in Workers \ {w} : hand'[u] = hand[u]
  PROVE  [Lifetime!Next]_(Lifetime!vars)
<1> DEFINE m == Head(messages_queue[w])
<1>1. messages_queue[w] \in Seq(Messages) /\ IsInjective(messages_queue[w])
  BY DEF IInv, TypeOK, QueuesInv
<1>2. /\ m \in Messages /\ m \in ToSet(messages_queue[w])
      /\ ToSet(Tail(messages_queue[w])) = ToSet(messages_queue[w]) \ {m}
  BY <1>1, TailFacts
<1>3. /\ messages_queue' = [messages_queue EXCEPT ![w] = Tail(@)]
      /\ UNCHANGED state
  BY DEF DropReference
<1>4. /\ ToSet(messages_queue'[w]) = ToSet(messages_queue[w]) \ {m}
      /\ \A u \in Workers \ {w} : messages_queue'[u] = messages_queue[u]
  BY <1>2, <1>3 DEF IInv, TypeOK
<1>5. hand[w] \in {None, m}
  OBVIOUS
<1> HIDE DEF m
<1>6. ASSUME NEW n \in Messages \ {m}  PROVE Pointers'[n] = Pointers[n]
  <2>1. n # None
    BY WorkersAssumption
  <2>2. \A u \in Workers : u \in Pointers'[n] <=> u \in Pointers[n]
    BY <1>4, <1>5, <2>1, PointerFacts
  <2> QED BY <2>2, PointerFacts
<1>7. Pointers'[m] = Pointers[m] \ {w}
  <2>1. m # None
    BY <1>2, WorkersAssumption
  <2>2. \A u \in Workers : u \in Pointers'[m] <=> u \in Pointers[m] \ {w}
    BY <1>2, <1>4, <1>5, <2>1, PointerFacts
  <2> QED BY <1>2, <2>2, PointerFacts
<1> QED BY <1>2, <1>3, <1>6, <1>7, DropRefines

LEMMA RespondRefines ==
  ASSUME IInv, NEW w \in Workers, Respond(w)
  PROVE  [Lifetime!Next]_(Lifetime!vars)
<1>1. /\ pc[w] = "idle" /\ messages_queue[w] # <<>>
      /\ hand' = [hand EXCEPT ![w] = Head(messages_queue[w])]
      /\ UNCHANGED <<state, messages_queue>>
  BY DEF Respond, Start, record, queues
<1>2. messages_queue[w] \in Seq(Messages) /\ hand[w] = None
  BY <1>1 DEF IInv, TypeOK, HandInv, PublisherSteps
<1>3. Head(messages_queue[w]) \in ToSet(messages_queue[w])
  BY <1>1, <1>2, TailFacts
<1>4. /\ hand'[w] = Head(messages_queue[w])
      /\ \A u \in Workers \ {w} : hand'[u] = hand[u]
  BY <1>1 DEF IInv, TypeOK
<1>5. ASSUME NEW n \in Messages  PROVE Pointers'[n] = Pointers[n]
  <2>1. n # None
    BY WorkersAssumption
  <2>2. \A u \in Workers : u \in Pointers'[n] <=> u \in Pointers[n]
    BY <1>1, <1>2, <1>3, <1>4, <2>1, PointerFacts
  <2> QED BY <2>2, PointerFacts
<1>6. Pointers' = Pointers
  BY <1>5 DEF Pointers
<1> QED BY <1>1, <1>6 DEF Lifetime!vars

LEMMA FreeHeadRefines ==
  ASSUME IInv, NEW w \in Workers, FreeHead(w)
  PROVE  [Lifetime!Next]_(Lifetime!vars)
<1> DEFINE m == Head(messages_trash)
<1>1. /\ messages_trash # <<>> /\ pc[w] = "free" /\ CanFree(w, m)
      /\ state' = [state EXCEPT ![m] = "freed"]
      /\ UNCHANGED <<hand, messages_queue>>
  BY DEF FreeHead
<1>2. m \in Messages /\ m \in ToSet(messages_trash)
  BY <1>1, TailFacts DEF IInv, TypeOK
<1>3. state[m] = "live"
  BY <1>2 DEF IInv, LinksInv
<1>4. /\ \A v \in Workers : m \notin ToSet(messages_queue[v])
      /\ \A v \in Workers : hand[v] # m
  BY <1>1, <1>2, FreedIsUnused
<1> HIDE DEF m
<1>5. Pointers[m] = {}
  BY <1>2, <1>4, PointerFacts
<1>6. Pointers' = Pointers
  BY <1>1 DEF Pointers, Holders
<1>7. Lifetime!Free(m)
  BY <1>1, <1>3, <1>5, <1>6 DEF Lifetime!Free
<1> QED BY <1>2, <1>7 DEF Lifetime!Next

LEMMA StepRefines == IInv /\ IInv' /\ [Next]_vars => [Lifetime!Next]_(Lifetime!vars)
<1> SUFFICES ASSUME IInv, IInv', [Next]_vars PROVE [Lifetime!Next]_(Lifetime!vars)
  OBVIOUS
<1>1. ASSUME NEW w \in Workers, NEW m \in Messages, NEW store \in BOOLEAN, AddMessage(w, m, store)
      PROVE  [Lifetime!Next]_(Lifetime!vars)
  BY <1>1, AddMessageRefines DEF Lifetime!Next
<1>2. ASSUME NEW w \in Workers, NEW v \in Workers, SendWorkerMessage(w, v)
      PROVE  [Lifetime!Next]_(Lifetime!vars)
  BY <1>2, SendWorkerMessageRefines
<1>3. ASSUME NEW w \in Workers, DiscardUnstored(w) \/ Crash(w)
      PROVE  [Lifetime!Next]_(Lifetime!vars)
  <2>1. hand' = [hand EXCEPT ![w] = None] /\ UNCHANGED <<state, messages_queue>>
    BY <1>3 DEF DiscardUnstored, Crash, record, queues
  <2> QED BY <2>1, LetGoRefines
<1>4. ASSUME NEW w \in Workers, Release(w)
      PROVE  [Lifetime!Next]_(Lifetime!vars)
  <2>1. /\ pc[w] = "respond" /\ DropReference(w)
        /\ hand' = [hand EXCEPT ![w] = None]
    BY <1>4 DEF Release
  <2>2. messages_queue[w] # <<>> /\ hand[w] = Head(messages_queue[w])
    BY <2>1 DEF IInv, HandInv
  <2>3. hand'[w] = None /\ \A u \in Workers \ {w} : hand'[u] = hand[u]
    BY <2>1 DEF IInv, TypeOK
  <2> QED BY <2>1, <2>2, <2>3, DropReferenceRefines
<1>5. ASSUME NEW w \in Workers, CleanQueue(w)
      PROVE  [Lifetime!Next]_(Lifetime!vars)
  <2>1. pc[w] = "clean" /\ DropReference(w) /\ messages_queue[w] # <<>> /\ UNCHANGED hand
    BY <1>5 DEF CleanQueue
  <2>2. hand[w] = None
    BY <2>1 DEF IInv, HandInv, PublisherSteps
  <2> QED BY <2>1, <2>2, DropReferenceRefines
<1>6. ASSUME NEW w \in Workers, Respond(w)
      PROVE  [Lifetime!Next]_(Lifetime!vars)
  BY <1>6, RespondRefines
<1>7. ASSUME NEW w \in Workers, FreeHead(w)
      PROVE  [Lifetime!Next]_(Lifetime!vars)
  BY <1>7, FreeHeadRefines
<1>8. ASSUME UNCHANGED <<hand, state, messages_queue>>
      PROVE  [Lifetime!Next]_(Lifetime!vars)
  BY <1>8 DEF Lifetime!vars, Pointers, Holders
<1>9. ASSUME NEW w \in Workers,
             \/ RemoveOldest(w) \/ RemoveDone(w) \/ BroadcastLock(w) \/ BroadcastUnlock(w)
             \/ Subscribe(w) \/ FreeDone(w)
             \/ \E what \in {"expired", "all"} : Cleanup(w, what)
             \/ Respawn(w) \/ CleanQueueDone(w) \/ UnsubscribeWorker(w)
      PROVE  [Lifetime!Next]_(Lifetime!vars)
  BY <1>8, <1>9 DEF RemoveOldest, RemoveDone, BroadcastLock, BroadcastUnlock, Subscribe,
     FreeDone, Cleanup, Respawn, CleanQueueDone, UnsubscribeWorker, record, queues
<1>10. CASE Tick
  BY <1>8, <1>10 DEF Tick, record, queues
<1>11. CASE UNCHANGED vars
  BY <1>8, <1>11 DEF vars, record, queues
<1> QED
  BY <1>1, <1>2, <1>3, <1>4, <1>5, <1>6, <1>7, <1>9, <1>10, <1>11
     DEF Next, Publisher, Housekeeping, Lifecycle

(* The counter and the grace period together are as good as tracking every *)
(* pointer: memory is returned only when no worker has one.                *)
THEOREM Refinement == Spec => ImplementsLifetime
<1>1. Init => Lifetime!Init
  BY EmptyFacts, WorkersAssumption DEF Init, Lifetime!Init, Pointers, Holders
<1>2. IInv /\ IInv' /\ [Next]_vars => [Lifetime!Next]_(Lifetime!vars)
  BY StepRefines
<1> QED BY <1>1, <1>2, Invariance, PTL DEF Spec, ImplementsLifetime, Lifetime!Spec
============================================================================

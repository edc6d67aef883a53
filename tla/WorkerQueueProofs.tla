------------------------- MODULE WorkerQueueProofs -------------------------
(***************************************************************************)
(* No wake-up is lost, for any number of workers, channels and messages,   *)
(* as long as the sockets have room for one command more than the commands *)
(* of other kinds that wait in them.                                       *)
(*                                                                         *)
(* The argument: an alert that is not sent is not needed. A publisher that *)
(* found a queue not empty relies on whoever alerted, or will alert, about *)
(* the messages already there, or on the delivery loop that has still to   *)
(* find the queue empty; a publisher whose command does not fit relies on  *)
(* a CHECK_MESSAGES among those that fill the socket.                      *)
(***************************************************************************)
EXTENDS WorkerQueue, SequenceTheorems, TLAPS

(* The queue of a worker that is responding still holds the message it     *)
(* responds to, so unlinking it is safe.                                   *)
Responding(w) ==
  \/ pc[w] = "respond"
  \/ pc[w] \in {"enqueue", "alert"} /\ caller[w] = "respond"

RespondInv == \A w \in Workers : Responding(w) => messages_queue[w] # <<>>

(* broadcast has its arguments, and its first loop the mutex.              *)
BroadcastInv ==
  \A w \in Workers :
    /\ pc[w] \in {"enqueue", "alert"} => channel[w] \in Channels /\ hand[w] \in Messages
    /\ pc[w] = "enqueue" => channel_mutex[channel[w]] = w

OthersInv == \A w \in Workers : others[w] <= MaxOthers

UpInv == crashes = 0 => \A w \in Workers : Up(w)

IInv == TypeOK /\ RespondInv /\ BroadcastInv /\ OthersInv /\ UpInv

----------------------------------------------------------------------------
(* The supporting invariant holds initially and is preserved.              *)
LEMMA InitIInv == Init => IInv /\ NoLostWakeup
BY ConstantsAssumption
   DEF Init, IInv, TypeOK, RespondInv, Responding, BroadcastInv, OthersInv, UpInv, Up,
       Labels, NoLostWakeup

(* What is put in a queue makes it not empty.                              *)
LEMMA AppendIsNotEmpty ==
  ASSUME NEW S, NEW s \in Seq(S), NEW e \in S
  PROVE  Append(s, e) # <<>>
<1>1. Len(Append(s, e)) = Len(s) + 1 /\ Len(s) \in Nat
  BY AppendProperties
<1>2. Len(<<>>) = 0
  OBVIOUS
<1> QED
  BY <1>1, <1>2

(* Types are preserved.                                                    *)
LEMMA TypePreserved == IInv /\ [Next]_vars => TypeOK'
<1> SUFFICES ASSUME IInv, [Next]_vars PROVE TypeOK'
  OBVIOUS
<1> USE ConstantsAssumption DEF IInv, TypeOK, Labels, Goto
<1>1. CASE UNCHANGED vars
  BY <1>1 DEF vars, socket, locals
<1>2. ASSUME NEW w \in Workers, NEW v \in Workers, Enqueue(w, v) PROVE TypeOK'
  <2>1. messages_queue' \in [Workers -> Seq(Messages)]
    <3>1. hand[w] \in Messages
      BY <1>2 DEF Enqueue, BroadcastInv
    <3>2. Append(messages_queue[v], hand[w]) \in Seq(Messages)
      BY <3>1
    <3> QED
      BY <1>2, <3>2 DEF Enqueue
  <2>2. visited' \in [Workers -> SUBSET Workers]
    BY <1>2 DEF Enqueue, Visit
  <2>3. queue_was_empty' \in [Workers -> SUBSET Workers]
    <3>1. queue_was_empty[w] \cup {v} \in SUBSET Workers /\ queue_was_empty[w] \ {v} \in SUBSET Workers
      OBVIOUS
    <3>2. \/ queue_was_empty' = queue_was_empty
          \/ queue_was_empty' = [queue_was_empty EXCEPT ![w] = queue_was_empty[w] \cup {v}]
          \/ queue_was_empty' = [queue_was_empty EXCEPT ![w] = queue_was_empty[w] \ {v}]
      BY <1>2 DEF Enqueue
    <3> QED
      BY <3>1, <3>2, ZenonT(60)
  <2> QED
    BY <1>2, <2>1, <2>2, <2>3 DEF Enqueue, socket
<1>3. ASSUME NEW w \in Workers, NEW v \in Workers, Alert(w, v) PROVE TypeOK'
  BY <1>3 DEF Alert, Visit, Fits
<1>4. ASSUME NEW w \in Workers, Unlock(w) PROVE TypeOK'
  BY <1>4 DEF Unlock, LoopEnds, socket
<1>5. ASSUME NEW w \in Workers, Return(w) PROVE TypeOK'
  BY <1>5 DEF Return, LoopEnds, socket
<1>6. ASSUME NEW w \in Workers, Wake(w) \/ ReadAgain(w) \/ Process(w) PROVE TypeOK'
  BY <1>6, ZenonT(60) DEF Wake, ReadAgain, Process, socket, locals
<1>7. ASSUME NEW w \in Workers, ReadCheck(w) PROVE TypeOK'
  BY <1>7 DEF ReadCheck, locals
<1>8. ASSUME NEW w \in Workers, ReadOther(w) PROVE TypeOK'
  BY <1>8 DEF ReadOther, locals
<1>9. ASSUME NEW w \in Workers, ProcessDone(w) \/ Obeyed(w) PROVE TypeOK'
  <2>1. pc' = [pc EXCEPT ![w] = "read"] /\ "read" \in Labels
    BY <1>9 DEF ProcessDone, Obeyed
  <2>2. UNCHANGED <<messages_queue, socket, workers_with_subscribers, channel_mutex,
                    locals, crashes>>
    BY <1>9 DEF ProcessDone, Obeyed
  <2> QED
    BY <2>1, <2>2 DEF socket, locals
<1>10. ASSUME NEW w \in Workers, Release(w) \/ CleanQueue(w) PROVE TypeOK'
  <2>1. messages_queue[w] \in Seq(Messages) /\ messages_queue[w] # <<>>
    BY <1>10 DEF Release, CleanQueue, RespondInv, Responding
  <2>2. Tail(messages_queue[w]) \in Seq(Messages)
    BY <2>1
  <2>3. messages_queue' \in [Workers -> Seq(Messages)]
    BY <1>10, <2>2 DEF Release, CleanQueue
  <2>4. CASE Release(w)
    BY <2>3, <2>4 DEF Release, socket, locals
  <2>5. CASE CleanQueue(w)
    BY <2>3, <2>5 DEF CleanQueue, socket, locals
  <2> QED
    BY <1>10, <2>4, <2>5
<1>11. ASSUME NEW w \in Workers, NEW c \in Channels, NEW m \in Messages, Broadcast(w, c, m)
      PROVE  TypeOK'
  BY <1>11 DEF Broadcast, socket
<1>12. ASSUME NEW w \in Workers, NEW c \in Channels, Subscribe(w, c) PROVE TypeOK'
  BY <1>12 DEF Subscribe, socket, locals
<1>13. ASSUME NEW w \in Workers, NEW c \in Channels, UnsubscribeWorker(w, c) PROVE TypeOK'
  BY <1>13 DEF UnsubscribeWorker, socket, locals
<1>14. ASSUME NEW w \in Workers, NEW v \in Workers, SendOther(w, v) PROVE TypeOK'
  BY <1>14 DEF SendOther, Fits, locals
<1>15. ASSUME NEW w \in Workers, Crash(w) PROVE TypeOK'
  BY <1>15 DEF Crash, socket
<1>16. ASSUME NEW w \in Workers, Respawn(w) \/ CleanQueueDone(w) \/ Cleaned(w) PROVE TypeOK'
  BY <1>16, ZenonT(60) DEF Respawn, CleanQueueDone, Cleaned, socket, locals
<1> QED
  BY <1>1, <1>2, <1>3, <1>4, <1>5, <1>6, <1>7, <1>8, <1>9, <1>10, <1>11, <1>12, <1>13,
     <1>14, <1>15, <1>16
     DEF Next, Broadcasting, Listening, Finish, Clients, Lifecycle

(* Only the worker itself shortens its queue, and not while it responds.   *)
LEMMA RespondPreserved == IInv /\ [Next]_vars => RespondInv'
<1> SUFFICES ASSUME IInv, [Next]_vars PROVE RespondInv'
  OBVIOUS
<1> USE ConstantsAssumption DEF IInv, TypeOK, Labels, RespondInv, Responding
<1>1. CASE UNCHANGED vars
  BY <1>1 DEF vars, locals
<1>2. ASSUME NEW w \in Workers, NEW v \in Workers, Enqueue(w, v) PROVE RespondInv'
  <2>1. hand[w] \in Messages
    BY <1>2 DEF Enqueue, BroadcastInv
  <2>2. Append(messages_queue[v], hand[w]) # <<>>
    BY <2>1, AppendIsNotEmpty
  <2>3. \A u \in Workers : messages_queue'[u] \in {messages_queue[u], Append(messages_queue[v], hand[w])}
    BY <1>2 DEF Enqueue
  <2> QED
    BY <1>2, <2>2, <2>3 DEF Enqueue
<1>3. ASSUME NEW w \in Workers, NEW v \in Workers, Alert(w, v) PROVE RespondInv'
  BY <1>3 DEF Alert
<1>4. ASSUME NEW w \in Workers, Unlock(w) \/ Return(w) PROVE RespondInv'
  BY <1>4 DEF Unlock, Return, Goto
<1>5. ASSUME NEW w \in Workers, Listening(w) PROVE RespondInv'
  BY <1>5 DEF Listening, Wake, ReadCheck, ReadOther, ReadAgain, Process, ProcessDone, Goto, locals
<1>6. ASSUME NEW w \in Workers, Obeyed(w) PROVE RespondInv'
  BY <1>6 DEF Obeyed, Goto, locals
<1>7. ASSUME NEW w \in Workers, Release(w) \/ CleanQueue(w) PROVE RespondInv'
  BY <1>7 DEF Release, CleanQueue, Goto, locals
<1>8. ASSUME NEW w \in Workers, NEW c \in Channels, NEW m \in Messages, Broadcast(w, c, m)
      PROVE  RespondInv'
  BY <1>8 DEF Broadcast, Goto
<1>9. ASSUME NEW w \in Workers, NEW c \in Channels, Subscribe(w, c) \/ UnsubscribeWorker(w, c)
      PROVE  RespondInv'
  BY <1>9 DEF Subscribe, UnsubscribeWorker, locals
<1>10. ASSUME NEW w \in Workers, NEW v \in Workers, SendOther(w, v) PROVE RespondInv'
  BY <1>10 DEF SendOther, locals
<1>11. ASSUME NEW w \in Workers, Crash(w) \/ Respawn(w) \/ CleanQueueDone(w) \/ Cleaned(w)
       PROVE  RespondInv'
  BY <1>11 DEF Crash, Respawn, CleanQueueDone, Cleaned, Goto, locals
<1> QED
  BY <1>1, <1>2, <1>3, <1>4, <1>5, <1>6, <1>7, <1>8, <1>9, <1>10, <1>11
     DEF Next, Broadcasting, Finish, Clients, Lifecycle

(* A mutex changes hands only from and to None.                            *)
LEMMA BroadcastPreserved == IInv /\ [Next]_vars => BroadcastInv'
<1> SUFFICES ASSUME IInv, [Next]_vars PROVE BroadcastInv'
  OBVIOUS
<1> USE ConstantsAssumption DEF IInv, TypeOK, Labels, BroadcastInv
<1>1. CASE UNCHANGED vars
  BY <1>1 DEF vars, locals
<1>2. ASSUME NEW w \in Workers, NEW v \in Workers, Enqueue(w, v) \/ Alert(w, v)
      PROVE  BroadcastInv'
  BY <1>2 DEF Enqueue, Alert
<1>3. ASSUME NEW w \in Workers, Unlock(w) PROVE BroadcastInv'
  BY <1>3 DEF Unlock, Goto
<1>4. ASSUME NEW w \in Workers, Return(w) PROVE BroadcastInv'
  BY <1>4 DEF Return, Goto
<1>5. ASSUME NEW w \in Workers, Listening(w) PROVE BroadcastInv'
  BY <1>5 DEF Listening, Wake, ReadCheck, ReadOther, ReadAgain, Process, ProcessDone, Goto, locals
<1>6. ASSUME NEW w \in Workers, Finish(w) \/ CleanQueue(w) PROVE BroadcastInv'
  BY <1>6 DEF Finish, Obeyed, Release, CleanQueue, Goto, locals
<1>8. ASSUME NEW w \in Workers, NEW c \in Channels, NEW m \in Messages, Broadcast(w, c, m)
      PROVE  BroadcastInv'
  BY <1>8 DEF Broadcast, Goto
<1>9. ASSUME NEW w \in Workers, NEW c \in Channels, Subscribe(w, c) \/ UnsubscribeWorker(w, c)
      PROVE  BroadcastInv'
  BY <1>9 DEF Subscribe, UnsubscribeWorker, locals
<1>10. ASSUME NEW w \in Workers, NEW v \in Workers, SendOther(w, v) PROVE BroadcastInv'
  BY <1>10 DEF SendOther, locals
<1>11. ASSUME NEW w \in Workers, Crash(w) \/ Respawn(w) \/ CleanQueueDone(w) \/ Cleaned(w)
       PROVE  BroadcastInv'
  BY <1>11 DEF Crash, Respawn, CleanQueueDone, Cleaned, Goto, locals
<1> QED
  BY <1>1, <1>2, <1>3, <1>4, <1>5, <1>6, <1>8, <1>9, <1>10, <1>11
     DEF Next, Broadcasting, Finish, Clients, Lifecycle

(* The commands of other kinds never fill a socket by themselves.          *)
LEMMA OthersPreserved == IInv /\ [Next]_vars => OthersInv'
<1> SUFFICES ASSUME IInv, [Next]_vars PROVE OthersInv'
  OBVIOUS
<1> USE ConstantsAssumption DEF IInv, TypeOK, OthersInv
<1>1. ASSUME NEW w \in Workers, NEW v \in Workers, SendOther(w, v) PROVE OthersInv'
  BY <1>1 DEF SendOther
<1>2. ASSUME NEW w \in Workers, ReadOther(w) PROVE OthersInv'
  BY <1>2 DEF ReadOther
<1>3. CASE others' = others
  BY <1>3
<1> QED
  BY <1>1, <1>2, <1>3
     DEF Next, vars, socket, locals, Broadcasting, Listening, Finish, Clients, Lifecycle,
         Enqueue, Alert, Unlock, Return, Wake, ReadCheck, ReadAgain, Process, ProcessDone,
         Obeyed, Release, Broadcast, Subscribe, Crash, Respawn, CleanQueue,
         CleanQueueDone, UnsubscribeWorker, Cleaned

(* Who has not died is up.                                                 *)
LEMMA UpPreserved == IInv /\ [Next]_vars => UpInv'
<1> SUFFICES ASSUME IInv, [Next]_vars PROVE UpInv'
  OBVIOUS
<1> USE DEF IInv, TypeOK, UpInv, Up, Goto
<1>1. CASE UNCHANGED <<pc, crashes>>
  BY <1>1
<1>3. ASSUME NEW w \in Workers, Lifecycle(w) PROVE UpInv'
  BY <1>3 DEF Lifecycle, Crash, Respawn, CleanQueue, CleanQueueDone, UnsubscribeWorker, Cleaned,
              locals
<1>4. ASSUME NEW w \in Workers, Listening(w) \/ Finish(w) PROVE UpInv'
  BY <1>4 DEF Listening, Finish, Wake, ReadCheck, ReadOther, ReadAgain, Process, ProcessDone,
              Obeyed, Release
<1>5. ASSUME NEW w \in Workers, Broadcasting(w) PROVE UpInv'
  <2>1. ASSUME NEW v \in Workers, Enqueue(w, v) \/ Alert(w, v) PROVE UpInv'
    BY <2>1 DEF Enqueue, Alert
  <2>2. CASE Unlock(w)
    BY <2>2 DEF Unlock
  <2>3. CASE Return(w)
    BY <2>3 DEF Return
  <2> QED
    BY <1>5, <2>1, <2>2, <2>3 DEF Broadcasting
<1>6. ASSUME NEW w \in Workers, Clients(w) PROVE UpInv'
  BY <1>6 DEF Clients, Broadcast, Subscribe, SendOther, locals
<1> QED
  BY <1>1, <1>3, <1>4, <1>5, <1>6 DEF Next, vars, locals

----------------------------------------------------------------------------
(* A worker with messages stays alerted, case by case.                     *)
LEMMA AlertedPreserved ==
  ASSUME MaxOthers < Capacity, IInv, NoLostWakeup, [Next]_vars
  PROVE  NoLostWakeup'
<1> SUFFICES ASSUME crashes' = 0, NEW w \in Workers, messages_queue'[w] # <<>>
             PROVE  Alerted(w)'
  BY DEF NoLostWakeup
<1> USE ConstantsAssumption DEF IInv, TypeOK, Goto
<1>1. crashes = 0
  BY DEF vars, locals, socket, Next, Broadcasting, Listening, Finish, Clients, Lifecycle,
         Enqueue, Alert, Unlock, Return, Wake, ReadCheck, ReadOther, ReadAgain, Process,
         ProcessDone, Obeyed, Release, Broadcast, Subscribe, SendOther, Crash, Respawn,
         CleanQueue, CleanQueueDone, UnsubscribeWorker, Cleaned
<1>2. messages_queue[w] # <<>> => Alerted(w)
  BY <1>1 DEF NoLostWakeup
<1>3. \A v \in Workers : Up(v)
  BY <1>1 DEF UpInv
<1>4. ASSUME NEW p \in Workers, NEW v \in Workers, Enqueue(p, v) PROVE Alerted(w)'
  <2>1. CASE w = v /\ messages_queue[v] = <<>>
    <3>1. messages_queue' # messages_queue
      BY <2>1
    <3>2. WillAlert(p, v)'
      BY <1>4, <2>1, <3>1 DEF Enqueue, Visit, WasEmpty, WillAlert
    <3> QED
      BY <2>1, <3>2 DEF Alerted
  <2>2. CASE messages_queue[w] # <<>>
    <3>1. ASSUME NEW q \in Workers, WillAlert(q, w) PROVE WillAlert(q, w)'
      BY <1>4, <2>2, <3>1, SMTT(60) DEF Enqueue, Visit, WasEmpty, WillAlert
    <3> QED
      BY <1>2, <1>4, <2>2, <3>1 DEF Enqueue, Alerted, Processing, socket
  <2>3. w # v => messages_queue'[w] = messages_queue[w]
    BY <1>4 DEF Enqueue
  <2> QED
    BY <2>1, <2>2, <2>3
<1>5. ASSUME NEW p \in Workers, NEW v \in Workers, Alert(p, v) PROVE Alerted(w)'
  <2>1. messages_queue[w] # <<>>
    BY <1>5 DEF Alert
  <2>2. checks[w] > 0 => checks'[w] > 0
    BY <1>5 DEF Alert
  <2>3. ASSUME NEW q \in Workers, WillAlert(q, w), ~(q = p /\ w = v) PROVE WillAlert(q, w)'
    BY <1>5, <2>3 DEF Alert, Visit, WillAlert
  <2>4. WillAlert(p, v) => checks'[v] > 0
    BY <1>5 DEF Alert, WillAlert, Fits, OthersInv
  <2> QED
    BY <1>2, <1>5, <2>1, <2>2, <2>3, <2>4 DEF Alerted, Alert, Processing
<1>6. ASSUME NEW p \in Workers, Unlock(p) PROVE Alerted(w)'
  <2>1. ASSUME NEW q \in Workers, WillAlert(q, w) PROVE WillAlert(q, w)'
    BY <1>6, <2>1 DEF Unlock, LoopEnds, WillAlert
  <2> QED
    BY <1>2, <1>6, <2>1 DEF Unlock, Alerted, Processing, socket
<1>7. ASSUME NEW p \in Workers, Return(p) PROVE Alerted(w)'
  <2>1. ASSUME NEW q \in Workers, WillAlert(q, w) PROVE WillAlert(q, w)'
    BY <1>7, <2>1 DEF Return, LoopEnds, WillAlert
  <2> QED
    BY <1>2, <1>7, <2>1 DEF Return, Alerted, Processing, socket
<1>8. ASSUME NEW p \in Workers, Listening(p) PROVE Alerted(w)'
  <2>1. ASSUME NEW q \in Workers, WillAlert(q, w) PROVE WillAlert(q, w)'
    BY <1>8, <2>1 DEF Listening, Wake, ReadCheck, ReadOther, ReadAgain, Process, ProcessDone,
                      WillAlert, locals
  <2> QED
    BY <1>2, <1>8, <2>1 DEF Listening, Wake, ReadCheck, ReadOther, ReadAgain, Process, ProcessDone,
                            Alerted, Processing, locals, socket
<1>9. ASSUME NEW p \in Workers, Finish(p) PROVE Alerted(w)'
  <2>1. ASSUME NEW q \in Workers, WillAlert(q, w) PROVE WillAlert(q, w)'
    BY <1>9, <2>1 DEF Finish, Obeyed, Release, WillAlert, locals
  <2> QED
    BY <1>2, <1>9, <2>1 DEF Finish, Obeyed, Release, Alerted, Processing, locals, socket
<1>10. ASSUME NEW p \in Workers, NEW c \in Channels, NEW m \in Messages, Broadcast(p, c, m)
       PROVE  Alerted(w)'
  <2>1. ASSUME NEW q \in Workers, WillAlert(q, w) PROVE WillAlert(q, w)'
    BY <1>10, <2>1 DEF Broadcast, WillAlert
  <2> QED
    BY <1>2, <1>10, <2>1 DEF Broadcast, Alerted, Processing, socket
<1>11. ASSUME NEW p \in Workers, NEW c \in Channels, Subscribe(p, c) PROVE Alerted(w)'
  <2>1. ASSUME NEW q \in Workers, WillAlert(q, w) PROVE WillAlert(q, w)'
    BY <1>11, <2>1 DEF Subscribe, WillAlert, locals, BroadcastInv
  <2> QED
    BY <1>2, <1>11, <2>1 DEF Subscribe, Alerted, Processing, locals, socket
<1>12. ASSUME NEW p \in Workers, NEW v \in Workers, SendOther(p, v) PROVE Alerted(w)'
  <2>1. ASSUME NEW q \in Workers, WillAlert(q, w) PROVE WillAlert(q, w)'
    BY <1>12, <2>1 DEF SendOther, WillAlert, locals
  <2> QED
    BY <1>2, <1>12, <2>1 DEF SendOther, Alerted, Processing, locals
<1>13. ASSUME NEW p \in Workers, Lifecycle(p) PROVE FALSE
  BY <1>1, <1>3, <1>13 DEF Lifecycle, Crash, Respawn, CleanQueue, CleanQueueDone,
                           UnsubscribeWorker, Cleaned, Up
<1>14. CASE UNCHANGED vars
  <2>1. ASSUME NEW q \in Workers, WillAlert(q, w) PROVE WillAlert(q, w)'
    BY <1>14, <2>1 DEF vars, WillAlert, locals
  <2> QED
    BY <1>2, <1>14, <2>1 DEF vars, Alerted, Processing, locals, socket
<1> QED
  BY <1>4, <1>5, <1>6, <1>7, <1>8, <1>9, <1>10, <1>11, <1>12, <1>13, <1>14
     DEF Next, Broadcasting, Clients

----------------------------------------------------------------------------
(* The supporting invariant, whatever the capacity of the sockets.         *)
THEOREM Invariance == Spec => []IInv
<1>1. Init => IInv
  BY InitIInv
<1>2. IInv /\ [Next]_vars => IInv'
  BY TypePreserved, RespondPreserved, BroadcastPreserved, OthersPreserved, UpPreserved DEF IInv
<1> QED
  BY <1>1, <1>2, PTL DEF Spec

(* Every state is well typed, and no socket ever holds more than it can.   *)
THEOREM TypeCorrect == Spec => []TypeOK
<1>1. IInv => TypeOK
  BY DEF IInv
<1> QED
  BY <1>1, Invariance, PTL

(* While no worker dies, a worker with messages in its queue is alerted or *)
(* about to be, if a CHECK_MESSAGES always finds room beside the commands  *)
(* of other kinds or another one already there.                            *)
THEOREM NoWakeupIsLost ==
  ASSUME MaxOthers < Capacity
  PROVE  Spec => []NoLostWakeup
<1>1. Init => NoLostWakeup
  BY InitIInv
<1>2. IInv /\ NoLostWakeup /\ [Next]_vars => NoLostWakeup'
  BY AlertedPreserved
<1> QED
  BY <1>1, <1>2, Invariance, PTL DEF Spec
============================================================================

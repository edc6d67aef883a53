---------------------------- MODULE DeliveryProofs ----------------------------
(***************************************************************************)
(* Proofs about Delivery, for any workers, clients, scenarios and times:   *)
(* publishing in a channel is the log of ChannelLog, and with clocks that  *)
(* agree a client that polls gets every stored message once and in order,  *)
(* but for those that torn stamps of answers reach or go back to.          *)
(***************************************************************************)
EXTENDS Delivery, FiniteSetTheorems, SequenceTheorems, WellFoundedInduction, TLAPS

Ascending(s) == \A i, j \in DOMAIN s : i < j => s[i] < s[j]

----------------------------------------------------------------------------
(* The inductive invariant.                                                *)

Polling == {"check", "time", "same time", "tag", "new time", "new tag", "send"}
Streaming == {"resume", "start", "backtrack"}
Storing == {"set time", "set tag", "store"}
Publishing == {"set time", "set tag", "store", "limit", "broadcast", "enqueue"}

(* A client has one request at a time, and is in no channel meanwhile.     *)
RequestsInv ==
  /\ \A w \in Workers :
       /\ pc[w] \in Polling => client[w] \in Pollers \cup LongPollers
       /\ pc[w] \in Streaming => client[w] \in Streamers
       /\ pc[w] = "assign" => client[w] \in Streamers \cup LongPollers
       /\ pc[w] \in Publishing \cup {"idle"} => client[w] = None
       /\ subscriptions[w] \subseteq Streamers \cup LongPollers
  /\ \A v, w \in Workers :
       client[w] # None => client[w] \notin subscriptions[v] /\ (client[v] = client[w] => v = w)

(* The stored messages are in the order of their creation; no handler has  *)
(* a message that was not created.                                         *)
CreatedInv ==
  /\ Len(stamp) <= scenario.messages
  /\ message_queue \in Seq(1..Len(stamp))
  /\ Ascending(message_queue)
  /\ \A w \in Workers :
       /\ messages_queue[w] \in Seq(1..Len(stamp))
       /\ pc[w] \in Publishing => hand[w] \in 1..Len(stamp)

TypeInv == TypeOK /\ RequestsInv /\ CreatedInv

(* The publisher that is about to store a message holds the mutex, and its *)
(* message is the last one created; so does the one that broadcasts.       *)
StoringInv ==
  \A w \in Workers :
    /\ pc[w] \in Storing \cup {"enqueue"} => channel_mutex = w
    /\ pc[w] \in Storing =>
         hand[w] = Len(stamp) /\ \A m \in ToSet(message_queue) : m < hand[w]

(* The publisher that goes through the workers holds the mutex, and its    *)
(* message is the last of the log. What a worker has in its queue is what  *)
(* of the log it has not gone through yet.                                 *)
Behind(w) == Len(log) - Pending(w)

BroadcastInv ==
  /\ \A p \in Workers :
       /\ targets[p] \subseteq workers_with_subscribers
       /\ targets[p] # {} => pc[p] = "enqueue"
       /\ pc[p] = "enqueue" =>
            channel_mutex = p /\ log # <<>> /\ hand[p] = log[Len(log)]
  /\ \A w \in Workers :
       /\ subscriptions[w] # {} => w \in workers_with_subscribers
       /\ w \notin workers_with_subscribers => messages_queue[w] = <<>>
       /\ Behind(w) \in Nat
       /\ \A k \in DOMAIN messages_queue[w] : messages_queue[w][k] = log[Behind(w) + k]

(* With clocks that agree the stamps ascend.                               *)
StampsInv ==
  /\ now > 0
  /\ \A i \in DOMAIN stamp : stamp[i].time <= now /\ stamp[i].tag > 0
  /\ \A i, j \in DOMAIN stamp : i < j => After(stamp[j], stamp[i])

(* The stamp whose time and tag the channel has noted: that of the last    *)
(* message, or of the one before while its publisher notes it.             *)
Unfinished == \E w \in Workers : pc[w] \in {"set time", "set tag"}

Noted ==
  LET n == IF Unfinished THEN Len(stamp) - 1 ELSE Len(stamp) IN
  IF n > 0 THEN stamp[n] ELSE Zero

NotedInv ==
  /\ last_message.tag = Noted.tag
  /\ last_message.time = IF \E w \in Workers : pc[w] = "set time" THEN Noted.time ELSE last.time

(* A stamp that reaches beyond the last message is torn: it has the time   *)
(* of the last message and a tag from an earlier second.                   *)
Covered(s) ==
  \/ ~After(s, last)
  \/ /\ s.time = last.time
     /\ \E n \in DOMAIN stamp : stamp[n].time < s.time /\ stamp[n].tag >= s.tag

(* A stamp that goes back has a tag from a later second.                   *)
Overtaken(s) == \E n \in DOMAIN stamp : stamp[n].time > s.time /\ stamp[n].tag <= s.tag

(* What the client of w asked for, and how far the answer may go.          *)
AnswerInv(w) ==
  LET s == since[client[w]]
      g == greater[w]
  IN
  /\ pc[w] \in {"check", "time", "same time", "tag", "new time"} => g = s
  /\ pc[w] = "new time" => s.time < last_message.time
  /\ pc[w] = "new tag" => \/ g = s /\ After(Noted, s)
                          \/ s.time < g.time /\ g.time <= last_message.time
  /\ pc[w] = "send" => /\ Covered(g) /\ g.time <= last_message.time
                       /\ After(s, g) => g.time = s.time /\ Overtaken(g)

(* The stamp of the last answer to a client that polls ...                 *)
SinceInv(c) == Covered(since[c]) /\ since[c].time <= Noted.time

(* ... what the client has got ...                                         *)
GotInv(c) ==
  /\ got[c] \in Seq(1..Len(stamp))
  /\ \A m \in ToSet(got[c]) : \A n \in 1..m : After(stamp[n], since[c]) => TornAfter(n)
  /\ \A i, j \in DOMAIN got[c] : i < j => got[c][i] < got[c][j] \/ TornAfter(got[c][j])

(* ... and what it has missed, or will when it is stored.                  *)
MissedInv(c) ==
  /\ \A m \in ToSet(message_queue) :
       ~After(stamp[m], since[c]) => m \in ToSet(got[c]) \/ TornBefore(m)
  /\ (\E w \in Workers : pc[w] \in Storing) /\ ~After(last, since[c]) => TornBefore(Len(stamp))

PollInv ==
  /\ StampsInv
  /\ NotedInv
  /\ \A w \in Workers : client[w] \in Pollers => AnswerInv(w)
  /\ \A c \in Pollers : SinceInv(c) /\ GotInv(c) /\ MissedInv(c)

----------------------------------------------------------------------------
(* Sequences.                                                              *)

(* A part of an ascending sequence ascends.                                *)
LEMMA SliceOf ==
  ASSUME NEW T \in SUBSET Nat, NEW s \in Seq(T), NEW m \in Int, NEW n \in Int,
         1 <= m, n <= Len(s)
  PROVE  /\ SubSeq(s, m, n) \in Seq(T)
         /\ Len(SubSeq(s, m, n)) = IF m <= n THEN n - m + 1 ELSE 0
         /\ \A k \in DOMAIN SubSeq(s, m, n) :
              k + m - 1 \in m..n /\ SubSeq(s, m, n)[k] = s[k + m - 1]
         /\ Ascending(s) => Ascending(SubSeq(s, m, n))
<1> DEFINE t == SubSeq(s, m, n)
<1>1. \A i \in m..n : i \in 1..Len(s) /\ s[i] \in T
  BY ElementOfSeq, LenProperties
<1>2. /\ t \in Seq(T)
      /\ Len(t) = IF m <= n THEN n - m + 1 ELSE 0
      /\ \A k \in 1..n - m + 1 : t[k] = s[m + k - 1]
  BY <1>1, SubSeqProperties
<1> HIDE DEF t
<1>3. DOMAIN t = 1..Len(t)
  BY <1>2, LenProperties
<1>4. \A k \in DOMAIN t : k \in 1..n - m + 1 /\ k + m - 1 = m + k - 1 /\ k + m - 1 \in m..n
  BY <1>2, <1>3
<1>5. \A k \in DOMAIN t : k + m - 1 \in m..n /\ t[k] = s[k + m - 1]
  BY <1>2, <1>4
<1>6. ASSUME Ascending(s) PROVE Ascending(t)
  <2> SUFFICES ASSUME NEW i \in DOMAIN t, NEW j \in DOMAIN t, i < j PROVE t[i] < t[j]
    BY DEF Ascending
  <2>1. i + m - 1 \in DOMAIN s /\ j + m - 1 \in DOMAIN s /\ i + m - 1 < j + m - 1
    BY <1>1, <1>3, <1>4, LenProperties
  <2> QED
    BY <1>5, <1>6, <2>1 DEF Ascending
<1> QED
  BY <1>2, <1>5, <1>6 DEF t

(* A sequence that ascends goes on with greater elements.                  *)
LEMMA AscendingOn ==
  ASSUME NEW T \in SUBSET Nat, NEW s \in Seq(T), NEW t \in Seq(T), Ascending(s), Ascending(t),
         \A a \in DOMAIN s, b \in DOMAIN t : s[a] < t[b]
  PROVE  Ascending(s \o t)
<1> DEFINE u == s \o t
<1>1. /\ u \in Seq(T) /\ Len(u) = Len(s) + Len(t)
      /\ \A i \in 1..Len(s) + Len(t) : u[i] = IF i <= Len(s) THEN s[i] ELSE t[i - Len(s)]
  BY ConcatProperties
<1> HIDE DEF u
<1>2. DOMAIN s = 1..Len(s) /\ DOMAIN t = 1..Len(t) /\ Len(s) \in Nat /\ Len(t) \in Nat
  BY LenProperties
<1>3. DOMAIN u = 1..Len(s) + Len(t)
  BY <1>1, LenProperties
<1>4. SUFFICES ASSUME NEW i \in DOMAIN u, NEW j \in DOMAIN u, i < j PROVE u[i] < u[j]
  BY DEF Ascending, u
<1>5. CASE j <= Len(s)
  <2>1. i \in DOMAIN s /\ j \in DOMAIN s /\ u[i] = s[i] /\ u[j] = s[j]
    BY <1>1, <1>2, <1>3, <1>4, <1>5
  <2> QED
    BY <1>4, <2>1 DEF Ascending
<1>6. CASE i <= Len(s) /\ j > Len(s)
  <2>1. i \in DOMAIN s /\ j - Len(s) \in DOMAIN t /\ u[i] = s[i] /\ u[j] = t[j - Len(s)]
    BY <1>1, <1>2, <1>3, <1>4, <1>6
  <2> QED
    BY <2>1
<1>7. CASE i > Len(s)
  <2>1. /\ i - Len(s) \in DOMAIN t /\ j - Len(s) \in DOMAIN t /\ i - Len(s) < j - Len(s)
        /\ u[i] = t[i - Len(s)] /\ u[j] = t[j - Len(s)]
    BY <1>1, <1>2, <1>3, <1>4, <1>7
  <2> QED
    BY <2>1 DEF Ascending
<1> QED
  BY <1>2, <1>3, <1>5, <1>6, <1>7

(* One more element at the end.                                            *)
LEMMA AscendingLast ==
  ASSUME NEW T \in SUBSET Nat, NEW s \in Seq(T), Ascending(s), NEW m \in T,
         \A k \in ToSet(s) : k < m
  PROVE  Append(s, m) \in Seq(T) /\ Ascending(Append(s, m))
<1>1. Append(s, m) \in Seq(T) /\ Append(s, m) = s \o <<m>>
      /\ <<m>> \in Seq(T) /\ DOMAIN <<m>> = {1} /\ <<m>>[1] = m
  BY AppendProperties
<1>2. Ascending(<<m>>)
  BY <1>1 DEF Ascending
<1>3. \A a \in DOMAIN s, b \in DOMAIN <<m>> : s[a] < <<m>>[b]
  BY <1>1 DEF ToSet
<1> QED
  BY <1>1, <1>2, <1>3, AscendingOn

----------------------------------------------------------------------------
(* What is sent of the stored messages.                                    *)

LEMMA FirstOf ==
  ASSUME NEW n \in Nat, NEW I \in SUBSET (1..n)
  PROVE  LET first == IF I # {} THEN Min(I) ELSE 0
         IN  /\ first \in 0..n
             /\ first = 0 => I = {}
             /\ first # 0 => first \in I /\ \A k \in I : first <= k
<1>1. CASE I = {}
  BY <1>1
<1>2. CASE I # {}
  <2>1. PICK x \in I : \A y \in I : x <= y
    <3>1. I \in SUBSET Nat
      OBVIOUS
    <3>2. PICK x \in I : \A y \in I : <<y, x>> \notin OpToRel(<, Nat)
      BY <1>2, <3>1, NatLessThanWellFounded, WFMin
    <3>3. ASSUME NEW y \in I PROVE x <= y
      <4>1. ~(y < x)
        BY <3>1, <3>2 DEF OpToRel
      <4> QED
        BY <3>1, <4>1
    <3> QED
      BY <3>3
  <2>2. Min(I) \in I /\ \A y \in I : Min(I) <= y
    BY <2>1 DEF Min
  <2>3. Min(I) \in 1..n /\ Min(I) # 0
    <3>1. \A y \in I : y \in 1..n /\ y # 0
      OBVIOUS
    <3> QED
      BY <2>2, <3>1
  <2> DEFINE first == Min(I)
  <2>4. first \in I /\ first \in 0..n /\ first # 0 /\ \A k \in I : first <= k
    BY <2>2, <2>3
  <2> HIDE DEF first
  <2>5. (IF I # {} THEN Min(I) ELSE 0) = first
    BY <1>2 DEF first
  <2> QED
    BY <2>4, <2>5
<1> QED
  BY <1>1, <1>2

(* Stored messages from some position on.                                  *)
LEMMA FromOn ==
  ASSUME TypeInv, NEW i \in 1..Len(message_queue) + 1
  PROVE  /\ From(i) \in Seq(1..Len(stamp))
         /\ Ascending(From(i))
         /\ \A m : m \in ToSet(From(i)) <=> \E k \in i..Len(message_queue) : m = message_queue[k]
<1> DEFINE q == message_queue
<1>1. q \in Seq(1..Len(stamp)) /\ Ascending(q) /\ 1..Len(stamp) \in SUBSET Nat
      /\ Len(q) \in Nat
  BY LenProperties DEF TypeInv, TypeOK, CreatedInv
<1> DEFINE t == From(i)
<1>2. /\ t \in Seq(1..Len(stamp))
      /\ Len(t) = IF i <= Len(q) THEN Len(q) - i + 1 ELSE 0
      /\ \A k \in DOMAIN t : k + i - 1 \in i..Len(q) /\ t[k] = q[k + i - 1]
      /\ Ascending(t)
  <2> HIDE DEF q
  <2>1. 1 <= i /\ i \in Int /\ Len(q) \in Int /\ Len(q) <= Len(q)
    BY <1>1 DEF q
  <2>2. t = SubSeq(q, i, Len(q))
    BY DEF From, q
  <2> DEFINE T == 1..Len(stamp)
  <2>3. T \in SUBSET Nat /\ q \in Seq(T)
    BY <1>1
  <2> HIDE DEF t, T
  <2>4. /\ t \in Seq(T)
        /\ Len(t) = IF i <= Len(q) THEN Len(q) - i + 1 ELSE 0
        /\ \A k \in DOMAIN t : k + i - 1 \in i..Len(q) /\ t[k] = q[k + i - 1]
        /\ Ascending(t)
    BY <1>1, <2>1, <2>2, <2>3, SliceOf, SMTT(60)
  <2> QED
    BY <2>4 DEF T
<1> HIDE DEF q, t
<1>3. DOMAIN t = 1..Len(t)
  BY <1>2, LenProperties
<1>4. ASSUME NEW k \in i..Len(q) PROVE q[k] \in ToSet(t)
  <2>1. (k - i + 1) \in DOMAIN t /\ (k - i + 1) + i - 1 = k
    BY <1>1, <1>2, <1>3 DEF q
  <2>2. t[k - i + 1] = q[k]
    BY <1>2, <2>1
  <2> QED
    BY <2>1, <2>2 DEF ToSet
<1>5. \A m \in ToSet(t) : \E k \in i..Len(q) : m = q[k]
  BY <1>2 DEF ToSet
<1> QED
  BY <1>2, <1>4, <1>5 DEF q, t

(* Those that are newer than a stamp are the last ones.                    *)
LEMMA NewerIsFrom ==
  ASSUME TypeInv, NEW s \in Stamps
  PROVE  \E i \in 1..Len(message_queue) + 1 :
           /\ Newer(s) = From(i)
           /\ \A k \in 1..i - 1 : ~After(stamp[message_queue[k]], s)
           /\ StampsInv => \A k \in i..Len(message_queue) : After(stamp[message_queue[k]], s)
<1> DEFINE q == message_queue
           I == {k \in 1..Len(q) : Reaches(q[k], s)}
           first == IF I # {} THEN Min(I) ELSE 0
<1>1. /\ q \in Seq(1..Len(stamp)) /\ Ascending(q) /\ Len(q) \in Nat /\ DOMAIN q = 1..Len(q)
      /\ Len(stamp) \in Nat /\ DOMAIN stamp = 1..Len(stamp)
      /\ stamp \in Seq(Stamps)
  BY LenProperties DEF TypeInv, TypeOK, CreatedInv
<1>2. \A k \in 1..Len(q) : q[k] \in 1..Len(stamp) /\ stamp[q[k]] \in Stamps
  BY <1>1, ElementOfSeq
<1>3. Newer(s) = IF first = 0 THEN <<>>
                 ELSE IF stamp[q[first]] = s THEN From(first + 1) ELSE From(first)
  BY DEF Newer, SelectInSeq
<1>4. /\ first \in 0..Len(q)
      /\ first = 0 => I = {}
      /\ first # 0 => first \in I /\ \A k \in I : first <= k
  <2>1. I \in SUBSET (1..Len(q))
    OBVIOUS
  <2> HIDE DEF I
  <2> QED
    BY <1>1, <2>1, FirstOf
<1>5. \A k \in 1..Len(q) : ~Reaches(q[k], s) => ~After(stamp[q[k]], s)
  BY <1>2 DEF Reaches, After, Stamps
<1>6. \A k \in 1..Len(q) : Reaches(q[k], s) => stamp[q[k]] = s \/ After(stamp[q[k]], s)
  <2>1. \A x \in Stamps : x.time = s.time /\ x.tag = s.tag => x = s
    BY DEF Stamps
  <2>2. \A x \in Stamps : x.time \in Nat /\ x.tag \in Nat
    BY DEF Stamps
  <2> QED
    BY <1>2, <2>1, <2>2 DEF Reaches, After
<1>7. ~After(s, s)
  BY DEF After, Stamps
<1>8. \A j, k \in 1..Len(q) : StampsInv /\ j < k => After(stamp[q[k]], stamp[q[j]])
  BY <1>1, <1>2 DEF Ascending, StampsInv
<1>9. \A k \in 1..Len(q) : k \in I <=> Reaches(q[k], s)
  OBVIOUS
<1>10. \A x, y, z \in Stamps : After(z, y) /\ After(y, x) => After(z, x)
  BY DEF After, Stamps
<1> HIDE DEF q, I, first
<1>11. CASE first = 0
  <2>1. From(Len(q) + 1) = <<>>
    <3>1. Len(q) + 1 \in Int /\ Len(q) \in Int /\ Len(q) < Len(q) + 1
      BY <1>1
    <3> QED
      BY <3>1, SubSeqEmpty DEF From, q
  <2>2. \A k \in 1..Len(q) : ~After(stamp[q[k]], s)
    BY <1>4, <1>5, <1>9, <1>11
  <2>3. Len(q) + 1 \in 1..Len(q) + 1 /\ (Len(q) + 1) - 1 = Len(q) /\ (Len(q) + 1)..Len(q) = {}
    BY <1>1
  <2>4. Newer(s) = From(Len(q) + 1)
    BY <1>3, <1>11, <2>1
  <2> QED
    BY <2>2, <2>3, <2>4 DEF q
<1>12. CASE first # 0 /\ stamp[q[first]] = s
  <2>1. first \in 1..Len(q) /\ first + 1 \in 1..Len(q) + 1 /\ (first + 1) - 1 = first
    BY <1>1, <1>4, <1>12
  <2>2. Newer(s) = From(first + 1)
    BY <1>3, <1>12
  <2>3. ASSUME NEW k \in 1..first PROVE ~After(stamp[q[k]], s)
    <3>1. k \in 1..Len(q)
      BY <1>1, <2>1
    <3>2. CASE k = first
      BY <1>7, <1>12, <3>2
    <3>3. CASE k # first
      <4>1. ~(first <= k)
        BY <2>1, <3>3
      <4> QED
        BY <1>4, <1>5, <1>9, <1>12, <3>1, <4>1
    <3> QED
      BY <3>2, <3>3
  <2>4. ASSUME StampsInv, NEW k \in first + 1..Len(q) PROVE After(stamp[q[k]], s)
    <3>1. k \in 1..Len(q) /\ first < k
      BY <1>1, <2>1
    <3> QED
      BY <1>8, <1>12, <2>1, <2>4, <3>1
  <2> QED
    BY <2>1, <2>2, <2>3, <2>4 DEF q
<1>13. CASE first # 0 /\ stamp[q[first]] # s
  <2>1. first \in 1..Len(q) /\ first \in 1..Len(q) + 1
    BY <1>1, <1>4, <1>13
  <2>2. Newer(s) = From(first)
    BY <1>3, <1>13
  <2>3. ASSUME NEW k \in 1..first - 1 PROVE ~After(stamp[q[k]], s)
    <3>1. k \in 1..Len(q) /\ ~(first <= k)
      BY <1>1, <2>1
    <3> QED
      BY <1>4, <1>5, <1>9, <1>13, <3>1
  <2>4. After(stamp[q[first]], s)
    BY <1>4, <1>6, <1>9, <1>13, <2>1
  <2>5. ASSUME StampsInv, NEW k \in first..Len(q) PROVE After(stamp[q[k]], s)
    <3>1. k \in 1..Len(q) /\ (k = first \/ first < k)
      BY <1>1, <2>1
    <3>2. CASE k = first
      BY <2>4, <3>2
    <3>3. CASE first < k
      <4>1. After(stamp[q[k]], stamp[q[first]])
        BY <1>8, <2>1, <2>5, <3>1, <3>3
      <4> QED
        BY <1>2, <1>10, <2>1, <2>4, <3>1, <4>1
    <3> QED
      BY <3>1, <3>2, <3>3
  <2> QED
    BY <2>1, <2>2, <2>3, <2>5 DEF q
<1> QED
  BY <1>11, <1>12, <1>13

(* And so are those after an event id.                                     *)
LEMMA NewerThanIdIsFrom ==
  ASSUME TypeInv, NEW m
  PROVE  \E i \in 1..Len(message_queue) + 1 : NewerThanId(m) = From(i)
<1> DEFINE q == message_queue
           I == {k \in 1..Len(q) : q[k] = m}
           found == IF I # {} THEN Min(I) ELSE 0
<1>1. Len(q) \in Nat
  BY LenProperties DEF TypeInv, CreatedInv
<1>2. NewerThanId(m) = IF found = 0 THEN <<>> ELSE From(found + 1)
  BY DEF NewerThanId, SelectInSeq
<1>3. found \in 0..Len(q)
  <2>1. I \in SUBSET (1..Len(q))
    OBVIOUS
  <2> HIDE DEF I
  <2> QED
    BY <1>1, <2>1, FirstOf
<1> HIDE DEF found
<1>4. From(Len(q) + 1) = <<>>
  <2>1. Len(q) + 1 \in Int /\ Len(q) \in Int /\ Len(q) < Len(q) + 1
    BY <1>1
  <2> QED
    BY <2>1, SubSeqEmpty DEF From
<1>5. found + 1 \in 1..Len(q) + 1 /\ Len(q) + 1 \in 1..Len(q) + 1
  BY <1>1, <1>3
<1> HIDE DEF q
<1> QED
  BY <1>2, <1>4, <1>5 DEF q

(* UpTo leaves out what comes after the stamp, and keeps the order: how     *)
(* many there are before a message gives it its own place.                 *)
LEMMA UpToLeaves ==
  ASSUME NEW n \in Nat, NEW messages \in Seq(1..n), NEW s
  PROVE  /\ UpTo(messages, s) \in Seq(1..n)
         /\ Ascending(UpTo(messages, s))
         /\ \A m : m \in ToSet(UpTo(messages, s)) <=>
                     m \in ToSet(messages) /\ ~After(stamp[m], s)
<1> DEFINE upto == {m \in ToSet(messages) : ~After(stamp[m], s)}
           Before(m) == {x \in upto : x < m}
           size == Cardinality(upto)
           Place(m) == Cardinality(Before(m)) + 1
           place == [m \in upto |-> Place(m)]
           At(k) == CHOOSE m \in upto : Cardinality(Before(m)) = k - 1
           u == [k \in 1..size |-> At(k)]
<1>1. UpTo(messages, s) = u
  BY DEF UpTo
<1>2. upto \in SUBSET (1..n)
  BY DEF ToSet
<1>3. \A m : m \in upto <=> m \in ToSet(messages) /\ ~After(stamp[m], s)
  OBVIOUS
<1> HIDE DEF upto
<1>4. IsFiniteSet(upto) /\ size \in Nat
  <2>1. IsFiniteSet(1..n)
    BY FS_Interval
  <2> QED
    BY <1>2, <2>1, FS_Subset, FS_CardinalityType
<1>5. ASSUME NEW m \in upto PROVE Place(m) \in 1..size /\ IsFiniteSet(Before(m)) /\ Cardinality(Before(m)) \in Nat
  <2>1. Before(m) \in SUBSET upto /\ m \notin Before(m) /\ m \in Nat
    BY <1>2
  <2> HIDE DEF Before
  <2>2. /\ IsFiniteSet(Before(m))
        /\ Cardinality(Before(m)) <= size
        /\ Cardinality(Before(m)) # size
    BY <1>4, <2>1, FS_Subset
  <2>3. Cardinality(Before(m)) \in Nat
    BY <2>2, FS_CardinalityType
  <2> HIDE DEF size
  <2> QED
    BY <1>4, <2>2, <2>3
<1>6. ASSUME NEW a \in upto, NEW b \in upto, a < b PROVE Place(a) < Place(b)
  <2>1. a \in Nat /\ b \in Nat
    BY <1>2
  <2>2. Before(a) \in SUBSET Before(b) /\ a \in Before(b) /\ a \notin Before(a)
    <3>1. \A x \in upto : x \in Nat
      BY <1>2
    <3>2. ASSUME NEW x \in Before(a) PROVE x \in Before(b)
      <4>1. x \in upto /\ x < a
        OBVIOUS
      <4>2. x \in Nat
        BY <3>1, <4>1
      <4>3. x < b
        BY <1>6, <2>1, <4>1, <4>2
      <4> QED
        BY <4>1, <4>3
    <3>3. ~(a < a)
      BY <2>1
    <3>4. a \in Before(b) /\ a \notin Before(a)
      BY <1>6, <3>3
    <3> HIDE DEF Before
    <3> QED
      BY <3>2, <3>4
  <2> HIDE DEF Before
  <2>3. Cardinality(Before(a)) <= Cardinality(Before(b)) /\ Cardinality(Before(a)) # Cardinality(Before(b))
    BY <1>5, <2>2, FS_Subset
  <2> QED
    BY <1>5, <2>3
<1>7. ASSUME NEW a \in upto, NEW b \in upto, Place(a) = Place(b) PROVE a = b
  <2>1. a \in Nat /\ b \in Nat /\ Place(a) \in Nat /\ Place(b) \in Nat
    BY <1>2, <1>5
  <2>2. ~(a < b) /\ ~(b < a)
    <3> HIDE DEF Place
    <3> QED
      BY <1>6, <1>7, <2>1
  <2> QED
    BY <2>1, <2>2
<1> HIDE DEF size
<1>8. \A k \in 1..size : \E m \in upto : Place(m) = k
  <2>1. place \in Injection(upto, 1..size)
    <3> HIDE DEF Place
    <3> QED
      BY <1>5, <1>7 DEF Injection, IsInjective
  <2>2. IsFiniteSet(1..size) /\ Cardinality(1..size) = Cardinality(upto)
    <3>1. size \in Int /\ 1 \in Int
      BY <1>4
    <3>2. IsFiniteSet(1..size) /\ Cardinality(1..size) = IF 1 > size THEN 0 ELSE size - 1 + 1
      BY <3>1, FS_Interval
    <3>3. Cardinality(1..size) = size
      BY <1>4, <3>2
    <3> QED
      BY <3>2, <3>3 DEF size
  <2>3. place \in Surjection(upto, 1..size)
    <3> HIDE DEF place
    <3> QED
      BY <2>1, <2>2, FS_Injection
  <2>4. \A m \in upto : place[m] = Place(m)
    OBVIOUS
  <2> HIDE DEF place, Place
  <2> QED
    BY <2>3, <2>4 DEF Surjection
<1>9. ASSUME NEW k \in 1..size PROVE u[k] \in upto /\ Place(u[k]) = k
  <2>1. PICK m \in upto : Place(m) = k
    BY <1>8
  <2>2. Cardinality(Before(m)) = k - 1
    <3> HIDE DEF Before
    <3> QED
      BY <1>5, <2>1
  <2>3. At(k) \in upto /\ Cardinality(Before(At(k))) = k - 1
    <3> HIDE DEF Before
    <3> QED
      BY <2>2
  <2>4. u[k] = At(k)
    OBVIOUS
  <2> HIDE DEF u, At, Before
  <2> QED
    BY <1>4, <2>3, <2>4
<1>10. u = [k \in 1..size |-> u[k]]
  <2> HIDE DEF At
  <2> QED
    OBVIOUS
<1> HIDE DEF u, Place
<1>11. u \in Seq(1..n) /\ DOMAIN u = 1..size
  <2>1. \A k \in 1..size : u[k] \in 1..n
    BY <1>2, <1>9
  <2>2. [k \in 1..size |-> u[k]] \in [1..size -> 1..n]
    BY <2>1
  <2>3. u \in [1..size -> 1..n]
    BY <1>10, <2>2
  <2> QED
    BY <1>4, <2>3
<1>12. Ascending(u)
  <2> SUFFICES ASSUME NEW i \in 1..size, NEW j \in 1..size, i < j, ~(u[i] < u[j]) PROVE FALSE
    BY <1>11 DEF Ascending
  <2>1. u[i] \in upto /\ u[j] \in upto /\ Place(u[i]) = i /\ Place(u[j]) = j
    BY <1>9
  <2>2. u[i] \in Nat /\ u[j] \in Nat /\ i \in Nat /\ j \in Nat
    <3>1. \A m \in upto : m \in Nat
      BY <1>2
    <3>2. i \in Nat /\ j \in Nat
      BY <1>4
    <3> QED
      BY <2>1, <3>1, <3>2
  <2>3. u[i] # u[j]
    BY <2>1, <2>2
  <2>4. u[j] < u[i]
    BY <2>2, <2>3
  <2>5. j < i
    BY <1>6, <2>1, <2>4
  <2> QED
    BY <2>2, <2>5
<1>13. ASSUME NEW m \in upto PROVE \E k \in 1..size : u[k] = m
  <2>1. Place(m) \in 1..size
    BY <1>5
  <2>2. u[Place(m)] \in upto /\ Place(u[Place(m)]) = Place(m)
    BY <1>9, <2>1
  <2>3. u[Place(m)] = m
    BY <1>7, <2>2
  <2> QED
    BY <2>1, <2>3
<1>14. \A m : m \in ToSet(u) <=> m \in upto
  BY <1>9, <1>11, <1>13 DEF ToSet
<1> QED
  BY <1>1, <1>3, <1>11, <1>12, <1>14

----------------------------------------------------------------------------
(* What TypeInv says of single values.                                     *)

LEMMA Numbers ==
  ASSUME TypeInv
  PROVE  /\ Len(stamp) \in Nat /\ scenario.messages \in 1..MaxMessages
         /\ MaxMessages \in Nat /\ Skew \in Nat /\ MaxStored \in Nat \ {0} /\ now \in Nat
         /\ DOMAIN stamp = 1..Len(stamp)
         /\ \A m \in 1..Len(stamp) : m \in Messages /\ stamp[m] \in Stamps
         /\ \A s \in Seq(1..Len(stamp)) : s \in Seq(Messages)
         /\ Len(message_queue) \in Nat
         /\ DOMAIN message_queue = 1..Len(message_queue)
<1>1. Len(stamp) \in Nat /\ DOMAIN stamp = 1..Len(stamp) /\ Len(message_queue) \in Nat
      /\ DOMAIN message_queue = 1..Len(message_queue)
  BY LenProperties DEF TypeInv, TypeOK
<1>2. Skew \in Nat /\ MaxMessages \in Nat
  BY ConstantsAssumption DEF ConstantsAssumption
<1>3. scenario.messages \in 1..MaxMessages /\ MaxStored \in Nat \ {0}
  <2>1. scenario \in Scenario
    BY ConstantsAssumption DEF ConstantsAssumption, TypeInv, TypeOK
  <2> QED
    BY <2>1 DEF Scenario, MaxStored
<1>4. \A m \in 1..Len(stamp) : m \in Messages /\ stamp[m] \in Stamps
  <2>1. Len(stamp) <= MaxMessages
    BY <1>1, <1>2, <1>3 DEF TypeInv, CreatedInv
  <2> QED
    BY <1>1, <1>2, <2>1, ElementOfSeq DEF TypeInv, TypeOK, Messages
<1>5. \A s \in Seq(1..Len(stamp)) : s \in Seq(Messages)
  <2>1. 1..Len(stamp) \subseteq Messages
    BY <1>4
  <2> QED
    BY <2>1, SeqMonotonic
<1> QED
  BY <1>1, <1>2, <1>3, <1>4, <1>5 DEF TypeInv, TypeOK

LEMMA StampTypes ==
  ASSUME TypeInv
  PROVE  /\ Zero \in Stamps /\ last \in Stamps /\ last_message \in Stamps
         /\ \A x \in Stamps : x.time \in Nat /\ x.tag \in Nat
         /\ \A t \in Nat, g \in Nat : [time |-> t, tag |-> g] \in Stamps
         /\ \A w \in Workers : greater[w] \in Stamps
         /\ \A c \in Clients : since[c] \in Stamps
<1>1. Zero \in Stamps /\ \A t \in Nat, g \in Nat : [time |-> t, tag |-> g] \in Stamps
  BY DEF Zero, Stamps
<1>2. last \in Stamps
  <2>1. CASE stamp = <<>>
    BY <1>1, <2>1 DEF last
  <2>2. CASE stamp # <<>>
    <3>1. Len(stamp) \in 1..Len(stamp)
      BY <2>2, EmptySeq DEF TypeInv, TypeOK
    <3>2. stamp[Len(stamp)] \in Stamps
      BY <3>1, Numbers
    <3> QED
      BY <2>2, <3>2 DEF last, Last
  <2> QED
    BY <2>1, <2>2
<1>3. \A x \in Stamps : x.time \in Nat /\ x.tag \in Nat
  BY DEF Stamps
<1> QED
  BY <1>1, <1>2, <1>3 DEF TypeInv, TypeOK

(* Any part of the queue.                                                  *)
LEMMA QueuePart ==
  ASSUME TypeInv, NEW m \in Int, NEW n \in Int, 1 <= m, n <= Len(message_queue)
  PROVE  /\ SubSeq(message_queue, m, n) \in Seq(1..Len(stamp))
         /\ Ascending(SubSeq(message_queue, m, n))
         /\ \A k \in ToSet(SubSeq(message_queue, m, n)) : k \in ToSet(message_queue)
<1> DEFINE T == 1..Len(stamp)
           q == message_queue
           t == SubSeq(q, m, n)
<1>1. T \in SUBSET Nat /\ q \in Seq(T) /\ Ascending(q) /\ n <= Len(q)
  BY DEF TypeInv, CreatedInv
<1> HIDE DEF T, q
<1>2. t \in Seq(T) /\ Ascending(t) /\ \A k \in DOMAIN t : k + m - 1 \in m..n /\ t[k] = q[k + m - 1]
  BY <1>1, SliceOf
<1>3. \A j \in m..n : j \in DOMAIN q
  BY <1>1, LenProperties
<1> HIDE DEF t
<1>4. \A k \in ToSet(t) : k \in ToSet(q)
  BY <1>2, <1>3 DEF ToSet
<1> QED
  BY <1>2, <1>4 DEF T, q, t

(* Old messages that are sent.                                             *)
LEMMA OldMessages ==
  ASSUME TypeInv, NEW s \in Stamps, NEW g
  PROVE  UpTo(Newer(s), g) \in Seq(1..Len(stamp)) /\ Ascending(UpTo(Newer(s), g))
<1>1. PICK i \in 1..Len(message_queue) + 1 : Newer(s) = From(i)
  BY NewerIsFrom
<1>2. Newer(s) \in Seq(1..Len(stamp)) /\ Ascending(Newer(s))
  BY <1>1, FromOn
<1> QED
  BY <1>2, Numbers, UpToLeaves

LEMMA MessagesAfterId ==
  ASSUME TypeInv, NEW m
  PROVE  NewerThanId(m) \in Seq(1..Len(stamp)) /\ Ascending(NewerThanId(m))
BY NewerThanIdIsFrom, FromOn

LEMMA BacktrackMessages ==
  ASSUME TypeInv, NEW w \in Workers
  PROVE  LET end == Lesser(start[w] + qtd[w], Len(message_queue))
             messages == IF start[w] < 0 THEN <<>> ELSE SubSeq(message_queue, start[w] + 1, end)
         IN  messages \in Seq(1..Len(stamp)) /\ Ascending(messages)
<1> DEFINE end == Lesser(start[w] + qtd[w], Len(message_queue))
<1>1. start[w] \in Int /\ qtd[w] \in Int
  <2>1. qtd[w] \in 0..MaxStored
    BY DEF TypeInv, TypeOK
  <2> QED
    BY <2>1, Numbers DEF TypeInv, TypeOK
<1>2. end \in Int /\ end <= Len(message_queue) /\ start[w] + 1 \in Int
  BY <1>1, Numbers DEF Lesser
<1> HIDE DEF end
<1>3. CASE start[w] < 0
  BY <1>3, EmptySeq DEF Ascending
<1>4. CASE ~(start[w] < 0)
  <2>1. 1 <= start[w] + 1
    BY <1>1, <1>4
  <2>2. SubSeq(message_queue, start[w] + 1, end) \in Seq(1..Len(stamp))
        /\ Ascending(SubSeq(message_queue, start[w] + 1, end))
    BY <1>2, <2>1, QueuePart
  <2> QED
    BY <1>4, <2>2 DEF end
<1> QED
  BY <1>3, <1>4 DEF end

(* What the limit of the channel and the expiry of messages leave.         *)
LEMMA TrimmedQueue ==
  ASSUME TypeInv, NEW w \in Workers, EnsureQtdOfMessages(w)
  PROVE  /\ message_queue' \in Seq(1..Len(stamp))
         /\ Ascending(message_queue')
         /\ \A k \in ToSet(message_queue') : k \in ToSet(message_queue)
<1> DEFINE n == Len(message_queue)
           m == n - Lesser(MaxStored, n) + 1
<1>1. m \in Int /\ n \in Int /\ 1 <= m /\ n <= n
  BY Numbers DEF Lesser
<1>2. message_queue' = SubSeq(message_queue, m, n)
  BY DEF EnsureQtdOfMessages
<1> HIDE DEF m
<1> QED
  BY <1>1, <1>2, QueuePart

LEMMA ExpiredQueue ==
  ASSUME TypeInv, Expire
  PROVE  /\ message_queue' \in Seq(1..Len(stamp))
         /\ Ascending(message_queue')
         /\ \A k \in ToSet(message_queue') : k \in ToSet(message_queue)
<1> DEFINE n == Len(message_queue)
<1>1. n \in Int /\ 1 <= 2 /\ n <= n
  BY Numbers
<1>2. message_queue' = SubSeq(message_queue, 2, n)
  BY TailIsSubSeq DEF Expire, TypeInv, TypeOK
<1> QED
  BY <1>1, <1>2, QueuePart

----------------------------------------------------------------------------
(* Types.                                                                  *)

LEMMA AddMessageTypes ==
  ASSUME TypeInv, NEW w \in Workers, AddMessage(w)
  PROVE  TypeInv'
<1>0. TypeOK /\ RequestsInv /\ CreatedInv
  BY DEF TypeInv
<1>1. TypeOK'
  <2>1. stamp' \in Seq(Stamps)
    <3>1. PICK time \in 0..Skew :
            /\ now - time > 0
            /\ stamp' = Append(stamp, [time |-> now - time, tag |-> NextTag(now - time)])
      BY DEF AddMessage
    <3>2. now - time \in Nat
      BY <3>1, Numbers
    <3>3. NextTag(now - time) \in Nat
      BY <3>2, StampTypes DEF NextTag
    <3>4. [time |-> now - time, tag |-> NextTag(now - time)] \in Stamps
      BY <3>2, <3>3, StampTypes
    <3> QED
      BY <1>0, <3>1, <3>4, AppendProperties DEF TypeOK
  <2>2. channel_mutex' \in Workers \cup {None}
    BY DEF AddMessage
  <2>3. hand' \in [Workers -> Messages \cup {0}]
    <3>1. Len(stamp) < scenario.messages
      BY DEF AddMessage
    <3>2. Len(stamp) + 1 \in Messages
      BY <3>1, Numbers DEF Messages
    <3>3. hand' = [hand EXCEPT ![w] = Len(stamp) + 1]
      BY DEF AddMessage
    <3> QED
      BY <1>0, <3>2, <3>3 DEF TypeOK
  <2>4. pc' \in [Workers -> Labels]
    BY <1>0 DEF TypeOK, Labels, AddMessage, Goto
  <2>5. UNCHANGED <<scenario, now, last_message, message_queue, log, messages_queue,
                     workers_with_subscribers, subscriptions, targets, client,
                     greater, qtd, start, since, got>>
    BY DEF AddMessage, live, replay, history
  <2> QED
    BY <2>1, <2>2, <2>3, <2>4, <2>5, <1>0 DEF TypeOK, MaxStored
<1>2. RequestsInv'
  BY <1>0 DEF TypeOK, RequestsInv, Polling, Streaming, Publishing, Storing, Pollers, LongPollers,
             Streamers, Labels, AddMessage, Goto, live, replay, history
<1>3. CreatedInv'
  <2> DEFINE n == Len(stamp)
  <2>1. n \in Nat /\ Len(stamp') = n + 1 /\ n + 1 <= scenario.messages
    <3>1. PICK x : stamp' = Append(stamp, x)
      BY DEF AddMessage
    <3>2. n < scenario.messages /\ n \in Nat /\ scenario.messages \in Nat
      <4>1. Len(stamp) < scenario.messages
        BY DEF AddMessage
      <4> QED
        BY <4>1, Numbers
    <3>3. Len(stamp') = n + 1
      BY <1>0, <3>1 DEF TypeOK
    <3> QED
      BY <3>2, <3>3
  <2> HIDE DEF n
  <2>2. message_queue' = message_queue /\ hand' = [hand EXCEPT ![w] = n + 1]
    BY DEF AddMessage, n
  <2>0. 1..n \subseteq 1..n + 1
    BY <2>1
  <2>3. message_queue' \in Seq(1..n + 1) /\ Ascending(message_queue')
    BY <1>0, <2>0, <2>2, SeqMonotonic DEF CreatedInv, n
  <2>4. \A v \in Workers : messages_queue'[v] \in Seq(1..n + 1)
    <3>1. 1..n \subseteq 1..n + 1
      BY <2>0
    <3>2. messages_queue' = messages_queue
      BY DEF AddMessage, live
    <3> QED
      BY <1>0, <3>1, <3>2, SeqMonotonic DEF CreatedInv, n
  <2>5. ASSUME NEW v \in Workers, pc'[v] \in Publishing PROVE hand'[v] \in 1..n + 1
    <3>1. CASE v = w
      BY <1>0, <2>1, <2>2, <3>1 DEF TypeOK
    <3>2. CASE v # w
      <4>1. hand'[v] = hand[v] /\ pc'[v] = pc[v]
        BY <1>0, <2>2, <3>2 DEF TypeOK, AddMessage, Goto
      <4>2. hand[v] \in 1..n
        BY <1>0, <2>5, <4>1 DEF CreatedInv, n
      <4> QED
        BY <2>1, <4>1, <4>2
    <3> QED
      BY <3>1, <3>2
  <2>6. scenario' = scenario
    BY DEF AddMessage
  <2> QED
    BY <2>1, <2>3, <2>4, <2>5, <2>6 DEF CreatedInv
<1> QED
  BY <1>1, <1>2, <1>3 DEF TypeInv

LEMMA SetTimeTypes ==
  ASSUME TypeInv, NEW w \in Workers, SetTime(w)
  PROVE  TypeInv'
<1>0. TypeOK /\ RequestsInv /\ CreatedInv
  BY DEF TypeInv
<1>1. TypeOK'
  <2>1. last_message' \in Stamps
    <3>1. hand[w] \in 1..Len(stamp)
      BY <1>0 DEF CreatedInv, Publishing, Storing, SetTime
    <3>2. stamp[hand[w]].time \in Nat
      BY <3>1, Numbers, StampTypes
    <3>3. last_message' = [last_message EXCEPT !.time = stamp[hand[w]].time]
      BY DEF SetTime
    <3> QED
      BY <1>0, <3>2, <3>3 DEF TypeOK, Stamps
  <2>2. pc' \in [Workers -> Labels]
    BY <1>0 DEF TypeOK, Labels, SetTime, Goto
  <2>3. UNCHANGED <<scenario, now, stamp, message_queue, channel_mutex, log,
                     messages_queue, workers_with_subscribers, subscriptions,
                     hand, targets, client, greater, qtd, start, since, got>>
    BY DEF SetTime, live, publish, replay, history
  <2> QED
    BY <2>1, <2>2, <2>3, <1>0 DEF TypeOK, MaxStored
<1>2. RequestsInv'
  BY <1>0 DEF TypeOK, RequestsInv, Polling, Streaming, Publishing, Storing, Pollers, LongPollers,
             Streamers, Labels, SetTime, Goto, live, publish, replay, history
<1>3. CreatedInv'
  BY <1>0 DEF TypeOK, CreatedInv, Publishing, Storing, Labels, SetTime, Goto, live, publish, replay,
             history
<1> QED
  BY <1>1, <1>2, <1>3 DEF TypeInv

LEMMA SetTagTypes ==
  ASSUME TypeInv, NEW w \in Workers, SetTag(w)
  PROVE  TypeInv'
<1>0. TypeOK /\ RequestsInv /\ CreatedInv
  BY DEF TypeInv
<1>1. TypeOK'
  <2>1. last_message' \in Stamps
    <3>1. hand[w] \in 1..Len(stamp)
      BY <1>0 DEF CreatedInv, Publishing, Storing, SetTag
    <3>2. stamp[hand[w]].tag \in Nat
      BY <3>1, Numbers, StampTypes
    <3>3. last_message' = [last_message EXCEPT !.tag = stamp[hand[w]].tag]
      BY DEF SetTag
    <3> QED
      BY <1>0, <3>2, <3>3 DEF TypeOK, Stamps
  <2>2. pc' \in [Workers -> Labels]
    BY <1>0 DEF TypeOK, Labels, SetTag, Goto
  <2>3. UNCHANGED <<scenario, now, stamp, message_queue, channel_mutex, log,
                     messages_queue, workers_with_subscribers, subscriptions,
                     hand, targets, client, greater, qtd, start, since, got>>
    BY DEF SetTag, live, publish, replay, history
  <2> QED
    BY <2>1, <2>2, <2>3, <1>0 DEF TypeOK, MaxStored
<1>2. RequestsInv'
  BY <1>0 DEF TypeOK, RequestsInv, Polling, Streaming, Publishing, Storing, Pollers, LongPollers,
             Streamers, Labels, SetTag, Goto, live, publish, replay, history
<1>3. CreatedInv'
  BY <1>0 DEF TypeOK, CreatedInv, Publishing, Storing, Labels, SetTag, Goto, live, publish, replay,
             history
<1> QED
  BY <1>1, <1>2, <1>3 DEF TypeInv

LEMMA StoreMessageTypes ==
  ASSUME TypeInv, StoringInv, NEW w \in Workers, StoreMessage(w)
  PROVE  TypeInv'
<1>0. TypeOK /\ RequestsInv /\ CreatedInv
  BY DEF TypeInv
<1>4. hand[w] \in 1..Len(stamp) /\ \A k \in ToSet(message_queue) : k < hand[w]
  BY <1>0 DEF CreatedInv, Publishing, Storing, StoringInv, StoreMessage
<1>1. TypeOK'
  <2>1. message_queue' \in Seq(Messages)
    <3>1. hand[w] \in Messages /\ message_queue' = Append(message_queue, hand[w])
      BY <1>4, Numbers DEF StoreMessage
    <3> QED
      BY <1>0, <3>1, AppendProperties DEF TypeOK
  <2>2. pc' \in [Workers -> Labels] /\ channel_mutex' \in Workers \cup {None}
    BY <1>0 DEF TypeOK, Labels, StoreMessage, Goto
  <2>3. UNCHANGED <<scenario, now, stamp, last_message, log, messages_queue,
                     workers_with_subscribers, subscriptions, hand, targets,
                     client, greater, qtd, start, since, got>>
    BY DEF StoreMessage, live, publish, replay, history
  <2> QED
    BY <2>1, <2>2, <2>3, <1>0 DEF TypeOK, MaxStored
<1>2. RequestsInv'
  BY <1>0 DEF TypeOK, RequestsInv, Polling, Streaming, Publishing, Storing, Pollers, LongPollers,
             Streamers, Labels, StoreMessage, Goto, live, publish, replay, history
<1>3. CreatedInv'
  <2>1. message_queue' \in Seq(1..Len(stamp)) /\ Ascending(message_queue')
    <3>1. 1..Len(stamp) \in SUBSET Nat
      BY Numbers
    <3>2. message_queue \in Seq(1..Len(stamp)) /\ Ascending(message_queue)
      BY <1>0 DEF CreatedInv
    <3>3. message_queue' = Append(message_queue, hand[w])
      BY DEF StoreMessage
    <3> QED
      BY <1>4, <3>1, <3>2, <3>3, AscendingLast
  <2>2. UNCHANGED <<stamp, scenario, messages_queue, hand>>
    BY DEF StoreMessage, live, publish
  <2>3. \A v \in Workers : pc'[v] \in Publishing => pc[v] \in Publishing
    BY <1>0 DEF TypeOK, StoreMessage, Goto, Publishing, Storing
  <2> QED
    BY <1>0, <2>1, <2>2, <2>3 DEF CreatedInv
<1> QED
  BY <1>1, <1>2, <1>3 DEF TypeInv

LEMMA EnsureQtdOfMessagesTypes ==
  ASSUME TypeInv, NEW w \in Workers, EnsureQtdOfMessages(w)
  PROVE  TypeInv'
<1>0. TypeOK /\ RequestsInv /\ CreatedInv
  BY DEF TypeInv
<1>1. TypeOK'
  <2>1. message_queue' \in Seq(Messages)
    BY TrimmedQueue, Numbers
  <2>2. pc' \in [Workers -> Labels]
    BY <1>0 DEF TypeOK, Labels, EnsureQtdOfMessages, Goto
  <2>3. UNCHANGED <<scenario, now, stamp, last_message, channel_mutex, log, messages_queue,
                     workers_with_subscribers, subscriptions, hand, targets,
                     client, greater, qtd, start, since, got>>
    BY DEF EnsureQtdOfMessages, live, publish, replay, history
  <2> QED
    BY <2>1, <2>2, <2>3, <1>0 DEF TypeOK, MaxStored
<1>2. RequestsInv'
  BY <1>0 DEF TypeOK, RequestsInv, Polling, Streaming, Publishing, Pollers, LongPollers, Streamers,
             Labels, EnsureQtdOfMessages, Goto, live, publish, replay, history
<1>3. CreatedInv'
  <2>1. message_queue' \in Seq(1..Len(stamp)) /\ Ascending(message_queue')
    BY TrimmedQueue
  <2>2. UNCHANGED <<stamp, scenario, messages_queue, hand>>
    BY DEF EnsureQtdOfMessages, live, publish
  <2>3. \A v \in Workers : pc'[v] \in Publishing => pc[v] \in Publishing
    BY <1>0 DEF TypeOK, EnsureQtdOfMessages, Goto, Publishing
  <2> QED
    BY <1>0, <2>1, <2>2, <2>3 DEF CreatedInv
<1> QED
  BY <1>1, <1>2, <1>3 DEF TypeInv

LEMMA BroadcastTypes ==
  ASSUME TypeInv, NEW w \in Workers, Broadcast(w)
  PROVE  TypeInv'
<1>0. TypeOK /\ RequestsInv /\ CreatedInv
  BY DEF TypeInv
<1>1. TypeOK'
  <2>1. channel_mutex' \in Workers \cup {None}
    BY <1>0 DEF TypeOK, Broadcast, Goto
  <2>2. log' \in Seq(Messages)
    <3>1. hand[w] \in Messages /\ log' = Append(log, hand[w])
      BY <1>0, Numbers DEF CreatedInv, Publishing, Broadcast
    <3> QED
      BY <1>0, <3>1, AppendProperties DEF TypeOK
  <2>3. targets' \in [Workers -> SUBSET Workers]
    BY <1>0 DEF TypeOK, Broadcast, Goto
  <2>4. pc' \in [Workers -> Labels]
    BY <1>0 DEF TypeOK, Labels, Broadcast, Goto
  <2>5. UNCHANGED <<scenario, now, stamp, last_message, message_queue, messages_queue,
                     workers_with_subscribers, subscriptions, hand, client,
                     greater, qtd, start, since, got>>
    BY DEF Broadcast, live, replay, history
  <2> QED
    BY <2>1, <2>2, <2>3, <2>4, <2>5, <1>0 DEF TypeOK, MaxStored
<1>2. RequestsInv'
  BY <1>0 DEF TypeOK, RequestsInv, Polling, Streaming, Publishing, Pollers, LongPollers, Streamers,
             Labels, Broadcast, Goto, live, replay, history
<1>3. CreatedInv'
  BY <1>0 DEF TypeOK, CreatedInv, Publishing, Labels, Broadcast, Goto, live, replay, history
<1> QED
  BY <1>1, <1>2, <1>3 DEF TypeInv

LEMMA SendWorkerMessageTypes ==
  ASSUME TypeInv, NEW w \in Workers, NEW v \in Workers, SendWorkerMessage(w, v)
  PROVE  TypeInv'
<1>0. TypeOK /\ RequestsInv /\ CreatedInv
  BY DEF TypeInv
<1>1. TypeOK'
  <2>1. targets' \in [Workers -> SUBSET Workers]
    BY <1>0 DEF TypeOK, SendWorkerMessage
  <2>2. messages_queue' \in [Workers -> Seq(Messages)]
    <3>1. hand[w] \in Messages
      BY <1>0, Numbers DEF CreatedInv, Publishing, SendWorkerMessage
    <3>2. Append(messages_queue[v], hand[w]) \in Seq(Messages)
      BY <1>0, <3>1, AppendProperties DEF TypeOK
    <3> QED
      BY <1>0, <3>2 DEF TypeOK, SendWorkerMessage
  <2>3. UNCHANGED <<scenario, now, stamp, last_message, message_queue, channel_mutex, log,
                     workers_with_subscribers, subscriptions, pc, hand, client,
                     greater, qtd, start, since, got>>
    BY DEF SendWorkerMessage, chan, replay, history
  <2> QED
    BY <2>1, <2>2, <2>3, <1>0 DEF TypeOK, MaxStored
<1>2. RequestsInv'
  BY <1>0 DEF RequestsInv, Pollers, LongPollers, Streamers, SendWorkerMessage, chan, replay, history
<1>3. CreatedInv'
  <2>1. hand[w] \in 1..Len(stamp)
    BY <1>0 DEF CreatedInv, Publishing, SendWorkerMessage
  <2>2. Append(messages_queue[v], hand[w]) \in Seq(1..Len(stamp))
    BY <1>0, <2>1, AppendProperties DEF CreatedInv
  <2>3. \A u \in Workers : messages_queue'[u] \in Seq(1..Len(stamp))
    BY <1>0, <2>2 DEF TypeOK, SendWorkerMessage, CreatedInv
  <2>4. UNCHANGED <<stamp, scenario, message_queue, hand, pc>>
    BY DEF SendWorkerMessage, chan
  <2> QED
    BY <1>0, <2>3, <2>4 DEF CreatedInv
<1> QED
  BY <1>1, <1>2, <1>3 DEF TypeInv

LEMMA UnlockTypes ==
  ASSUME TypeInv, NEW w \in Workers, Unlock(w)
  PROVE  TypeInv'
<1>0. TypeOK /\ RequestsInv /\ CreatedInv
  BY DEF TypeInv
<1>1. TypeOK'
  <2>1. channel_mutex' \in Workers \cup {None}
    BY <1>0 DEF TypeOK, Unlock, Goto
  <2>2. hand' \in [Workers -> Messages \cup {0}]
    BY <1>0 DEF TypeOK, Unlock, Goto
  <2>3. pc' \in [Workers -> Labels]
    BY <1>0 DEF TypeOK, Labels, Unlock, Goto
  <2>4. UNCHANGED <<scenario, now, stamp, last_message, message_queue, log, messages_queue,
                     workers_with_subscribers, subscriptions, targets, client,
                     greater, qtd, start, since, got>>
    BY DEF Unlock, chan, live, replay, history
  <2> QED
    BY <2>1, <2>2, <2>3, <2>4, <1>0 DEF TypeOK, MaxStored
<1>2. RequestsInv'
  BY <1>0 DEF TypeOK, RequestsInv, Polling, Streaming, Publishing, Pollers, LongPollers, Streamers,
             Labels, Unlock, Goto, chan, live, replay, history
<1>3. CreatedInv'
  BY <1>0 DEF TypeOK, CreatedInv, Publishing, Labels, Unlock, Goto, chan, live, replay, history
<1> QED
  BY <1>1, <1>2, <1>3 DEF TypeInv

LEMMA ExpireTypes ==
  ASSUME TypeInv, Expire
  PROVE  TypeInv'
<1>0. TypeOK /\ RequestsInv /\ CreatedInv
  BY DEF TypeInv
<1>1. TypeOK'
  <2>1. message_queue' \in Seq(Messages)
    BY ExpiredQueue, Numbers
  <2>2. UNCHANGED <<scenario, now, stamp, last_message, channel_mutex, log, messages_queue,
                     workers_with_subscribers, subscriptions, pc, hand, targets,
                     client, greater, qtd, start, since, got>>
    BY DEF Expire, live, publish, replay, history
  <2> QED
    BY <2>1, <2>2, <1>0 DEF TypeOK, MaxStored
<1>2. RequestsInv'
  BY <1>0 DEF RequestsInv, Pollers, LongPollers, Streamers, Expire, live, publish, replay, history
<1>3. CreatedInv'
  <2>1. message_queue' \in Seq(1..Len(stamp)) /\ Ascending(message_queue')
    BY ExpiredQueue
  <2>2. UNCHANGED <<stamp, scenario, messages_queue, hand, pc>>
    BY DEF Expire, live, publish
  <2> QED
    BY <1>0, <2>1, <2>2 DEF CreatedInv
<1> QED
  BY <1>1, <1>2, <1>3 DEF TypeInv

LEMMA ProcessMessageTypes ==
  ASSUME TypeInv, NEW w \in Workers, ProcessMessage(w)
  PROVE  TypeInv'
<1>0. TypeOK /\ RequestsInv /\ CreatedInv
  BY DEF TypeInv
<1>1. TypeOK'
  <2>1. got' \in [Clients -> Seq(Messages)]
    BY <1>0 DEF TypeOK, ProcessMessage
  <2>2. since' \in [Clients -> Stamps]
    <3> DEFINE m == Head(messages_queue[w])
    <3>1. m \in 1..Len(stamp)
      BY <1>0, HeadTailProperties DEF CreatedInv, ProcessMessage
    <3>2. stamp[m] \in Stamps
      BY <3>1, Numbers
    <3> QED
      BY <1>0, <3>2 DEF TypeOK, ProcessMessage
  <2>3. subscriptions' \in [Workers -> SUBSET Clients]
    BY <1>0 DEF TypeOK, ProcessMessage
  <2>4. messages_queue' \in [Workers -> Seq(Messages)]
    BY <1>0 DEF TypeOK, ProcessMessage
  <2>5. UNCHANGED <<scenario, now, stamp, last_message, message_queue, channel_mutex, log,
                     workers_with_subscribers, pc, hand, targets, client,
                     greater, qtd, start>>
    BY DEF ProcessMessage, chan, publish, replay
  <2> QED
    BY <2>1, <2>2, <2>3, <2>4, <2>5, <1>0 DEF TypeOK, MaxStored
<1>2. RequestsInv'
  <2>1. \A v \in Workers : subscriptions'[v] \subseteq subscriptions[v]
    BY <1>0 DEF TypeOK, ProcessMessage
  <2>2. UNCHANGED <<pc, client, scenario>>
    BY DEF ProcessMessage, chan, replay
  <2> QED
    BY <1>0, <2>1, <2>2 DEF RequestsInv, Pollers, LongPollers, Streamers
<1>3. CreatedInv'
  <2>1. Tail(messages_queue[w]) \in Seq(1..Len(stamp))
    BY <1>0, HeadTailProperties DEF CreatedInv, ProcessMessage
  <2>2. \A u \in Workers : messages_queue'[u] \in Seq(1..Len(stamp))
    BY <1>0, <2>1 DEF TypeOK, ProcessMessage, CreatedInv
  <2>3. UNCHANGED <<stamp, scenario, message_queue, hand, pc>>
    BY DEF ProcessMessage, chan, publish
  <2> QED
    BY <1>0, <2>2, <2>3 DEF CreatedInv
<1> QED
  BY <1>1, <1>2, <1>3 DEF TypeInv

LEMMA DisconnectTypes ==
  ASSUME TypeInv, NEW w \in Workers, NEW c \in Clients, Disconnect(w, c)
  PROVE  TypeInv'
<1>0. TypeOK /\ RequestsInv /\ CreatedInv
  BY DEF TypeInv
<1>1. TypeOK'
  <2>1. subscriptions' \in [Workers -> SUBSET Clients]
    BY <1>0 DEF TypeOK, Disconnect
  <2>2. UNCHANGED <<scenario, now, stamp, last_message, message_queue, channel_mutex, log,
                     messages_queue, workers_with_subscribers, pc, hand, targets,
                     client, greater, qtd, start, since, got>>
    BY DEF Disconnect, chan, publish, replay, history
  <2> QED
    BY <2>1, <2>2, <1>0 DEF TypeOK, MaxStored
<1>2. RequestsInv'
  <2>1. \A v \in Workers : subscriptions'[v] \subseteq subscriptions[v]
    BY <1>0 DEF TypeOK, Disconnect
  <2>2. UNCHANGED <<pc, client, scenario>>
    BY DEF Disconnect, chan, replay
  <2> QED
    BY <1>0, <2>1, <2>2 DEF RequestsInv, Pollers, LongPollers, Streamers
<1>3. CreatedInv'
  BY <1>0 DEF TypeOK, CreatedInv, Publishing, Labels, Disconnect, chan, publish, replay, history
<1> QED
  BY <1>1, <1>2, <1>3 DEF TypeInv

LEMMA TimeoutTypes ==
  ASSUME TypeInv, NEW w \in Workers, NEW c \in Clients, Timeout(w, c)
  PROVE  TypeInv'
<1>0. TypeOK /\ RequestsInv /\ CreatedInv
  BY DEF TypeInv
<1>1. TypeOK'
  <2>1. subscriptions' \in [Workers -> SUBSET Clients]
    BY <1>0 DEF TypeOK, Timeout
  <2>2. since' \in [Clients -> Stamps]
    <3>1. PICK time \in 0..Skew :
            /\ now - time > 0
            /\ since' = [since EXCEPT ![c] = [time |-> now - time, tag |-> 0]]
      BY DEF Timeout
    <3>2. now - time \in Nat
      BY <3>1, Numbers
    <3>3. [time |-> now - time, tag |-> 0] \in Stamps
      BY <3>2, StampTypes
    <3> QED
      BY <1>0, <3>1, <3>3 DEF TypeOK
  <2>3. UNCHANGED <<scenario, now, stamp, last_message, message_queue, channel_mutex, log,
                     messages_queue, workers_with_subscribers, pc, hand, targets,
                     client, greater, qtd, start, got>>
    BY DEF Timeout, chan, publish, replay
  <2> QED
    BY <2>1, <2>2, <2>3, <1>0 DEF TypeOK, MaxStored
<1>2. RequestsInv'
  <2>1. \A v \in Workers : subscriptions'[v] \subseteq subscriptions[v]
    BY <1>0 DEF TypeOK, Timeout
  <2>2. UNCHANGED <<pc, client, scenario>>
    BY DEF Timeout, chan, replay
  <2> QED
    BY <1>0, <2>1, <2>2 DEF RequestsInv, Pollers, LongPollers, Streamers
<1>3. CreatedInv'
  BY <1>0 DEF TypeOK, CreatedInv, Publishing, Labels, Timeout, chan, publish, replay
<1> QED
  BY <1>1, <1>2, <1>3 DEF TypeInv

LEMMA PollTypes ==
  ASSUME TypeInv, NEW w \in Workers, NEW c \in Clients, Poll(w, c)
  PROVE  TypeInv'
<1>0. TypeOK /\ RequestsInv /\ CreatedInv
  BY DEF TypeInv
<1>1. TypeOK'
  <2>1. client' \in [Workers -> Clients \cup {None}]
    BY <1>0 DEF TypeOK, Poll, Begin, Goto
  <2>2. greater' \in [Workers -> Stamps]
    BY <1>0 DEF TypeOK, Poll, Begin, Goto
  <2>3. pc' \in [Workers -> Labels]
    BY <1>0 DEF TypeOK, Labels, Poll, Begin, Goto
  <2>4. UNCHANGED <<scenario, now, stamp, last_message, message_queue, channel_mutex, log,
                     messages_queue, workers_with_subscribers, subscriptions,
                     hand, targets, qtd, start, since, got>>
    BY DEF Poll, chan, live, publish, history
  <2> QED
    BY <2>1, <2>2, <2>3, <2>4, <1>0 DEF TypeOK, MaxStored
<1>2. RequestsInv'
  BY <1>0 DEF TypeOK, RequestsInv, Polling, Streaming, Publishing, Pollers, LongPollers, Streamers,
             Labels, Poll, Begin, Goto, chan, live, publish, history
<1>3. CreatedInv'
  BY <1>0 DEF TypeOK, CreatedInv, Publishing, Labels, Poll, Begin, Goto, chan, live, publish, history
<1> QED
  BY <1>1, <1>2, <1>3 DEF TypeInv

LEMMA HasOldMessagesTypes ==
  ASSUME TypeInv, NEW w \in Workers, HasOldMessages(w)
  PROVE  TypeInv'
<1>0. TypeOK /\ RequestsInv /\ CreatedInv
  BY DEF TypeInv
<1>1. TypeOK'
  <2>1. client' \in [Workers -> Clients \cup {None}]
    BY <1>0 DEF TypeOK, HasOldMessages, End, Goto
  <2>2. greater' \in [Workers -> Stamps]
    <3>1. Zero \in Stamps
      BY StampTypes
    <3> QED
      BY <1>0, <3>1 DEF TypeOK, HasOldMessages
  <2>3. pc' \in [Workers -> Labels]
    BY <1>0 DEF TypeOK, Labels, HasOldMessages, End, Goto
  <2>4. UNCHANGED <<scenario, now, stamp, last_message, message_queue, channel_mutex, log,
                     messages_queue, workers_with_subscribers, subscriptions,
                     hand, targets, qtd, start, since, got>>
    BY DEF HasOldMessages, chan, live, publish, history
  <2> QED
    BY <2>1, <2>2, <2>3, <2>4, <1>0 DEF TypeOK, MaxStored
<1>2. RequestsInv'
  BY <1>0 DEF TypeOK, RequestsInv, Polling, Streaming, Publishing, Pollers, LongPollers, Streamers,
             Labels, HasOldMessages, End, chan, live, publish, history, Goto
<1>3. CreatedInv'
  BY <1>0 DEF TypeOK, CreatedInv, Publishing, Labels, HasOldMessages, End, chan, live, publish, history, Goto
<1> QED
  BY <1>1, <1>2, <1>3 DEF TypeInv

LEMMA CompareStampTypes ==
  ASSUME TypeInv, NEW w \in Workers, CompareStamp(w)
  PROVE  TypeInv'
<1>0. TypeOK /\ RequestsInv /\ CreatedInv
  BY DEF TypeInv
<1>1. TypeOK'
  <2>1. pc' \in [Workers -> Labels]
    BY <1>0 DEF TypeOK, Labels, CompareStamp, Compare, Goto
  <2>2. UNCHANGED <<scenario, now, stamp, last_message, message_queue, channel_mutex, log,
                     messages_queue, workers_with_subscribers, subscriptions,
                     hand, targets, client, greater, qtd, start, since, got>>
    BY DEF CompareStamp, chan, live, publish, replay, history
  <2> QED
    BY <2>1, <2>2, <1>0 DEF TypeOK, MaxStored
<1>4. pc'[w] \in Polling /\ pc[w] \in Polling /\ \A v \in Workers \ {w} : pc'[v] = pc[v]
  BY <1>0 DEF TypeOK, Polling, CompareStamp, Compare, Goto
<1>2. RequestsInv'
  BY <1>0, <1>4 DEF RequestsInv, Polling, Streaming, Publishing, Storing, Pollers, LongPollers,
             Streamers, CompareStamp, chan, live, publish, replay, history
<1>3. CreatedInv'
  BY <1>0, <1>4 DEF CreatedInv, Polling, Publishing, Storing, CompareStamp, chan, live, publish, replay
<1> QED
  BY <1>1, <1>2, <1>3 DEF TypeInv

LEMMA ReadTimeTypes ==
  ASSUME TypeInv, NEW w \in Workers, ReadTime(w)
  PROVE  TypeInv'
<1>0. TypeOK /\ RequestsInv /\ CreatedInv
  BY DEF TypeInv
<1>1. TypeOK'
  <2>1. greater' \in [Workers -> Stamps]
    <3>1. PICK time \in Nat : greater' = [greater EXCEPT ![w].time = time]
      BY <1>0, StampTypes DEF ReadTime
    <3>2. [greater[w] EXCEPT !.time = time] \in Stamps
      BY <1>0 DEF TypeOK, Stamps
    <3>3. greater' = [greater EXCEPT ![w] = [greater[w] EXCEPT !.time = time]]
      BY <3>1
    <3> QED
      BY <1>0, <3>2, <3>3 DEF TypeOK
  <2>2. pc' \in [Workers -> Labels]
    BY <1>0 DEF TypeOK, Labels, ReadTime, Goto
  <2>3. UNCHANGED <<scenario, now, stamp, last_message, message_queue, channel_mutex, log,
                     messages_queue, workers_with_subscribers, subscriptions,
                     hand, targets, client, qtd, start, since, got>>
    BY DEF ReadTime, chan, live, publish, history
  <2> QED
    BY <2>1, <2>2, <2>3, <1>0 DEF TypeOK, MaxStored
<1>2. RequestsInv'
  BY <1>0 DEF TypeOK, RequestsInv, Polling, Streaming, Publishing, Pollers, LongPollers, Streamers,
             Labels, ReadTime, Goto, chan, live, publish, history
<1>3. CreatedInv'
  BY <1>0 DEF TypeOK, CreatedInv, Publishing, Labels, ReadTime, Goto, chan, live, publish, history
<1> QED
  BY <1>1, <1>2, <1>3 DEF TypeInv

LEMMA ReadTagTypes ==
  ASSUME TypeInv, NEW w \in Workers, ReadTag(w)
  PROVE  TypeInv'
<1>0. TypeOK /\ RequestsInv /\ CreatedInv
  BY DEF TypeInv
<1>1. TypeOK'
  <2>1. greater' \in [Workers -> Stamps]
    <3>1. PICK tag \in Nat : greater' = [greater EXCEPT ![w].tag = tag]
      BY <1>0, StampTypes DEF ReadTag
    <3>2. [greater[w] EXCEPT !.tag = tag] \in Stamps
      BY <1>0 DEF TypeOK, Stamps
    <3>3. greater' = [greater EXCEPT ![w] = [greater[w] EXCEPT !.tag = tag]]
      BY <3>1
    <3> QED
      BY <1>0, <3>2, <3>3 DEF TypeOK
  <2>2. pc' \in [Workers -> Labels]
    BY <1>0 DEF TypeOK, Labels, ReadTag, Goto
  <2>3. UNCHANGED <<scenario, now, stamp, last_message, message_queue, channel_mutex, log,
                     messages_queue, workers_with_subscribers, subscriptions,
                     hand, targets, client, qtd, start, since, got>>
    BY DEF ReadTag, chan, live, publish, history
  <2> QED
    BY <2>1, <2>2, <2>3, <1>0 DEF TypeOK, MaxStored
<1>2. RequestsInv'
  BY <1>0 DEF TypeOK, RequestsInv, Polling, Streaming, Publishing, Pollers, LongPollers, Streamers,
             Labels, ReadTag, Goto, chan, live, publish, history
<1>3. CreatedInv'
  BY <1>0 DEF TypeOK, CreatedInv, Publishing, Labels, ReadTag, Goto, chan, live, publish, history
<1> QED
  BY <1>1, <1>2, <1>3 DEF TypeInv

LEMMA SendOldMessagesTypes ==
  ASSUME TypeInv, NEW w \in Workers, SendOldMessages(w)
  PROVE  TypeInv'
<1>0. TypeOK /\ RequestsInv /\ CreatedInv
  BY DEF TypeInv
<1>1. TypeOK'
  <2>1. got' \in [Clients -> Seq(Messages)]
    <3> DEFINE c == client[w]
               sent == UpTo(Newer(since[c]), greater[w])
    <3>1. c \in Clients
      BY <1>0 DEF RequestsInv, Polling, SendOldMessages, Pollers, LongPollers
    <3>2. sent \in Seq(Messages)
      BY <3>1, StampTypes, OldMessages, Numbers
    <3>3. got[c] \o sent \in Seq(Messages)
      BY <1>0, <3>1, <3>2, ConcatProperties DEF TypeOK
    <3>4. got' = [got EXCEPT ![c] = got[c] \o sent]
      BY DEF SendOldMessages
    <3> HIDE DEF sent
    <3> QED
      BY <1>0, <3>3, <3>4 DEF TypeOK
  <2>2. since' \in [Clients -> Stamps]
    BY <1>0 DEF TypeOK, SendOldMessages, End, Goto
  <2>3. greater' \in [Workers -> Stamps]
    <3>1. Zero \in Stamps
      BY StampTypes
    <3> QED
      BY <1>0, <3>1 DEF TypeOK, SendOldMessages
  <2>4. pc' \in [Workers -> Labels]
    BY <1>0 DEF TypeOK, Labels, SendOldMessages, End, Goto
  <2>5. client' \in [Workers -> Clients \cup {None}]
    BY <1>0 DEF TypeOK, SendOldMessages, End, Goto
  <2>6. UNCHANGED <<scenario, now, stamp, last_message, message_queue, channel_mutex, log,
                     messages_queue, workers_with_subscribers, subscriptions,
                     hand, targets, qtd, start>>
    BY DEF SendOldMessages, chan, live, publish
  <2> QED
    BY <2>1, <2>2, <2>3, <2>4, <2>5, <2>6, <1>0 DEF TypeOK, MaxStored
<1>2. RequestsInv'
  BY <1>0 DEF TypeOK, RequestsInv, Polling, Streaming, Publishing, Pollers, LongPollers, Streamers,
             Labels, SendOldMessages, End, chan, live, publish, Goto
<1>3. CreatedInv'
  BY <1>0 DEF TypeOK, CreatedInv, Publishing, Labels, SendOldMessages, End, chan, live, publish, Goto
<1> QED
  BY <1>1, <1>2, <1>3 DEF TypeInv

LEMMA ResumeTypes ==
  ASSUME TypeInv, NEW w \in Workers, NEW c \in Clients, Resume(w, c)
  PROVE  TypeInv'
<1>0. TypeOK /\ RequestsInv /\ CreatedInv
  BY DEF TypeInv
<1>1. TypeOK'
  <2>1. client' \in [Workers -> Clients \cup {None}]
    BY <1>0 DEF TypeOK, Resume, Begin, Goto
  <2>2. pc' \in [Workers -> Labels]
    BY <1>0 DEF TypeOK, Labels, Resume, Begin, Goto
  <2>3. UNCHANGED <<scenario, now, stamp, last_message, message_queue, channel_mutex, log,
                     messages_queue, workers_with_subscribers, subscriptions,
                     hand, targets, greater, qtd, start, since, got>>
    BY DEF Resume, chan, live, publish, history
  <2> QED
    BY <2>1, <2>2, <2>3, <1>0 DEF TypeOK, MaxStored
<1>2. RequestsInv'
  BY <1>0 DEF TypeOK, RequestsInv, Polling, Streaming, Publishing, Pollers, LongPollers, Streamers,
             Labels, Resume, Begin, Goto, chan, live, publish, history
<1>3. CreatedInv'
  BY <1>0 DEF TypeOK, CreatedInv, Publishing, Labels, Resume, Begin, Goto, chan, live, publish, history
<1> QED
  BY <1>1, <1>2, <1>3 DEF TypeInv

LEMMA SendAfterIdTypes ==
  ASSUME TypeInv, NEW w \in Workers, SendAfterId(w)
  PROVE  TypeInv'
<1>0. TypeOK /\ RequestsInv /\ CreatedInv
  BY DEF TypeInv
<1>1. TypeOK'
  <2>1. got' \in [Clients -> Seq(Messages)]
    <3> DEFINE c == client[w]
               sent == NewerThanId(Last(got[c]))
    <3>1. c \in Clients
      BY <1>0 DEF RequestsInv, Streaming, SendAfterId, Streamers
    <3>2. sent \in Seq(Messages)
      BY MessagesAfterId, Numbers
    <3>3. got[c] \o sent \in Seq(Messages)
      BY <1>0, <3>1, <3>2, ConcatProperties DEF TypeOK
    <3>4. got' = [got EXCEPT ![c] = got[c] \o sent]
      BY DEF SendAfterId
    <3> HIDE DEF sent
    <3> QED
      BY <1>0, <3>3, <3>4 DEF TypeOK
  <2>2. pc' \in [Workers -> Labels]
    BY <1>0 DEF TypeOK, Labels, SendAfterId, Goto
  <2>3. UNCHANGED <<scenario, now, stamp, last_message, message_queue, channel_mutex, log,
                     messages_queue, workers_with_subscribers, subscriptions,
                     hand, targets, client, greater, qtd, start, since>>
    BY DEF SendAfterId, chan, live, publish, replay
  <2> QED
    BY <2>1, <2>2, <2>3, <1>0 DEF TypeOK, MaxStored
<1>2. RequestsInv'
  BY <1>0 DEF TypeOK, RequestsInv, Polling, Streaming, Publishing, Pollers, LongPollers, Streamers,
             Labels, SendAfterId, Goto, chan, live, publish, replay
<1>3. CreatedInv'
  BY <1>0 DEF TypeOK, CreatedInv, Publishing, Labels, SendAfterId, Goto, chan, live, publish, replay
<1> QED
  BY <1>1, <1>2, <1>3 DEF TypeInv

LEMMA AskBacktrackTypes ==
  ASSUME TypeInv, NEW w \in Workers, NEW c \in Clients, NEW b \in 0..MaxStored, AskBacktrack(w, c, b)
  PROVE  TypeInv'
<1>0. TypeOK /\ RequestsInv /\ CreatedInv
  BY DEF TypeInv
<1>1. TypeOK'
  <2>1. client' \in [Workers -> Clients \cup {None}]
    BY <1>0 DEF TypeOK, AskBacktrack, Begin, Goto
  <2>2. qtd' \in [Workers -> 0..MaxStored]
    <3>1. Backtrack(b) \in 0..MaxStored
      BY Numbers DEF Backtrack, Lesser
    <3> QED
      BY <1>0, <3>1 DEF TypeOK, AskBacktrack
  <2>3. pc' \in [Workers -> Labels]
    BY <1>0 DEF TypeOK, Labels, AskBacktrack, Begin, Goto
  <2>4. UNCHANGED <<scenario, now, stamp, last_message, message_queue, channel_mutex, log,
                     messages_queue, workers_with_subscribers, subscriptions,
                     hand, targets, greater, start, since, got>>
    BY DEF AskBacktrack, chan, live, publish, history
  <2> QED
    BY <2>1, <2>2, <2>3, <2>4, <1>0 DEF TypeOK, MaxStored
<1>2. RequestsInv'
  BY <1>0 DEF TypeOK, RequestsInv, Polling, Streaming, Publishing, Pollers, LongPollers, Streamers,
             Labels, AskBacktrack, Begin, Goto, chan, live, publish, history
<1>3. CreatedInv'
  BY <1>0 DEF TypeOK, CreatedInv, Publishing, Labels, AskBacktrack, Begin, Goto, chan, live, publish, history
<1> QED
  BY <1>1, <1>2, <1>3 DEF TypeInv

LEMMA ReadStartTypes ==
  ASSUME TypeInv, NEW w \in Workers, ReadStart(w)
  PROVE  TypeInv'
<1>0. TypeOK /\ RequestsInv /\ CreatedInv
  BY DEF TypeInv
<1>1. TypeOK'
  <2>1. start' \in [Workers -> Int]
    BY <1>0 DEF TypeOK, ReadStart, Goto
  <2>2. pc' \in [Workers -> Labels]
    BY <1>0 DEF TypeOK, Labels, ReadStart, Goto
  <2>3. UNCHANGED <<scenario, now, stamp, last_message, message_queue, channel_mutex, log,
                     messages_queue, workers_with_subscribers, subscriptions,
                     hand, targets, client, greater, qtd, since, got>>
    BY DEF ReadStart, chan, live, publish, history
  <2> QED
    BY <2>1, <2>2, <2>3, <1>0 DEF TypeOK, MaxStored
<1>2. RequestsInv'
  BY <1>0 DEF TypeOK, RequestsInv, Polling, Streaming, Publishing, Pollers, LongPollers, Streamers,
             Labels, ReadStart, Goto, chan, live, publish, history
<1>3. CreatedInv'
  BY <1>0 DEF TypeOK, CreatedInv, Publishing, Labels, ReadStart, Goto, chan, live, publish, history
<1> QED
  BY <1>1, <1>2, <1>3 DEF TypeInv

LEMMA SendBacktrackTypes ==
  ASSUME TypeInv, NEW w \in Workers, SendBacktrack(w)
  PROVE  TypeInv'
<1>0. TypeOK /\ RequestsInv /\ CreatedInv
  BY DEF TypeInv
<1>1. TypeOK'
  <2>1. got' \in [Clients -> Seq(Messages)]
    <3> DEFINE c == client[w]
               end == Lesser(start[w] + qtd[w], Len(message_queue))
               sent == IF start[w] < 0 THEN <<>> ELSE SubSeq(message_queue, start[w] + 1, end)
    <3>1. c \in Clients
      BY <1>0 DEF RequestsInv, Streaming, SendBacktrack, Streamers
    <3>2. sent \in Seq(Messages)
      BY BacktrackMessages, Numbers
    <3>3. got[c] \o sent \in Seq(Messages)
      BY <1>0, <3>1, <3>2, ConcatProperties DEF TypeOK
    <3>4. got' = [got EXCEPT ![c] = got[c] \o sent]
      BY DEF SendBacktrack
    <3> HIDE DEF sent
    <3> QED
      BY <1>0, <3>3, <3>4 DEF TypeOK
  <2>2. qtd' \in [Workers -> 0..MaxStored]
    <3>1. 0 \in 0..MaxStored
      BY Numbers
    <3> QED
      BY <1>0, <3>1 DEF TypeOK, SendBacktrack
  <2>3. start' \in [Workers -> Int]
    BY <1>0 DEF TypeOK, SendBacktrack, Goto
  <2>4. pc' \in [Workers -> Labels]
    BY <1>0 DEF TypeOK, Labels, SendBacktrack, Goto
  <2>5. UNCHANGED <<scenario, now, stamp, last_message, message_queue, channel_mutex, log,
                     messages_queue, workers_with_subscribers, subscriptions,
                     hand, targets, client, greater, since>>
    BY DEF SendBacktrack, chan, live, publish
  <2> QED
    BY <2>1, <2>2, <2>3, <2>4, <2>5, <1>0 DEF TypeOK, MaxStored
<1>2. RequestsInv'
  BY <1>0 DEF TypeOK, RequestsInv, Polling, Streaming, Publishing, Pollers, LongPollers, Streamers,
             Labels, SendBacktrack, Goto, chan, live, publish
<1>3. CreatedInv'
  BY <1>0 DEF TypeOK, CreatedInv, Publishing, Labels, SendBacktrack, Goto, chan, live, publish
<1> QED
  BY <1>1, <1>2, <1>3 DEF TypeInv

LEMMA AssignTypes ==
  ASSUME TypeInv, NEW w \in Workers, Assign(w)
  PROVE  TypeInv'
<1>0. TypeOK /\ RequestsInv /\ CreatedInv
  BY DEF TypeInv
<1>1. TypeOK'
  <2>1. subscriptions' \in [Workers -> SUBSET Clients]
    <3>1. client[w] \in Clients
      BY <1>0 DEF RequestsInv, Assign, Streamers, LongPollers
    <3> QED
      BY <1>0, <3>1 DEF TypeOK, Assign
  <2>2. workers_with_subscribers' \in SUBSET Workers
    BY <1>0 DEF TypeOK, Assign, End, Goto
  <2>3. qtd' \in [Workers -> 0..MaxStored]
    <3>1. 0 \in 0..MaxStored
      BY Numbers
    <3> QED
      BY <1>0, <3>1 DEF TypeOK, Assign
  <2>4. pc' \in [Workers -> Labels]
    BY <1>0 DEF TypeOK, Labels, Assign, End, Goto
  <2>5. client' \in [Workers -> Clients \cup {None}]
    BY <1>0 DEF TypeOK, Assign, End, Goto
  <2>6. UNCHANGED <<scenario, now, stamp, last_message, message_queue, channel_mutex, log,
                     messages_queue, hand, targets, greater, start, since, got>>
    BY DEF Assign, chan, publish, history
  <2> QED
    BY <2>1, <2>2, <2>3, <2>4, <2>5, <2>6, <1>0 DEF TypeOK, MaxStored
<1>2. RequestsInv'
  <2>1. client[w] \in Streamers \cup LongPollers /\ client[w] \in Clients
    BY <1>0 DEF RequestsInv, Assign, Streamers, LongPollers
  <2>2. client[w] # None
    BY <2>1, ConstantsAssumption DEF ConstantsAssumption
  <2>3. \A v \in Workers : subscriptions'[v] = IF v = w THEN subscriptions[v] \cup {client[w]}
                                               ELSE subscriptions[v]
    BY <1>0 DEF TypeOK, Assign
  <2>4. \A v \in Workers : /\ client'[v] = IF v = w THEN None ELSE client[v]
                           /\ pc'[v] = IF v = w THEN "idle" ELSE pc[v]
    BY <1>0 DEF TypeOK, Assign, End, Goto
  <2>5. scenario' = scenario
    BY DEF Assign, chan
  <2>6. ASSUME NEW v \in Workers
        PROVE  /\ pc'[v] \in Polling => client'[v] \in Pollers \cup LongPollers
               /\ pc'[v] \in Streaming => client'[v] \in Streamers
               /\ pc'[v] = "assign" => client'[v] \in Streamers \cup LongPollers
               /\ pc'[v] \in Publishing \cup {"idle"} => client'[v] = None
               /\ subscriptions'[v] \subseteq Streamers \cup LongPollers
    BY <1>0, <2>1, <2>3, <2>4 DEF RequestsInv, Polling, Streaming, Publishing
  <2>7. ASSUME NEW u \in Workers, NEW v \in Workers, client'[v] # None
        PROVE  client'[v] \notin subscriptions'[u] /\ (client'[u] = client'[v] => u = v)
    BY <1>0, <2>2, <2>3, <2>4, <2>7 DEF RequestsInv
  <2> QED
    BY <2>5, <2>6, <2>7 DEF RequestsInv, Pollers, LongPollers, Streamers
<1>3. CreatedInv'
  BY <1>0 DEF TypeOK, CreatedInv, Publishing, Labels, Assign, End, chan, publish, history, Goto
<1> QED
  BY <1>1, <1>2, <1>3 DEF TypeInv

LEMMA TickTypes ==
  ASSUME TypeInv, Tick
  PROVE  TypeInv'
<1>0. TypeOK /\ RequestsInv /\ CreatedInv
  BY DEF TypeInv
<1>1. TypeOK'
  <2>1. now' \in Nat
    BY <1>0 DEF TypeOK, Tick
  <2>2. UNCHANGED <<scenario, stamp, last_message, message_queue, channel_mutex, log,
                     messages_queue, workers_with_subscribers, subscriptions, pc,
                     hand, targets, client, greater, qtd, start, since, got>>
    BY DEF Tick, live, publish, replay, history
  <2> QED
    BY <2>1, <2>2, <1>0 DEF TypeOK, MaxStored
<1>2. RequestsInv'
  BY <1>0 DEF RequestsInv, Pollers, LongPollers, Streamers, Tick, live, publish, replay, history
<1>3. CreatedInv'
  BY <1>0 DEF TypeOK, CreatedInv, Publishing, Labels, Tick, live, publish, replay, history
<1> QED
  BY <1>1, <1>2, <1>3 DEF TypeInv

----------------------------------------------------------------------------
(* The mutex of the channel.                                               *)

(* Steps that do not take or release it, nor create a message.             *)
LEMMA StoringKept ==
  ASSUME StoringInv, UNCHANGED <<stamp, channel_mutex, hand>>,
         \A m \in ToSet(message_queue') : m \in ToSet(message_queue),
         \A w \in Workers :
           /\ pc'[w] \in Storing => pc[w] \in Storing
           /\ pc'[w] = "enqueue" => pc[w] = "enqueue"
  PROVE  StoringInv'
BY DEF StoringInv

(* Who takes it finds nobody that holds it.                                *)
LEMMA NobodyStores ==
  ASSUME StoringInv, channel_mutex = None
  PROVE  \A w \in Workers : pc[w] \notin Storing /\ pc[w] # "enqueue"
BY ConstantsAssumption DEF ConstantsAssumption, StoringInv

LEMMA PublisherStores ==
  ASSUME TypeInv, StoringInv, NEW w \in Workers, Publisher(w)
  PROVE  StoringInv'
<1>0. w # None
  BY ConstantsAssumption DEF ConstantsAssumption
<1>1. CASE AddMessage(w)
  <2>1. \A v \in Workers : pc[v] \notin Storing /\ pc[v] # "enqueue"
    BY <1>1, NobodyStores DEF AddMessage
  <2>2. Len(stamp') = Len(stamp) + 1 /\ message_queue' = message_queue /\ channel_mutex' = w
    <3>1. PICK x : stamp' = Append(stamp, x)
      BY <1>1 DEF AddMessage
    <3>2. stamp \in Seq(Stamps)
      BY DEF TypeInv, TypeOK
    <3>3. Len(stamp') = Len(stamp) + 1
      BY <3>1, <3>2
    <3> QED
      BY <1>1, <3>3 DEF AddMessage
  <2>3. /\ hand'[w] = Len(stamp) + 1 /\ pc'[w] = "set time"
        /\ \A v \in Workers \ {w} : pc'[v] = pc[v]
    BY <1>1 DEF AddMessage, Goto, TypeInv, TypeOK
  <2>4. \A m \in ToSet(message_queue) : m < Len(stamp) + 1
    <3>1. \A m \in ToSet(message_queue) : m \in 1..Len(stamp)
      BY ElementOfSeq, LenProperties DEF TypeInv, CreatedInv, ToSet
    <3> QED
      BY <3>1, Numbers
  <2> QED
    BY <2>1, <2>2, <2>3, <2>4 DEF StoringInv
<1>2. CASE SetTime(w)
  BY <1>2, StoringKept DEF SetTime, Goto, Storing, publish, TypeInv, TypeOK
<1>3. CASE SetTag(w)
  BY <1>3, StoringKept DEF SetTag, Goto, Storing, publish, TypeInv, TypeOK
<1>4. CASE StoreMessage(w)
  <2>1. channel_mutex = w /\ \A v \in Workers \ {w} : pc[v] \notin Storing /\ pc[v] # "enqueue"
    BY <1>4 DEF StoreMessage, StoringInv, Storing
  <2>2. pc'[w] = "limit" /\ \A v \in Workers \ {w} : pc'[v] = pc[v]
    BY <1>4 DEF StoreMessage, Goto, TypeInv, TypeOK
  <2> QED
    BY <2>1, <2>2 DEF StoringInv, Storing
<1>5. CASE EnsureQtdOfMessages(w)
  <2>1. \A m \in ToSet(message_queue') : m \in ToSet(message_queue)
    BY <1>5, TrimmedQueue
  <2> QED
    BY <1>5, <2>1, StoringKept DEF EnsureQtdOfMessages, Goto, Storing, publish, TypeInv, TypeOK
<1>6. CASE Broadcast(w)
  <2>1. \A v \in Workers : pc[v] \notin Storing /\ pc[v] # "enqueue"
    BY <1>6, NobodyStores DEF Broadcast
  <2>2. /\ channel_mutex' = w /\ pc'[w] = "enqueue"
        /\ \A v \in Workers \ {w} : pc'[v] = pc[v]
    BY <1>6 DEF Broadcast, Goto, TypeInv, TypeOK
  <2> QED
    BY <2>1, <2>2 DEF StoringInv, Storing
<1>7. ASSUME NEW v \in Workers, SendWorkerMessage(w, v) PROVE StoringInv'
  BY <1>7, StoringKept DEF SendWorkerMessage, chan
<1>8. CASE Unlock(w)
  <2>1. channel_mutex = w /\ \A v \in Workers \ {w} : pc[v] \notin Storing /\ pc[v] # "enqueue"
    BY <1>8 DEF Unlock, StoringInv
  <2>2. pc'[w] = "idle" /\ \A v \in Workers \ {w} : pc'[v] = pc[v]
    BY <1>8 DEF Unlock, Goto, TypeInv, TypeOK
  <2> QED
    BY <2>1, <2>2 DEF StoringInv, Storing
<1> QED
  BY <1>1, <1>2, <1>3, <1>4, <1>5, <1>6, <1>7, <1>8 DEF Publisher

LEMMA StoringStep ==
  ASSUME TypeInv, StoringInv, [Next]_vars
  PROVE  StoringInv'
<1>1. ASSUME NEW w \in Workers, Publisher(w) PROVE StoringInv'
  BY <1>1, PublisherStores
<1>2. ASSUME NEW w \in Workers, Request(w) PROVE StoringInv'
  <2>0. UNCHANGED <<stamp, message_queue, channel_mutex, hand>>
    BY <1>2 DEF Request, Poll, Resume, AskBacktrack, HasOldMessages, CompareStamp, ReadTime, ReadTag,
                SendOldMessages, SendAfterId, ReadStart, SendBacktrack, Assign, chan, publish
  <2>1. PICK label \in Polling \cup Streaming \cup {"assign", "idle"} :
          pc' = [pc EXCEPT ![w] = label]
    BY <1>2 DEF Request, Poll, Resume, AskBacktrack, HasOldMessages, CompareStamp, Compare, ReadTime,
                ReadTag, SendOldMessages, SendAfterId, ReadStart, SendBacktrack, Assign, End, Goto,
                Polling, Streaming
  <2>2. \A v \in Workers : /\ pc'[v] \in Storing => pc[v] \in Storing
                           /\ pc'[v] = "enqueue" => pc[v] = "enqueue"
    BY <2>1 DEF TypeInv, TypeOK, Polling, Streaming, Storing
  <2> QED
    BY <2>0, <2>2, StoringKept
<1>3. ASSUME NEW w \in Workers, Subscription(w) PROVE StoringInv'
  <2>1. UNCHANGED <<stamp, message_queue, channel_mutex, hand, pc>>
    BY <1>3 DEF Subscription, ProcessMessage, Disconnect, Timeout, chan, publish
  <2> QED
    BY <2>1, StoringKept
<1>4. CASE Expire
  <2>1. \A m \in ToSet(message_queue') : m \in ToSet(message_queue)
    BY <1>4, ExpiredQueue
  <2> QED
    BY <1>4, <2>1, StoringKept DEF Expire, publish
<1>5. CASE Tick
  BY <1>5, StoringKept DEF Tick, publish
<1>6. CASE UNCHANGED vars
  BY <1>6, StoringKept DEF vars, chan, publish
<1> QED
  BY <1>1, <1>2, <1>3, <1>4, <1>5, <1>6 DEF Next

----------------------------------------------------------------------------
(* What a worker is behind of the log.                                     *)

(* A publisher that goes through the workers owes this one its message.    *)
Due(w) == IF \E p \in Workers : w \in targets[p] THEN 1 ELSE 0

LEMMA OneOwes ==
  ASSUME NEW S, NEW Q, NEW w, \A p, q \in S : w \in Q[p] /\ w \in Q[q] => p = q
  PROVE  Cardinality({p \in S : w \in Q[p]}) = IF \E p \in S : w \in Q[p] THEN 1 ELSE 0
<1> DEFINE P == {p \in S : w \in Q[p]}
<1>1. CASE \E p \in S : w \in Q[p]
  <2>1. PICK p \in S : w \in Q[p]
    BY <1>1
  <2>2. P = {p}
    BY <2>1
  <2> QED
    BY <1>1, <2>2, FS_Singleton
<1>2. CASE ~\E p \in S : w \in Q[p]
  <2>1. P = {}
    BY <1>2
  <2> QED
    BY <1>2, <2>1, FS_EmptySet
<1> QED
  BY <1>1, <1>2

LEMMA PendingIs ==
  ASSUME BroadcastInv, NEW w \in Workers
  PROVE  Pending(w) = Len(messages_queue[w]) + Due(w)
<1>1. \A p, q \in Workers : w \in targets[p] /\ w \in targets[q] => p = q
  BY DEF BroadcastInv
<1> QED
  BY <1>1, OneOwes DEF Pending, Due

LEMMA PendingIsNext ==
  ASSUME \A p, q \in Workers : targets'[p] # {} /\ targets'[q] # {} => p = q, NEW w \in Workers
  PROVE  Pending(w)' = Len(messages_queue'[w]) + Due(w)'
<1>1. \A p, q \in Workers : w \in targets'[p] /\ w \in targets'[q] => p = q
  OBVIOUS
<1> DEFINE Q == targets'
<1>2. Cardinality({p \in Workers : w \in Q[p]}) = IF \E p \in Workers : w \in Q[p] THEN 1 ELSE 0
  <2> HIDE DEF Q
  <2> QED
    BY <1>1, OneOwes DEF Q
<1> QED
  BY <1>2 DEF Pending, Due

(* A worker has the end of the log in its queue or about to be put there.  *)
LEMMA BehindBy ==
  ASSUME TypeInv, BroadcastInv, NEW w \in Workers
  PROVE  /\ Len(log) \in Nat /\ Len(messages_queue[w]) \in Nat /\ Due(w) \in {0, 1}
         /\ messages_queue[w] \in Seq(Messages)
         /\ DOMAIN messages_queue[w] = 1..Len(messages_queue[w])
         /\ Behind(w) = Len(log) - (Len(messages_queue[w]) + Due(w))
         /\ Behind(w) \in Nat
<1>1. messages_queue[w] \in Seq(Messages) /\ log \in Seq(Messages)
  BY DEF TypeInv, TypeOK
<1>2. Behind(w) = Len(log) - (Len(messages_queue[w]) + Due(w))
  BY PendingIs DEF Behind
<1> QED
  BY <1>1, <1>2, LenProperties DEF BroadcastInv, Due

(* A step that leaves the queues alone, and what publishers do with them.  *)
LEMMA QuietStep ==
  ASSUME BroadcastInv, UNCHANGED <<log, messages_queue, targets, workers_with_subscribers>>,
         \A w \in Workers : subscriptions'[w] \subseteq subscriptions[w],
         \A p \in Workers :
           /\ pc'[p] = "enqueue" <=> pc[p] = "enqueue"
           /\ pc[p] = "enqueue" => channel_mutex' = channel_mutex /\ hand'[p] = hand[p]
  PROVE  BroadcastInv'
<1>1. \A w \in Workers : Behind(w)' = Behind(w)
  BY DEF Behind, Pending
<1>2. \A p \in Workers :
        /\ targets'[p] \subseteq workers_with_subscribers'
        /\ targets'[p] # {} => pc'[p] = "enqueue"
        /\ pc'[p] = "enqueue" =>
             channel_mutex' = p /\ log' # <<>> /\ hand'[p] = log'[Len(log')]
  BY DEF BroadcastInv
<1>3. \A w \in Workers :
        /\ subscriptions'[w] # {} => w \in workers_with_subscribers'
        /\ w \notin workers_with_subscribers' => messages_queue'[w] = <<>>
        /\ Behind(w)' \in Nat
        /\ \A k \in DOMAIN messages_queue'[w] : messages_queue'[w][k] = log'[Behind(w)' + k]
  BY <1>1 DEF BroadcastInv
<1> QED
  BY <1>2, <1>3 DEF BroadcastInv

(* The abstract log does not notice it.                                    *)
LEMMA LogStutters ==
  ASSUME UNCHANGED <<log, messages_queue, targets, workers_with_subscribers, subscriptions, got>>
  PROVE  UNCHANGED Log!vars
<1>1. \A w \in Workers : Pending(w)' = Pending(w)
  BY DEF Pending
<1>2. [w \in Workers |-> Len(log') - Pending(w)'] = [w \in Workers |-> Len(log) - Pending(w)]
  BY <1>1
<1> QED
  BY <1>2 DEF Log!vars

(* A client that is in no channel is sent stored messages.                 *)
LEMMA LogReplays ==
  ASSUME TypeInv, NEW w \in Workers, client[w] \in Clients,
         NEW sent \in Seq(1..Len(stamp)), Ascending(sent),
         got' = [got EXCEPT ![client[w]] = got[client[w]] \o sent],
         UNCHANGED <<log, messages_queue, targets, workers_with_subscribers, subscriptions>>
  PROVE  Log!Replay(client[w])
<1> DEFINE c == client[w]
           n == Len(got[c])
<1>0. c \in Clients /\ got[c] \in Seq(Messages) /\ got \in [Clients -> Seq(Messages)]
      /\ sent \in Seq(Messages)
  BY Numbers DEF TypeInv, TypeOK
<1>1. ~Log!Subscribed(c)
  <2>1. c # None
    BY ConstantsAssumption DEF ConstantsAssumption
  <2> QED
    BY <2>1 DEF TypeInv, RequestsInv, Log!Subscribed
<1>2. \A d \in Clients \ {c} : got'[d] = got[d]
  BY <1>0
<1>3. got'[c] = got[c] \o sent
  BY <1>0
<1> HIDE DEF c
<1>4. /\ n \in Nat /\ Len(sent) \in Nat /\ got'[c] \in Seq(Messages)
      /\ Len(got'[c]) = n + Len(sent)
      /\ \A i \in 1..n + Len(sent) : got'[c][i] = IF i <= n THEN got[c][i] ELSE sent[i - n]
      /\ DOMAIN sent = 1..Len(sent)
  <2>1. /\ got[c] \o sent \in Seq(Messages)
        /\ Len(got[c] \o sent) = Len(got[c]) + Len(sent)
        /\ \A i \in 1..Len(got[c]) + Len(sent) :
             (got[c] \o sent)[i] = IF i <= Len(got[c]) THEN got[c][i] ELSE sent[i - Len(got[c])]
    <3>1. got[c] \in Seq(Messages) /\ sent \in Seq(Messages)
      BY <1>0
    <3> QED
      BY <3>1, ConcatProperties
  <2>2. n \in Nat /\ Len(sent) \in Nat /\ DOMAIN sent = 1..Len(sent)
    BY <1>0, LenProperties
  <2> QED
    BY <1>3, <2>1, <2>2
<1>5. SubSeq(got'[c], 1, n) = got[c]
  <2>1. \A i \in 1..n : got'[c][i] \in Messages
    BY <1>4, ElementOfSeq
  <2>2. /\ SubSeq(got'[c], 1, n) \in Seq(Messages)
        /\ Len(SubSeq(got'[c], 1, n)) = n
        /\ \A i \in 1..n - 1 + 1 : SubSeq(got'[c], 1, n)[i] = got'[c][1 + i - 1]
    BY <1>4, <2>1, SubSeqProperties
  <2>3. \A i \in 1..n : SubSeq(got'[c], 1, n)[i] = got[c][i]
    <3> SUFFICES ASSUME NEW i \in 1..n PROVE SubSeq(got'[c], 1, n)[i] = got[c][i]
      OBVIOUS
    <3>1. i \in 1..n - 1 + 1 /\ 1 + i - 1 = i /\ i \in 1..n + Len(sent) /\ i <= n
      BY <1>4
    <3> QED
      BY <1>4, <2>2, <3>1
  <2> QED
    BY <1>0, <2>2, <2>3, SeqEqual
<1>6. ASSUME NEW i \in n + 1..Len(got'[c]), NEW j \in n + 1..Len(got'[c]), i < j
      PROVE  got'[c][i] < got'[c][j]
  <2>1. /\ i - n \in DOMAIN sent /\ j - n \in DOMAIN sent /\ i - n < j - n
        /\ got'[c][i] = sent[i - n] /\ got'[c][j] = sent[j - n]
    <3> HIDE DEF n
    <3>1. i \in 1..n + Len(sent) /\ j \in 1..n + Len(sent) /\ i > n /\ j > n
      BY <1>4
    <3>2. i - n \in 1..Len(sent) /\ j - n \in 1..Len(sent) /\ i - n < j - n
      BY <1>4, <1>6, <3>1
    <3>3. ~(i <= n) /\ ~(j <= n)
      BY <1>4, <3>1
    <3> QED
      BY <1>4, <3>1, <3>2, <3>3
  <2> QED
    BY <2>1 DEF Ascending
<1>7. UNCHANGED <<log, workers_with_subscribers, subscriptions>>
  OBVIOUS
<1>8. [v \in Workers |-> Len(log') - Pending(v)'] = [v \in Workers |-> Len(log) - Pending(v)]
  <2>1. \A v \in Workers : Pending(v)' = Pending(v)
    BY DEF Pending
  <2> QED
    BY <2>1
<1> QED
  BY <1>1, <1>2, <1>5, <1>6, <1>7, <1>8 DEF Log!Replay, c

----------------------------------------------------------------------------
(* Every step keeps BroadcastInv and is one of the log, or none.           *)

LogStep == [Log!Next]_(Log!vars)

(* Nobody goes through the workers while the mutex is free.                *)
LEMMA NobodyBroadcasts ==
  ASSUME BroadcastInv, channel_mutex = None, NEW p \in Workers
  PROVE  pc[p] # "enqueue" /\ targets[p] = {}
<1>1. p # None
  BY ConstantsAssumption DEF ConstantsAssumption
<1> QED
  BY <1>1 DEF BroadcastInv

LEMMA BroadcastLog ==
  ASSUME TypeInv, BroadcastInv, NEW w \in Workers, Broadcast(w)
  PROVE  BroadcastInv' /\ LogStep
<1> DEFINE n == Len(log)
           m == hand[w]
           listening == workers_with_subscribers
<1>1. /\ log' = Append(log, m)
      /\ channel_mutex' = w
      /\ UNCHANGED <<messages_queue, workers_with_subscribers, subscriptions, hand, got>>
  BY DEF Broadcast, live, history
<1>2. m \in Messages
  BY Numbers DEF TypeInv, CreatedInv, Publishing, Broadcast
<1>3. /\ n \in Nat /\ log \in Seq(Messages) /\ log' # <<>> /\ Len(log') = n + 1
      /\ log'[n + 1] = m /\ \A i \in 1..n : log'[i] = log[i]
  BY <1>1, <1>2, LenProperties DEF TypeInv, TypeOK
<1>4. \A p \in Workers : targets[p] = {} /\ pc[p] # "enqueue"
  BY NobodyBroadcasts DEF Broadcast
<1>5. \A p \in Workers : targets'[p] = IF p = w THEN listening ELSE {}
  BY <1>4 DEF TypeInv, TypeOK, Broadcast
<1>6. \A p \in Workers : pc'[p] = IF p = w THEN "enqueue" ELSE pc[p]
  BY DEF TypeInv, TypeOK, Broadcast, Goto
<1> HIDE DEF n, m, listening
<1>7. ASSUME NEW v \in Workers
      PROVE  /\ Due(v) = 0
             /\ Due(v)' = IF v \in listening THEN 1 ELSE 0
             /\ Pending(v)' = Len(messages_queue[v]) + Due(v)'
  <2>1. Due(v) = 0
    BY <1>4 DEF Due
  <2>2. Due(v)' = IF v \in listening THEN 1 ELSE 0
    BY <1>5 DEF Due
  <2>3. \A p, q \in Workers : targets'[p] # {} /\ targets'[q] # {} => p = q
    BY <1>5
  <2> QED
    BY <1>1, <2>1, <2>2, <2>3, PendingIsNext
<1>8. ASSUME NEW v \in Workers
      PROVE  /\ Behind(v) = n - Len(messages_queue[v]) /\ Behind(v) \in Nat
             /\ Behind(v)' = IF v \in listening THEN Behind(v) ELSE n + 1
  <2>1. Behind(v) = n - (Len(messages_queue[v]) + 0) /\ Behind(v) \in Nat
        /\ Len(messages_queue[v]) \in Nat
    BY <1>7, BehindBy DEF n
  <2>2. Behind(v)' = (n + 1) - (Len(messages_queue[v]) + Due(v)')
    BY <1>3, <1>7 DEF Behind
  <2>3. v \notin listening => Len(messages_queue[v]) = 0
    BY DEF BroadcastInv, listening
  <2> QED
    BY <1>3, <1>7, <2>1, <2>2, <2>3
<1>9. ASSUME NEW p \in Workers
      PROVE  /\ targets'[p] \subseteq workers_with_subscribers'
             /\ targets'[p] # {} => pc'[p] = "enqueue"
             /\ pc'[p] = "enqueue" =>
                  channel_mutex' = p /\ log' # <<>> /\ hand'[p] = log'[Len(log')]
  BY <1>1, <1>3, <1>4, <1>5, <1>6 DEF listening, m
<1>10. ASSUME NEW v \in Workers, NEW k \in DOMAIN messages_queue'[v]
       PROVE  messages_queue'[v][k] = log'[Behind(v)' + k]
  <2>1. k \in 1..Len(messages_queue[v]) /\ messages_queue[v][k] = log[Behind(v) + k]
    BY <1>1, BehindBy DEF BroadcastInv
  <2>2. v \in listening
    <3> SUFFICES ASSUME v \notin listening PROVE FALSE
      OBVIOUS
    <3>1. Len(messages_queue[v]) = 0
      BY DEF BroadcastInv, listening
    <3> QED
      BY <2>1, <3>1
  <2>3. Behind(v) + k \in 1..n
    BY <1>3, <1>8, <2>1, BehindBy
  <2> QED
    BY <1>1, <1>3, <1>8, <2>1, <2>2, <2>3
<1>11. BroadcastInv'
  <2>1. \A v \in Workers : Behind(v)' \in Nat
    BY <1>3, <1>8
  <2>2. \A v \in Workers :
          /\ subscriptions'[v] # {} => v \in workers_with_subscribers'
          /\ v \notin workers_with_subscribers' => messages_queue'[v] = <<>>
    BY <1>1 DEF BroadcastInv
  <2> QED
    BY <1>9, <1>10, <2>1, <2>2 DEF BroadcastInv
<1>12. Log!Broadcast(m)
  <2>1. [v \in Workers |-> Len(log') - Pending(v)'] =
        [v \in Workers |-> IF v \in listening THEN [u \in Workers |-> Len(log) - Pending(u)][v]
                           ELSE Len(log) + 1]
    <3>1. \A v \in Workers : Len(log') - Pending(v)' =
            IF v \in listening THEN Len(log) - Pending(v) ELSE Len(log) + 1
      BY <1>8 DEF Behind, n
    <3> QED
      BY <3>1
  <2> QED
    BY <1>1, <2>1 DEF Log!Broadcast, listening
<1> QED
  BY <1>2, <1>11, <1>12 DEF LogStep, Log!Next

LEMMA SendWorkerMessageLog ==
  ASSUME TypeInv, BroadcastInv, NEW w \in Workers, NEW v \in Workers, SendWorkerMessage(w, v)
  PROVE  BroadcastInv' /\ LogStep
<1> DEFINE n == Len(log)
           q == messages_queue[v]
<1>1. UNCHANGED <<log, channel_mutex, workers_with_subscribers, subscriptions, pc, hand, got>>
  BY DEF SendWorkerMessage, chan, history
<1>2. pc[w] = "enqueue" /\ v \in targets[w] /\ log # <<>> /\ hand[w] = log[n]
  BY DEF SendWorkerMessage, BroadcastInv
<1>3. \A p \in Workers : p # w => targets[p] = {}
  BY <1>2 DEF BroadcastInv
<1>4. \A p \in Workers : targets'[p] = IF p = w THEN targets[w] \ {v} ELSE {}
  BY <1>3 DEF SendWorkerMessage, TypeInv, TypeOK
<1>5. \A u \in Workers : messages_queue'[u] = IF u = v THEN Append(q, hand[w]) ELSE messages_queue[u]
  BY DEF SendWorkerMessage, TypeInv, TypeOK
<1>6. ASSUME NEW u \in Workers
      PROVE  /\ Due(u) = IF u \in targets[w] THEN 1 ELSE 0
             /\ Due(u)' = IF u # v /\ u \in targets[w] THEN 1 ELSE 0
             /\ Pending(u)' = Len(messages_queue'[u]) + Due(u)'
  <2>1. Due(u) = IF u \in targets[w] THEN 1 ELSE 0
    BY <1>3 DEF Due
  <2>2. Due(u)' = IF u # v /\ u \in targets[w] THEN 1 ELSE 0
    BY <1>4 DEF Due
  <2>3. \A p, r \in Workers : targets'[p] # {} /\ targets'[r] # {} => p = r
    BY <1>4
  <2> QED
    BY <2>1, <2>2, <2>3, PendingIsNext
<1>7. /\ q \in Seq(Messages) /\ Len(q) \in Nat /\ n \in Nat /\ n # 0
      /\ DOMAIN q = 1..Len(q) /\ hand[w] \in Messages
  <2>1. hand[w] \in Messages
    BY <1>2, Numbers DEF TypeInv, CreatedInv, Publishing
  <2> QED
    BY <1>2, <2>1, BehindBy, EmptySeq DEF TypeInv, TypeOK
<1>8. LET r == Append(q, hand[w])
      IN  /\ Len(r) = Len(q) + 1 /\ DOMAIN r = 1..Len(q) + 1 /\ r # <<>>
          /\ r[Len(q) + 1] = hand[w] /\ \A k \in 1..Len(q) : r[k] = q[k]
  <2> DEFINE r == Append(q, hand[w])
  <2> HIDE DEF q
  <2>1. r \in Seq(Messages) /\ Len(r) = Len(q) + 1 /\ r[Len(q) + 1] = hand[w]
        /\ \A k \in 1..Len(q) : r[k] = q[k]
    BY <1>7, AppendProperties
  <2> HIDE DEF r
  <2>2. DOMAIN r = 1..Len(q) + 1 /\ r # <<>>
    BY <1>7, <2>1, LenProperties, EmptySeq
  <2> QED
    BY <2>1, <2>2 DEF r
<1> HIDE DEF q
<1>9. ASSUME NEW u \in Workers
      PROVE  Pending(u)' = Pending(u) /\ Behind(u)' = Behind(u)
  <2>1. Pending(u)' = Pending(u)
    <3>1. CASE u = v
      <4>1. Pending(v) = Len(q) + 1
        BY <1>2, <1>6, PendingIs DEF q
      <4>2. Len(messages_queue'[v]) = Len(q) + 1
        BY <1>5, <1>8
      <4>3. Pending(v)' = (Len(q) + 1) + 0
        BY <1>6, <4>2
      <4> QED
        BY <1>7, <3>1, <4>1, <4>3
    <3>2. CASE u # v
      BY <1>5, <1>6, <3>2, PendingIs
    <3> QED
      BY <3>1, <3>2
  <2> QED
    BY <1>1, <2>1 DEF Behind
<1>10. ASSUME NEW u \in Workers, NEW k \in DOMAIN messages_queue'[u]
       PROVE  messages_queue'[u][k] = log'[Behind(u)' + k]
  <2>1. CASE u = v
    <3>1. k \in 1..Len(q) + 1 /\ messages_queue'[u] = Append(q, hand[w])
      BY <1>5, <1>8, <1>10, <2>1
    <3>2. CASE k = Len(q) + 1
      <4>1. Behind(v) = n - (Len(q) + 1)
        BY <1>2, <1>6, BehindBy DEF q
      <4>2. Behind(v) + k = n
        BY <1>7, <3>2, <4>1
      <4> QED
        BY <1>1, <1>2, <1>8, <1>9, <2>1, <3>1, <3>2, <4>2
    <3>3. CASE k # Len(q) + 1
      <4>1. k \in 1..Len(q)
        BY <1>7, <3>1, <3>3
      <4> QED
        BY <1>1, <1>7, <1>8, <1>9, <2>1, <3>1, <4>1 DEF BroadcastInv, q
    <3> QED
      BY <3>2, <3>3
  <2>2. CASE u # v
    BY <1>1, <1>5, <1>9, <1>10, <2>2 DEF BroadcastInv
  <2> QED
    BY <2>1, <2>2
<1>11. BroadcastInv'
  <2>1. v \in workers_with_subscribers
    BY <1>2 DEF BroadcastInv
  <2>2. ASSUME NEW p \in Workers
        PROVE  /\ targets'[p] \subseteq workers_with_subscribers'
               /\ targets'[p] # {} => pc'[p] = "enqueue"
               /\ pc'[p] = "enqueue" =>
                    channel_mutex' = p /\ log' # <<>> /\ hand'[p] = log'[Len(log')]
    BY <1>1, <1>2, <1>4 DEF BroadcastInv
  <2>3. ASSUME NEW u \in Workers
        PROVE  /\ subscriptions'[u] # {} => u \in workers_with_subscribers'
               /\ u \notin workers_with_subscribers' => messages_queue'[u] = <<>>
               /\ Behind(u)' \in Nat
    BY <1>1, <1>5, <1>9, <2>1 DEF BroadcastInv
  <2> QED
    BY <1>10, <2>2, <2>3 DEF BroadcastInv
<1>12. UNCHANGED Log!vars
  <2>1. [u \in Workers |-> Len(log') - Pending(u)'] = [u \in Workers |-> Len(log) - Pending(u)]
    BY <1>1, <1>9
  <2> QED
    BY <1>1, <2>1 DEF Log!vars
<1> QED
  BY <1>11, <1>12 DEF LogStep

LEMMA UnlockLog ==
  ASSUME TypeInv, BroadcastInv, NEW w \in Workers, Unlock(w)
  PROVE  BroadcastInv' /\ LogStep
<1>1. UNCHANGED <<log, messages_queue, targets, workers_with_subscribers, subscriptions, got>>
  BY DEF Unlock, chan, live, history
<1>2. pc[w] = "enqueue" /\ targets[w] = {}
  BY DEF Unlock
<1>3. \A p \in Workers : p # w => pc[p] # "enqueue"
  BY <1>2 DEF BroadcastInv
<1>4. \A p \in Workers : pc'[p] # "enqueue" /\ targets[p] = {}
  BY <1>2, <1>3 DEF Unlock, Goto, TypeInv, TypeOK, BroadcastInv
<1>5. \A v \in Workers : Behind(v)' = Behind(v)
  BY <1>1 DEF Behind, Pending
<1>6. BroadcastInv'
  <2>1. \A v \in Workers :
          /\ subscriptions'[v] # {} => v \in workers_with_subscribers'
          /\ v \notin workers_with_subscribers' => messages_queue'[v] = <<>>
          /\ Behind(v)' \in Nat
          /\ \A k \in DOMAIN messages_queue'[v] : messages_queue'[v][k] = log'[Behind(v)' + k]
    BY <1>1, <1>5 DEF BroadcastInv
  <2>2. \A p \in Workers : targets'[p] = {}
    BY <1>1, <1>4
  <2> QED
    BY <1>4, <2>1, <2>2 DEF BroadcastInv
<1> QED
  BY <1>1, <1>6, LogStutters DEF LogStep

LEMMA ProcessMessageLog ==
  ASSUME TypeInv, BroadcastInv, NEW w \in Workers, ProcessMessage(w)
  PROVE  BroadcastInv' /\ LogStep
<1> DEFINE n == Len(log)
           q == messages_queue[w]
           m == Head(q)
           polls == subscriptions[w] \cap LongPollers
<1>1. UNCHANGED <<log, targets, channel_mutex, workers_with_subscribers, pc, hand>>
  BY DEF ProcessMessage, chan, publish
<1>2. /\ q \in Seq(Messages) /\ q # <<>> /\ Len(q) \in Nat \ {0} /\ DOMAIN q = 1..Len(q)
      /\ Len(Tail(q)) = Len(q) - 1 /\ DOMAIN Tail(q) = 1..Len(q) - 1
      /\ \A k \in 1..Len(q) - 1 : Tail(q)[k] = q[k + 1]
      /\ m = q[1]
  <2>1. q \in Seq(Messages) /\ q # <<>>
    BY DEF ProcessMessage, TypeInv, TypeOK
  <2>2. Tail(q) \in Seq(Messages) /\ Len(Tail(q)) = Len(q) - 1
        /\ \A k \in 1..Len(Tail(q)) : Tail(q)[k] = q[k + 1]
    BY <2>1, HeadTailProperties
  <2>3. Len(q) \in Nat \ {0} /\ DOMAIN q = 1..Len(q) /\ DOMAIN Tail(q) = 1..Len(Tail(q))
    BY <2>1, <2>2, EmptySeq, LenProperties
  <2> HIDE DEF q
  <2> QED
    BY <2>1, <2>2, <2>3
<1>3. \A v \in Workers : messages_queue'[v] = IF v = w THEN Tail(q) ELSE messages_queue[v]
  BY DEF ProcessMessage, TypeInv, TypeOK
<1>4. w \in workers_with_subscribers
  BY <1>2 DEF BroadcastInv
<1>5. \A v \in Workers : Due(v)' = Due(v)
  BY <1>1 DEF Due
<1>6. \A v \in Workers : Pending(v)' = Len(messages_queue'[v]) + Due(v)
  <2>1. \A p, r \in Workers : targets'[p] # {} /\ targets'[r] # {} => p = r
    BY <1>1 DEF BroadcastInv
  <2> QED
    BY <1>5, <2>1, PendingIsNext
<1> HIDE DEF n, q
<1>7. ASSUME NEW v \in Workers
      PROVE  /\ Behind(v)' = IF v = w THEN Behind(v) + 1 ELSE Behind(v)
             /\ v = w => Behind(v) < n /\ Behind(v) + 1 \in 1..n
  <2>1. /\ n \in Nat /\ Due(v) \in {0, 1} /\ Behind(v) \in Nat
        /\ Behind(v) = n - (Len(messages_queue[v]) + Due(v))
        /\ Len(messages_queue[v]) \in Nat
    BY BehindBy DEF n
  <2>2. Behind(v)' = n - (Len(messages_queue'[v]) + Due(v))
    BY <1>1, <1>6 DEF Behind, n
  <2>3. Len(messages_queue'[v]) = IF v = w THEN Len(q) - 1 ELSE Len(messages_queue[v])
    BY <1>2, <1>3
  <2>4. v = w => Len(messages_queue[v]) = Len(q)
    BY DEF q
  <2> QED
    BY <1>2, <2>1, <2>2, <2>3, <2>4
<1>8. ASSUME NEW v \in Workers, NEW k \in DOMAIN messages_queue'[v]
      PROVE  messages_queue'[v][k] = log'[Behind(v)' + k]
  <2>1. CASE v = w
    <3>1. k \in 1..Len(q) - 1 /\ k + 1 \in 1..Len(q) /\ messages_queue'[v][k] = q[k + 1]
      <4>1. messages_queue'[v] = Tail(q)
        BY <1>3, <2>1
      <4>2. k \in 1..Len(q) - 1
        BY <1>2, <1>8, <4>1
      <4> QED
        BY <1>2, <4>1, <4>2
    <3>2. q[k + 1] = log[Behind(w) + (k + 1)]
      BY <1>2, <3>1 DEF BroadcastInv, q
    <3>3. Behind(w) + (k + 1) = (Behind(w) + 1) + k
      BY <3>1, BehindBy
    <3> QED
      BY <1>1, <1>7, <2>1, <3>1, <3>2, <3>3
  <2>2. CASE v # w
    BY <1>1, <1>3, <1>7, <1>8, <2>2 DEF BroadcastInv
  <2> QED
    BY <2>1, <2>2
<1>9. /\ subscriptions' = [subscriptions EXCEPT ![w] = subscriptions[w] \ polls]
      /\ got' = [c \in Clients |-> IF c \in subscriptions[w] THEN Append(got[c], m) ELSE got[c]]
  BY DEF ProcessMessage, q
<1>10. BroadcastInv'
  <2>1. ASSUME NEW v \in Workers
        PROVE  /\ subscriptions'[v] # {} => v \in workers_with_subscribers'
               /\ v \notin workers_with_subscribers' => messages_queue'[v] = <<>>
               /\ Behind(v)' \in Nat
    <3>1. subscriptions'[v] # {} => v \in workers_with_subscribers'
      <4>1. subscriptions'[v] \subseteq subscriptions[v]
        BY <1>9 DEF TypeInv, TypeOK
      <4> QED
        BY <1>1, <4>1 DEF BroadcastInv
    <3>2. v \notin workers_with_subscribers' => messages_queue'[v] = <<>>
      BY <1>1, <1>3, <1>4 DEF BroadcastInv
    <3>3. Behind(v)' \in Nat
      BY <1>7, BehindBy
    <3> QED
      BY <3>1, <3>2, <3>3
  <2> QED
    BY <1>1, <1>8, <2>1 DEF BroadcastInv
<1>11. Log!Deliver(w)
  <2> DEFINE place == [v \in Workers |-> Len(log) - Pending(v)]
  <2>1. place[w] = Behind(w) /\ place[w] < Len(log) /\ place[w] + 1 = Behind(w) + 1
    BY <1>7 DEF Behind, n
  <2>2. m = log[place[w] + 1]
    BY <1>2, <2>1 DEF BroadcastInv, q
  <2>3. [v \in Workers |-> Len(log') - Pending(v)'] = [place EXCEPT ![w] = place[w] + 1]
    <3>1. \A v \in Workers : Len(log') - Pending(v)' =
            IF v = w THEN (Len(log) - Pending(v)) + 1 ELSE Len(log) - Pending(v)
      BY <1>7 DEF Behind
    <3> QED
      BY <3>1
  <2> HIDE DEF place
  <2>4. got' = [c \in Clients |-> IF c \in subscriptions[w] THEN Append(got[c], log[place[w] + 1])
                                  ELSE got[c]]
    BY <1>9, <2>2
  <2>5. subscriptions' \in
          {[subscriptions EXCEPT ![w] = rest] : rest \in SUBSET subscriptions[w]}
    BY <1>9
  <2> QED
    BY <1>1, <1>4, <2>1, <2>3, <2>4, <2>5 DEF Log!Deliver, place
<1> QED
  BY <1>10, <1>11 DEF LogStep, Log!Next

LEMMA AssignLog ==
  ASSUME TypeInv, BroadcastInv, NEW w \in Workers, Assign(w)
  PROVE  BroadcastInv' /\ LogStep
<1> DEFINE c == client[w]
<1>1. /\ UNCHANGED <<log, messages_queue, targets, hand, got>>
      /\ workers_with_subscribers' = workers_with_subscribers \cup {w}
      /\ subscriptions' = [subscriptions EXCEPT ![w] = subscriptions[w] \cup {c}]
      /\ channel_mutex' = channel_mutex
  BY DEF Assign, chan, publish, history
<1>2. c \in Clients /\ c # None
  BY ConstantsAssumption
  DEF ConstantsAssumption, Assign, TypeInv, RequestsInv, Streamers, LongPollers
<1>3. \A p \in Workers : (pc'[p] = "enqueue" <=> pc[p] = "enqueue")
  BY DEF Assign, End, Goto, TypeInv, TypeOK
<1>4. \A v \in Workers : Pending(v)' = Pending(v) /\ Behind(v)' = Behind(v)
  BY <1>1 DEF Behind, Pending
<1>5. BroadcastInv'
  <2>1. ASSUME NEW p \in Workers
        PROVE  /\ targets'[p] \subseteq workers_with_subscribers'
               /\ targets'[p] # {} => pc'[p] = "enqueue"
               /\ pc'[p] = "enqueue" =>
                    channel_mutex' = p /\ log' # <<>> /\ hand'[p] = log'[Len(log')]
    BY <1>1, <1>3 DEF BroadcastInv
  <2>2. ASSUME NEW v \in Workers
        PROVE  /\ subscriptions'[v] # {} => v \in workers_with_subscribers'
               /\ v \notin workers_with_subscribers' => messages_queue'[v] = <<>>
               /\ Behind(v)' \in Nat
               /\ \A k \in DOMAIN messages_queue'[v] :
                    messages_queue'[v][k] = log'[Behind(v)' + k]
    BY <1>1, <1>4 DEF BroadcastInv, TypeInv, TypeOK
  <2> QED
    BY <2>1, <2>2 DEF BroadcastInv
<1>6. Log!Join(c, w)
  <2>1. ~Log!Subscribed(c)
    BY <1>2 DEF TypeInv, RequestsInv, Log!Subscribed
  <2>2. [v \in Workers |-> Len(log') - Pending(v)'] = [v \in Workers |-> Len(log) - Pending(v)]
    BY <1>1, <1>4
  <2> QED
    BY <1>1, <2>1, <2>2 DEF Log!Join
<1> QED
  BY <1>2, <1>5, <1>6 DEF LogStep, Log!Next

(* A subscriber leaves, or is sent away.                                   *)
LEMMA LeaveLog ==
  ASSUME TypeInv, BroadcastInv, NEW w \in Workers, NEW c \in Clients, c \in subscriptions[w],
         subscriptions' = [subscriptions EXCEPT ![w] = @ \ {c}],
         UNCHANGED <<log, messages_queue, targets, workers_with_subscribers, got, pc, hand,
                     channel_mutex>>
  PROVE  BroadcastInv' /\ LogStep
<1>1. BroadcastInv'
  <2>1. \A v \in Workers : subscriptions'[v] \subseteq subscriptions[v]
    BY DEF TypeInv, TypeOK
  <2> QED
    BY <2>1, QuietStep
<1>2. Log!Leave(c, w)
  <2>1. \A v \in Workers : Pending(v)' = Pending(v)
    BY DEF Pending
  <2>2. [v \in Workers |-> Len(log') - Pending(v)'] = [v \in Workers |-> Len(log) - Pending(v)]
    BY <2>1
  <2> QED
    BY <2>2 DEF Log!Leave
<1> QED
  BY <1>1, <1>2 DEF LogStep, Log!Next

LEMMA DisconnectLog ==
  ASSUME TypeInv, BroadcastInv, NEW w \in Workers, NEW c \in Clients, Disconnect(w, c)
  PROVE  BroadcastInv' /\ LogStep
<1>1. /\ c \in subscriptions[w]
      /\ subscriptions' = [subscriptions EXCEPT ![w] = @ \ {c}]
      /\ UNCHANGED <<log, messages_queue, targets, workers_with_subscribers, got, pc, hand,
                     channel_mutex>>
  BY DEF Disconnect, chan, publish, history
<1> QED
  BY <1>1, LeaveLog

LEMMA TimeoutLog ==
  ASSUME TypeInv, BroadcastInv, NEW w \in Workers, NEW c \in Clients, Timeout(w, c)
  PROVE  BroadcastInv' /\ LogStep
<1>1. /\ c \in subscriptions[w]
      /\ subscriptions' = [subscriptions EXCEPT ![w] = @ \ {c}]
      /\ UNCHANGED <<log, messages_queue, targets, workers_with_subscribers, got, pc, hand,
                     channel_mutex>>
  BY DEF Timeout, chan, publish
<1> QED
  BY <1>1, LeaveLog

(* Old messages are sent.                                                  *)
LEMMA ReplayLog ==
  ASSUME TypeInv, BroadcastInv, NEW w \in Workers, client[w] \in Clients,
         NEW sent \in Seq(1..Len(stamp)), Ascending(sent),
         got' = [got EXCEPT ![client[w]] = got[client[w]] \o sent],
         UNCHANGED <<log, messages_queue, targets, workers_with_subscribers, subscriptions, hand,
                     channel_mutex>>,
         \A p \in Workers : pc'[p] = "enqueue" <=> pc[p] = "enqueue"
  PROVE  BroadcastInv' /\ LogStep
<1>1. BroadcastInv'
  BY QuietStep
<1>2. Log!Replay(client[w])
  BY LogReplays
<1> QED
  BY <1>1, <1>2 DEF LogStep, Log!Next

LEMMA SendOldMessagesLog ==
  ASSUME TypeInv, BroadcastInv, NEW w \in Workers, SendOldMessages(w)
  PROVE  BroadcastInv' /\ LogStep
<1> DEFINE c == client[w]
           sent == UpTo(Newer(since[c]), greater[w])
<1>1. c \in Clients
  BY DEF TypeInv, RequestsInv, Polling, SendOldMessages, Pollers, LongPollers
<1>2. sent \in Seq(1..Len(stamp)) /\ Ascending(sent)
  BY <1>1, StampTypes, OldMessages
<1>3. got' = [got EXCEPT ![c] = got[c] \o sent]
  BY DEF SendOldMessages
<1>4. UNCHANGED <<log, messages_queue, targets, workers_with_subscribers, subscriptions, hand,
                  channel_mutex>>
  BY DEF SendOldMessages, chan, live, publish
<1>5. \A p \in Workers : pc'[p] = "enqueue" <=> pc[p] = "enqueue"
  BY DEF SendOldMessages, End, Goto, TypeInv, TypeOK
<1> HIDE DEF sent
<1> QED
  BY <1>1, <1>2, <1>3, <1>4, <1>5, ReplayLog

LEMMA SendAfterIdLog ==
  ASSUME TypeInv, BroadcastInv, NEW w \in Workers, SendAfterId(w)
  PROVE  BroadcastInv' /\ LogStep
<1> DEFINE c == client[w]
           sent == NewerThanId(Last(got[c]))
<1>1. c \in Clients
  BY DEF TypeInv, RequestsInv, Streaming, SendAfterId, Streamers
<1>2. sent \in Seq(1..Len(stamp)) /\ Ascending(sent)
  BY MessagesAfterId
<1>3. got' = [got EXCEPT ![c] = got[c] \o sent]
  BY DEF SendAfterId
<1>4. UNCHANGED <<log, messages_queue, targets, workers_with_subscribers, subscriptions, hand,
                  channel_mutex>>
  BY DEF SendAfterId, chan, live, publish
<1>5. \A p \in Workers : pc'[p] = "enqueue" <=> pc[p] = "enqueue"
  BY DEF SendAfterId, Goto, TypeInv, TypeOK
<1> HIDE DEF sent
<1> QED
  BY <1>1, <1>2, <1>3, <1>4, <1>5, ReplayLog

LEMMA SendBacktrackLog ==
  ASSUME TypeInv, BroadcastInv, NEW w \in Workers, SendBacktrack(w)
  PROVE  BroadcastInv' /\ LogStep
<1> DEFINE c == client[w]
           end == Lesser(start[w] + qtd[w], Len(message_queue))
           sent == IF start[w] < 0 THEN <<>> ELSE SubSeq(message_queue, start[w] + 1, end)
<1>1. c \in Clients
  BY DEF TypeInv, RequestsInv, Streaming, SendBacktrack, Streamers
<1>2. sent \in Seq(1..Len(stamp)) /\ Ascending(sent)
  BY BacktrackMessages
<1>3. got' = [got EXCEPT ![c] = got[c] \o sent]
  BY DEF SendBacktrack
<1>4. UNCHANGED <<log, messages_queue, targets, workers_with_subscribers, subscriptions, hand,
                  channel_mutex>>
  BY DEF SendBacktrack, chan, live, publish
<1>5. \A p \in Workers : pc'[p] = "enqueue" <=> pc[p] = "enqueue"
  BY DEF SendBacktrack, Goto, TypeInv, TypeOK
<1> HIDE DEF sent
<1> QED
  BY <1>1, <1>2, <1>3, <1>4, <1>5, ReplayLog

(* The other steps are none of the log's.                                  *)
LEMMA AddMessageLog ==
  ASSUME TypeInv, BroadcastInv, NEW w \in Workers, AddMessage(w)
  PROVE  BroadcastInv' /\ LogStep
<1>1. UNCHANGED <<log, messages_queue, targets, workers_with_subscribers, subscriptions, got>>
  BY DEF AddMessage, live, replay, history
<1>2. \A p \in Workers : pc[p] # "enqueue" /\ pc'[p] # "enqueue"
  <2>1. \A p \in Workers : pc[p] # "enqueue"
    BY ConstantsAssumption DEF ConstantsAssumption, AddMessage, BroadcastInv
  <2> QED
    BY <2>1 DEF AddMessage, Goto, TypeInv, TypeOK
<1> QED
  BY <1>1, <1>2, QuietStep, LogStutters DEF LogStep

LEMMA SetTimeLog ==
  ASSUME TypeInv, BroadcastInv, NEW w \in Workers, SetTime(w)
  PROVE  BroadcastInv' /\ LogStep
<1>1. UNCHANGED <<log, messages_queue, targets, workers_with_subscribers, subscriptions, got,
                  channel_mutex>>
  BY DEF SetTime, live, publish, replay, history
<1>2. \A p \in Workers :
        /\ pc'[p] = "enqueue" <=> pc[p] = "enqueue"
        /\ pc[p] = "enqueue" => hand'[p] = hand[p]
  BY DEF SetTime, Goto, live, publish, replay, history, TypeInv, TypeOK
<1> QED
  BY <1>1, <1>2, QuietStep, LogStutters DEF LogStep

LEMMA SetTagLog ==
  ASSUME TypeInv, BroadcastInv, NEW w \in Workers, SetTag(w)
  PROVE  BroadcastInv' /\ LogStep
<1>1. UNCHANGED <<log, messages_queue, targets, workers_with_subscribers, subscriptions, got,
                  channel_mutex>>
  BY DEF SetTag, live, publish, replay, history
<1>2. \A p \in Workers :
        /\ pc'[p] = "enqueue" <=> pc[p] = "enqueue"
        /\ pc[p] = "enqueue" => hand'[p] = hand[p]
  BY DEF SetTag, Goto, live, publish, replay, history, TypeInv, TypeOK
<1> QED
  BY <1>1, <1>2, QuietStep, LogStutters DEF LogStep

LEMMA StoreMessageLog ==
  ASSUME TypeInv, StoringInv, BroadcastInv, NEW w \in Workers, StoreMessage(w)
  PROVE  BroadcastInv' /\ LogStep
<1>1. UNCHANGED <<log, messages_queue, targets, workers_with_subscribers, subscriptions, got>>
  BY DEF StoreMessage, live, publish, replay, history
<1>2. \A p \in Workers : pc[p] # "enqueue" /\ pc'[p] # "enqueue"
  <2>1. pc[w] = "store" /\ channel_mutex = w
    BY DEF StoreMessage, StoringInv, Storing
  <2>2. \A p \in Workers : pc[p] # "enqueue"
    BY <2>1 DEF StoringInv
  <2> QED
    BY <2>2 DEF StoreMessage, Goto, TypeInv, TypeOK
<1> QED
  BY <1>1, <1>2, QuietStep, LogStutters DEF LogStep

LEMMA EnsureQtdOfMessagesLog ==
  ASSUME TypeInv, BroadcastInv, NEW w \in Workers, EnsureQtdOfMessages(w)
  PROVE  BroadcastInv' /\ LogStep
<1>1. UNCHANGED <<log, messages_queue, targets, workers_with_subscribers, subscriptions, got,
                  channel_mutex>>
  BY DEF EnsureQtdOfMessages, live, publish, replay, history
<1>2. \A p \in Workers :
        /\ pc'[p] = "enqueue" <=> pc[p] = "enqueue"
        /\ pc[p] = "enqueue" => hand'[p] = hand[p]
  BY DEF EnsureQtdOfMessages, Goto, live, publish, replay, history, TypeInv, TypeOK
<1> QED
  BY <1>1, <1>2, QuietStep, LogStutters DEF LogStep

LEMMA ExpireLog ==
  ASSUME TypeInv, BroadcastInv, Expire
  PROVE  BroadcastInv' /\ LogStep
<1>1. UNCHANGED <<log, messages_queue, targets, workers_with_subscribers, subscriptions, got,
                  channel_mutex>>
  BY DEF Expire, live, publish, replay, history
<1>2. \A p \in Workers :
        /\ pc'[p] = "enqueue" <=> pc[p] = "enqueue"
        /\ pc[p] = "enqueue" => hand'[p] = hand[p]
  BY DEF Expire, live, publish, replay, history, TypeInv, TypeOK
<1> QED
  BY <1>1, <1>2, QuietStep, LogStutters DEF LogStep

LEMMA TickLog ==
  ASSUME TypeInv, BroadcastInv, Tick
  PROVE  BroadcastInv' /\ LogStep
<1>1. UNCHANGED <<log, messages_queue, targets, workers_with_subscribers, subscriptions, got,
                  channel_mutex>>
  BY DEF Tick, live, publish, replay, history
<1>2. \A p \in Workers :
        /\ pc'[p] = "enqueue" <=> pc[p] = "enqueue"
        /\ pc[p] = "enqueue" => hand'[p] = hand[p]
  BY DEF Tick, live, publish, replay, history, TypeInv, TypeOK
<1> QED
  BY <1>1, <1>2, QuietStep, LogStutters DEF LogStep

LEMMA PollLog ==
  ASSUME TypeInv, BroadcastInv, NEW w \in Workers, NEW c \in Clients, Poll(w, c)
  PROVE  BroadcastInv' /\ LogStep
<1>1. UNCHANGED <<log, messages_queue, targets, workers_with_subscribers, subscriptions, got,
                  channel_mutex>>
  BY DEF Poll, chan, live, publish, history
<1>2. \A p \in Workers :
        /\ pc'[p] = "enqueue" <=> pc[p] = "enqueue"
        /\ pc[p] = "enqueue" => hand'[p] = hand[p]
  BY DEF Poll, Begin, Goto, chan, live, publish, history, TypeInv, TypeOK
<1> QED
  BY <1>1, <1>2, QuietStep, LogStutters DEF LogStep

LEMMA HasOldMessagesLog ==
  ASSUME TypeInv, BroadcastInv, NEW w \in Workers, HasOldMessages(w)
  PROVE  BroadcastInv' /\ LogStep
<1>1. UNCHANGED <<log, messages_queue, targets, workers_with_subscribers, subscriptions, got,
                  channel_mutex>>
  BY DEF HasOldMessages, chan, live, publish, history
<1>2. \A p \in Workers :
        /\ pc'[p] = "enqueue" <=> pc[p] = "enqueue"
        /\ pc[p] = "enqueue" => hand'[p] = hand[p]
  BY DEF HasOldMessages, End, Goto, chan, live, publish, history, TypeInv, TypeOK
<1> QED
  BY <1>1, <1>2, QuietStep, LogStutters DEF LogStep

LEMMA CompareStampLog ==
  ASSUME TypeInv, BroadcastInv, NEW w \in Workers, CompareStamp(w)
  PROVE  BroadcastInv' /\ LogStep
<1>1. UNCHANGED <<log, messages_queue, targets, workers_with_subscribers, subscriptions, got,
                  channel_mutex>>
  BY DEF CompareStamp, Compare, chan, live, publish, replay, history
<1>2. \A p \in Workers :
        /\ pc'[p] = "enqueue" <=> pc[p] = "enqueue"
        /\ pc[p] = "enqueue" => hand'[p] = hand[p]
  BY DEF CompareStamp, Goto, Compare, chan, live, publish, replay, history, TypeInv, TypeOK
<1> QED
  BY <1>1, <1>2, QuietStep, LogStutters DEF LogStep

LEMMA ReadTimeLog ==
  ASSUME TypeInv, BroadcastInv, NEW w \in Workers, ReadTime(w)
  PROVE  BroadcastInv' /\ LogStep
<1>1. UNCHANGED <<log, messages_queue, targets, workers_with_subscribers, subscriptions, got,
                  channel_mutex>>
  BY DEF ReadTime, chan, live, publish, history
<1>2. \A p \in Workers :
        /\ pc'[p] = "enqueue" <=> pc[p] = "enqueue"
        /\ pc[p] = "enqueue" => hand'[p] = hand[p]
  BY DEF ReadTime, Goto, chan, live, publish, history, TypeInv, TypeOK
<1> QED
  BY <1>1, <1>2, QuietStep, LogStutters DEF LogStep

LEMMA ReadTagLog ==
  ASSUME TypeInv, BroadcastInv, NEW w \in Workers, ReadTag(w)
  PROVE  BroadcastInv' /\ LogStep
<1>1. UNCHANGED <<log, messages_queue, targets, workers_with_subscribers, subscriptions, got,
                  channel_mutex>>
  BY DEF ReadTag, chan, live, publish, history
<1>2. \A p \in Workers :
        /\ pc'[p] = "enqueue" <=> pc[p] = "enqueue"
        /\ pc[p] = "enqueue" => hand'[p] = hand[p]
  BY DEF ReadTag, Goto, chan, live, publish, history, TypeInv, TypeOK
<1> QED
  BY <1>1, <1>2, QuietStep, LogStutters DEF LogStep

LEMMA ResumeLog ==
  ASSUME TypeInv, BroadcastInv, NEW w \in Workers, NEW c \in Clients, Resume(w, c)
  PROVE  BroadcastInv' /\ LogStep
<1>1. UNCHANGED <<log, messages_queue, targets, workers_with_subscribers, subscriptions, got,
                  channel_mutex>>
  BY DEF Resume, chan, live, publish, history
<1>2. \A p \in Workers :
        /\ pc'[p] = "enqueue" <=> pc[p] = "enqueue"
        /\ pc[p] = "enqueue" => hand'[p] = hand[p]
  BY DEF Resume, Begin, Goto, chan, live, publish, history, TypeInv, TypeOK
<1> QED
  BY <1>1, <1>2, QuietStep, LogStutters DEF LogStep

LEMMA AskBacktrackLog ==
  ASSUME TypeInv, BroadcastInv, NEW w \in Workers, NEW c \in Clients, NEW b, AskBacktrack(w, c, b)
  PROVE  BroadcastInv' /\ LogStep
<1>1. UNCHANGED <<log, messages_queue, targets, workers_with_subscribers, subscriptions, got,
                  channel_mutex>>
  BY DEF AskBacktrack, chan, live, publish, history
<1>2. \A p \in Workers :
        /\ pc'[p] = "enqueue" <=> pc[p] = "enqueue"
        /\ pc[p] = "enqueue" => hand'[p] = hand[p]
  BY DEF AskBacktrack, Begin, Goto, chan, live, publish, history, TypeInv, TypeOK
<1> QED
  BY <1>1, <1>2, QuietStep, LogStutters DEF LogStep

LEMMA ReadStartLog ==
  ASSUME TypeInv, BroadcastInv, NEW w \in Workers, ReadStart(w)
  PROVE  BroadcastInv' /\ LogStep
<1>1. UNCHANGED <<log, messages_queue, targets, workers_with_subscribers, subscriptions, got,
                  channel_mutex>>
  BY DEF ReadStart, chan, live, publish, history
<1>2. \A p \in Workers :
        /\ pc'[p] = "enqueue" <=> pc[p] = "enqueue"
        /\ pc[p] = "enqueue" => hand'[p] = hand[p]
  BY DEF ReadStart, Goto, chan, live, publish, history, TypeInv, TypeOK
<1> QED
  BY <1>1, <1>2, QuietStep, LogStutters DEF LogStep

----------------------------------------------------------------------------
(* The steps together.                                                     *)

LEMMA Initially ==
  ASSUME Init
  PROVE  TypeInv /\ StoringInv /\ BroadcastInv /\ Log!Init
<1>0. /\ \A c \in Clients : since[c] = Zero /\ got[c] = <<>>
      /\ \A w \in Workers :
           /\ messages_queue[w] = <<>> /\ subscriptions[w] = {} /\ pc[w] = "idle"
           /\ targets[w] = {} /\ client[w] = None
  BY DEF Init
<1>1. scenario \in Scenario
  BY ConstantsAssumption DEF ConstantsAssumption, Init
<1>2. MaxStored \in Nat \ {0} /\ scenario.messages \in Nat
  BY <1>1, ConstantsAssumption DEF ConstantsAssumption, Scenario, MaxStored
<1>3. TypeOK
  BY <1>2 DEF Init, TypeOK, Zero, Stamps, Labels
<1>4. RequestsInv
  BY <1>0 DEF RequestsInv, Polling, Streaming, Publishing, Storing
<1>5. CreatedInv /\ StoringInv
  BY <1>0, <1>2 DEF Init, CreatedInv, StoringInv, Publishing, Storing, Ascending
<1>6. \A w \in Workers : Pending(w) = 0
  <2> SUFFICES ASSUME NEW w \in Workers PROVE Pending(w) = 0
    OBVIOUS
  <2>1. {p \in Workers : w \in targets[p]} = {}
    BY <1>0
  <2>2. Len(messages_queue[w]) = 0
    BY <1>0
  <2>3. Cardinality({p \in Workers : w \in targets[p]}) = 0
    BY <2>1, FS_EmptySet
  <2> QED
    BY <2>2, <2>3 DEF Pending
<1>7. BroadcastInv
  <2>1. Len(log) = 0
    BY DEF Init
  <2>2. \A w \in Workers : Behind(w) = 0
    BY <1>6, <2>1 DEF Behind
  <2> QED
    BY <1>0, <2>2 DEF BroadcastInv
<1>8. Log!Init
  <2>1. [w \in Workers |-> Len(log) - Pending(w)] = [w \in Workers |-> 0]
    <3>1. Len(log) = 0
      BY DEF Init
    <3> QED
      BY <1>6, <3>1
  <2> QED
    BY <2>1 DEF Init, Log!Init
<1> QED
  BY <1>3, <1>4, <1>5, <1>7, <1>8 DEF TypeInv

LEMMA TypeStep ==
  ASSUME TypeInv, StoringInv, [Next]_vars
  PROVE  TypeInv'
<1>1. ASSUME NEW w \in Workers, Publisher(w) PROVE TypeInv'
  <2>1. CASE AddMessage(w)
    BY <2>1, AddMessageTypes
  <2>2. CASE SetTime(w)
    BY <2>2, SetTimeTypes
  <2>3. CASE SetTag(w)
    BY <2>3, SetTagTypes
  <2>4. CASE StoreMessage(w)
    BY <2>4, StoreMessageTypes
  <2>5. CASE EnsureQtdOfMessages(w)
    BY <2>5, EnsureQtdOfMessagesTypes
  <2>6. CASE Broadcast(w)
    BY <2>6, BroadcastTypes
  <2>7. ASSUME NEW v \in Workers, SendWorkerMessage(w, v) PROVE TypeInv'
    BY <2>7, SendWorkerMessageTypes
  <2>8. CASE Unlock(w)
    BY <2>8, UnlockTypes
  <2> QED
    BY <1>1, <2>1, <2>2, <2>3, <2>4, <2>5, <2>6, <2>7, <2>8 DEF Publisher
<1>2. ASSUME NEW w \in Workers, Request(w) PROVE TypeInv'
  <2>1. ASSUME NEW c \in Clients, Poll(w, c) PROVE TypeInv'
    BY <2>1, PollTypes
  <2>2. ASSUME NEW c \in Clients, Resume(w, c) PROVE TypeInv'
    BY <2>2, ResumeTypes
  <2>3. ASSUME NEW c \in Clients, NEW b \in 0..MaxStored, AskBacktrack(w, c, b) PROVE TypeInv'
    BY <2>3, AskBacktrackTypes
  <2>4. CASE HasOldMessages(w)
    BY <2>4, HasOldMessagesTypes
  <2>12. CASE CompareStamp(w)
    BY <2>12, CompareStampTypes
  <2>5. CASE ReadTime(w)
    BY <2>5, ReadTimeTypes
  <2>6. CASE ReadTag(w)
    BY <2>6, ReadTagTypes
  <2>7. CASE SendOldMessages(w)
    BY <2>7, SendOldMessagesTypes
  <2>8. CASE SendAfterId(w)
    BY <2>8, SendAfterIdTypes
  <2>9. CASE ReadStart(w)
    BY <2>9, ReadStartTypes
  <2>10. CASE SendBacktrack(w)
    BY <2>10, SendBacktrackTypes
  <2>11. CASE Assign(w)
    BY <2>11, AssignTypes
  <2> QED
    BY <1>2, <2>1, <2>2, <2>3, <2>4, <2>5, <2>6, <2>7, <2>8, <2>9, <2>10, <2>11,
       <2>12 DEF Request
<1>3. ASSUME NEW w \in Workers, Subscription(w) PROVE TypeInv'
  <2>1. CASE ProcessMessage(w)
    BY <2>1, ProcessMessageTypes
  <2>2. ASSUME NEW c \in Clients, Disconnect(w, c) PROVE TypeInv'
    BY <2>2, DisconnectTypes
  <2>3. ASSUME NEW c \in Clients, Timeout(w, c) PROVE TypeInv'
    BY <2>3, TimeoutTypes
  <2> QED
    BY <1>3, <2>1, <2>2, <2>3 DEF Subscription
<1>4. CASE Expire
  BY <1>4, ExpireTypes
<1>5. CASE Tick
  BY <1>5, TickTypes
<1>6. CASE UNCHANGED vars
  <2>1. TypeOK'
    BY <1>6 DEF vars, chan, live, publish, replay, history, TypeInv, TypeOK, MaxStored
  <2>2. RequestsInv'
    BY <1>6 DEF vars, chan, live, publish, replay, history, TypeInv, RequestsInv, Pollers,
                LongPollers, Streamers
  <2>3. CreatedInv'
    BY <1>6 DEF vars, chan, live, publish, replay, history, TypeInv, CreatedInv
  <2> QED
    BY <2>1, <2>2, <2>3 DEF TypeInv
<1> QED
  BY <1>1, <1>2, <1>3, <1>4, <1>5, <1>6 DEF Next

LEMMA LogStepOf ==
  ASSUME TypeInv, StoringInv, BroadcastInv, [Next]_vars
  PROVE  BroadcastInv' /\ LogStep
<1>1. ASSUME NEW w \in Workers, Publisher(w) PROVE BroadcastInv' /\ LogStep
  <2>1. CASE AddMessage(w)
    BY <2>1, AddMessageLog
  <2>2. CASE SetTime(w)
    BY <2>2, SetTimeLog
  <2>3. CASE SetTag(w)
    BY <2>3, SetTagLog
  <2>4. CASE StoreMessage(w)
    BY <2>4, StoreMessageLog
  <2>5. CASE EnsureQtdOfMessages(w)
    BY <2>5, EnsureQtdOfMessagesLog
  <2>6. CASE Broadcast(w)
    BY <2>6, BroadcastLog
  <2>7. ASSUME NEW v \in Workers, SendWorkerMessage(w, v) PROVE BroadcastInv' /\ LogStep
    BY <2>7, SendWorkerMessageLog
  <2>8. CASE Unlock(w)
    BY <2>8, UnlockLog
  <2> QED
    BY <1>1, <2>1, <2>2, <2>3, <2>4, <2>5, <2>6, <2>7, <2>8 DEF Publisher
<1>2. ASSUME NEW w \in Workers, Request(w) PROVE BroadcastInv' /\ LogStep
  <2>1. ASSUME NEW c \in Clients, Poll(w, c) PROVE BroadcastInv' /\ LogStep
    BY <2>1, PollLog
  <2>2. ASSUME NEW c \in Clients, Resume(w, c) PROVE BroadcastInv' /\ LogStep
    BY <2>2, ResumeLog
  <2>3. ASSUME NEW c \in Clients, NEW b \in 0..MaxStored, AskBacktrack(w, c, b) PROVE BroadcastInv' /\ LogStep
    BY <2>3, AskBacktrackLog
  <2>4. CASE HasOldMessages(w)
    BY <2>4, HasOldMessagesLog
  <2>12. CASE CompareStamp(w)
    BY <2>12, CompareStampLog
  <2>5. CASE ReadTime(w)
    BY <2>5, ReadTimeLog
  <2>6. CASE ReadTag(w)
    BY <2>6, ReadTagLog
  <2>7. CASE SendOldMessages(w)
    BY <2>7, SendOldMessagesLog
  <2>8. CASE SendAfterId(w)
    BY <2>8, SendAfterIdLog
  <2>9. CASE ReadStart(w)
    BY <2>9, ReadStartLog
  <2>10. CASE SendBacktrack(w)
    BY <2>10, SendBacktrackLog
  <2>11. CASE Assign(w)
    BY <2>11, AssignLog
  <2> QED
    BY <1>2, <2>1, <2>2, <2>3, <2>4, <2>5, <2>6, <2>7, <2>8, <2>9, <2>10, <2>11,
       <2>12 DEF Request
<1>3. ASSUME NEW w \in Workers, Subscription(w) PROVE BroadcastInv' /\ LogStep
  <2>1. CASE ProcessMessage(w)
    BY <2>1, ProcessMessageLog
  <2>2. ASSUME NEW c \in Clients, Disconnect(w, c) PROVE BroadcastInv' /\ LogStep
    BY <2>2, DisconnectLog
  <2>3. ASSUME NEW c \in Clients, Timeout(w, c) PROVE BroadcastInv' /\ LogStep
    BY <2>3, TimeoutLog
  <2> QED
    BY <1>3, <2>1, <2>2, <2>3 DEF Subscription
<1>4. CASE Expire
  BY <1>4, ExpireLog
<1>5. CASE Tick
  BY <1>5, TickLog
<1>6. CASE UNCHANGED vars
  <2>1. UNCHANGED <<log, messages_queue, targets, workers_with_subscribers, subscriptions, got,
                    channel_mutex, pc, hand>>
    BY <1>6 DEF vars, chan, live, publish, replay, history
  <2> QED
    BY <2>1, QuietStep, LogStutters DEF LogStep
<1> QED
  BY <1>1, <1>2, <1>3, <1>4, <1>5, <1>6 DEF Next

LEMMA Invariance == Spec => [](TypeInv /\ StoringInv /\ BroadcastInv)
<1>1. Init => TypeInv /\ StoringInv /\ BroadcastInv
  BY Initially
<1>2. /\ TypeInv /\ StoringInv /\ BroadcastInv
      /\ [Next]_vars
      => (TypeInv /\ StoringInv /\ BroadcastInv)'
  BY TypeStep, StoringStep, LogStepOf
<1> QED
  BY <1>1, <1>2, PTL DEF Spec

(* No handler, in whatever order workers take their steps, has a message,  *)
(* client or number that it should not have.                               *)
THEOREM TypeCorrect == Spec => []TypeOK
<1>1. TypeInv => TypeOK
  BY DEF TypeInv
<1> QED
  BY <1>1, Invariance, PTL

(* Publishing in a channel is the log: one order of the messages for all   *)
(* workers, and no subscriber in the channel misses one or gets one out of *)
(* that order, for any workers, clients and scenarios.                     *)
THEOREM Refinement == Spec => ImplementsLog
<1>1. Init => Log!Init
  BY Initially
<1>2. TypeInv /\ StoringInv /\ BroadcastInv /\ [Next]_vars => [Log!Next]_(Log!vars)
  BY LogStepOf DEF LogStep
<1> QED
  BY <1>1, <1>2, Invariance, PTL DEF Spec, ImplementsLog, Log!Spec

----------------------------------------------------------------------------
(* Polling, with clocks that agree.                                        *)

LEMMA AfterOrder ==
  ASSUME NEW x \in Stamps, NEW y \in Stamps, NEW z \in Stamps
  PROVE  /\ ~After(x, x)
         /\ After(x, y) /\ After(y, z) => After(x, z)
         /\ ~After(x, y) /\ ~After(y, z) => ~After(x, z)
         /\ After(x, y) /\ ~After(z, y) => After(x, z)
         /\ After(x, y) => ~After(y, x)
<1>1. \A s \in Stamps : s.time \in Nat /\ s.tag \in Nat
  BY DEF Stamps
<1> QED
  BY <1>1 DEF After

(* The stamp of the last message is the latest.                            *)
LEMMA LastIsLatest ==
  ASSUME TypeInv, StampsInv
  PROVE  \A i \in 1..Len(stamp) : ~After(stamp[i], last) /\ last.time <= now
<1> SUFFICES ASSUME NEW i \in 1..Len(stamp) PROVE ~After(stamp[i], last) /\ last.time <= now
  OBVIOUS
<1>1. last = stamp[Len(stamp)] /\ Len(stamp) \in 1..Len(stamp)
  <2>1. stamp # <<>> /\ Len(stamp) \in 1..Len(stamp)
    BY Numbers
  <2> QED
    BY <2>1 DEF last, Last
<1>2. i = Len(stamp) \/ i < Len(stamp)
  <2>1. Len(stamp) \in Nat
    BY Numbers
  <2> QED
    BY <2>1
<1>3. stamp[i] \in Stamps /\ last \in Stamps
  BY Numbers, StampTypes
<1>4. ~After(stamp[i], last)
  <2>1. CASE i = Len(stamp)
    BY <1>1, <1>3, <2>1, AfterOrder
  <2>2. CASE i < Len(stamp)
    <3>1. After(last, stamp[i])
      BY <1>1, <2>2, Numbers DEF StampsInv
    <3> QED
      BY <1>3, <3>1, AfterOrder
  <2> QED
    BY <1>2, <2>1, <2>2
<1>5. last.time <= now
  BY <1>1, Numbers DEF StampsInv
<1> QED
  BY <1>4, <1>5

LEMMA TimesOrder ==
  ASSUME NEW x \in Stamps, NEW y \in Stamps
  PROVE  /\ x.time \in Nat /\ x.tag \in Nat /\ y.time \in Nat /\ y.tag \in Nat
         /\ After(x, y) => y.time <= x.time
         /\ ~After(x, y) => x.time <= y.time
         /\ ~After(Zero, x)
BY DEF After, Stamps, Zero

(* The noted stamp is that of the last message or an earlier one.          *)
StampsTyped ==
  /\ last \in Stamps /\ Noted \in Stamps /\ last_message \in Stamps /\ now \in Nat
  /\ Len(stamp) \in Nat /\ DOMAIN stamp = 1..Len(stamp)
  /\ \A k \in DOMAIN stamp : stamp[k] \in Stamps
  /\ \A w \in Workers : greater[w] \in Stamps
  /\ \A c \in Clients : since[c] \in Stamps
  /\ Noted = Zero \/ \E k \in DOMAIN stamp : Noted = stamp[k]
  /\ ~After(Noted, last)
  /\ Noted.time <= last.time
  /\ ~Unfinished => Noted = last

LEMMA InBetween ==
  ASSUME NEW i \in Nat, NEW j \in Nat, NEW k \in Nat, j <= k
  PROVE  (i < j => i < k) /\ (i <= j => i <= k)
OBVIOUS

LEMMA NotedIs == TypeInv /\ StampsInv => StampsTyped
<1> SUFFICES ASSUME TypeInv, StampsInv PROVE StampsTyped
  OBVIOUS
<1> DEFINE n == IF Unfinished THEN Len(stamp) - 1 ELSE Len(stamp)
<1>1. /\ Noted = IF n > 0 THEN stamp[n] ELSE Zero
      /\ n \in Int /\ n <= Len(stamp) /\ (~Unfinished => n = Len(stamp))
      /\ Len(stamp) \in Nat
  <2>1. Len(stamp) \in Nat
    BY Numbers
  <2>2. n = Len(stamp) - 1 \/ n = Len(stamp)
    OBVIOUS
  <2>3. Noted = IF n > 0 THEN stamp[n] ELSE Zero
    BY DEF Noted
  <2>4. ~Unfinished => n = Len(stamp)
    OBVIOUS
  <2> HIDE DEF n
  <2> QED
    BY <2>1, <2>2, <2>3, <2>4
<1>2. /\ last \in Stamps /\ Zero \in Stamps
      /\ last = IF stamp = <<>> THEN Zero ELSE stamp[Len(stamp)]
      /\ stamp = <<>> <=> Len(stamp) = 0
  <2>1. stamp = <<>> <=> Len(stamp) = 0
    BY EmptySeq DEF TypeInv, TypeOK
  <2>2. last \in Stamps /\ Zero \in Stamps
    BY StampTypes
  <2>3. last = IF stamp = <<>> THEN Zero ELSE stamp[Len(stamp)]
    BY DEF last, Last
  <2> QED
    BY <2>1, <2>2, <2>3
<1> HIDE DEF n
<1>3. /\ last_message \in Stamps /\ now \in Nat
      /\ Len(stamp) \in Nat /\ DOMAIN stamp = 1..Len(stamp)
      /\ \A k \in DOMAIN stamp : stamp[k] \in Stamps
      /\ \A w \in Workers : greater[w] \in Stamps
      /\ \A c \in Clients : since[c] \in Stamps
  BY StampTypes, Numbers
<1>4. /\ Noted \in Stamps
      /\ Noted = Zero \/ \E k \in DOMAIN stamp : Noted = stamp[k]
      /\ ~After(Noted, last)
      /\ ~Unfinished => Noted = last
  <2>1. CASE n > 0
    <3>1. n \in 1..Len(stamp) /\ Noted = stamp[n]
      BY <1>1, <2>1
    <3>2. ~After(stamp[n], last) /\ stamp[n] \in Stamps
      BY <3>1, LastIsLatest, Numbers
    <3>3. ~Unfinished => Noted = last
      BY <1>1, <1>2, <2>1, <3>1
    <3> QED
      BY <1>3, <3>1, <3>2, <3>3
  <2>2. CASE ~(n > 0)
    <3>1. Noted = Zero
      BY <1>1, <2>2
    <3>2. ~Unfinished => last = Zero
      BY <1>1, <1>2, <2>2
    <3>3. ~After(Zero, last)
      BY <1>2, TimesOrder
    <3> QED
      BY <1>2, <3>1, <3>2, <3>3
  <2> QED
    BY <2>1, <2>2
<1>5. Noted.time <= last.time
  BY <1>2, <1>4, TimesOrder
<1> QED
  BY <1>2, <1>3, <1>4, <1>5 DEF StampsTyped

LEMMA NotedIsNext == (TypeInv /\ StampsInv)' => StampsTyped'
BY NotedIs, PTL

(* Messages are created, and their stamps noted, in the order of time.     *)
Grows ==
  /\ \A i \in DOMAIN stamp : i \in DOMAIN stamp' /\ stamp'[i] = stamp[i]
  /\ last' = last \/ After(last', last)
  /\ Noted' = Noted \/ After(Noted', Noted)
  /\ last_message.time <= last_message'.time

(* What torn stamps cost remains so.                                       *)
LEMMA TornStays ==
  ASSUME Grows
  PROVE  /\ \A m \in DOMAIN stamp : TornBefore(m) => TornBefore(m)'
         /\ \A m \in DOMAIN stamp : TornAfter(m) => TornAfter(m)'
         /\ \A s : Overtaken(s) => Overtaken(s)'
<1>1. \A i \in DOMAIN stamp : i \in DOMAIN stamp' /\ stamp'[i] = stamp[i]
  BY DEF Grows
<1>2. \A m \in DOMAIN stamp : TornBefore(m) => TornBefore(m)'
  BY <1>1 DEF TornBefore
<1>3. \A m \in DOMAIN stamp : TornAfter(m) => TornAfter(m)'
  BY <1>1 DEF TornAfter
<1>4. ASSUME NEW s, Overtaken(s) PROVE \E n \in DOMAIN stamp' : stamp'[n].time > s.time /\ stamp'[n].tag <= s.tag
  BY <1>1, <1>4 DEF Overtaken
<1> QED
  BY <1>2, <1>3, <1>4 DEF Overtaken

LEMMA CoveredStays ==
  ASSUME StampsTyped, StampsTyped', Grows, NEW s \in Stamps, Covered(s)
  PROVE  \/ ~After(s, last')
         \/ /\ s.time = last'.time
            /\ \E n \in DOMAIN stamp' : stamp'[n].time < s.time /\ stamp'[n].tag >= s.tag
<1>1. last \in Stamps /\ last' \in Stamps
  BY DEF StampsTyped
<1>2. last' = last \/ After(last', last)
  BY DEF Grows
<1>3. CASE ~After(s, last)
  BY <1>1, <1>2, <1>3, AfterOrder
<1>4. CASE s.time = last.time /\ \E n \in DOMAIN stamp : stamp[n].time < s.time /\ stamp[n].tag >= s.tag
  <2>1. \E n \in DOMAIN stamp' : stamp'[n].time < s.time /\ stamp'[n].tag >= s.tag
    BY <1>4 DEF Grows
  <2>2. s.time \in Nat /\ last.time <= last'.time /\ last'.time \in Nat
    BY <1>1, <1>2, TimesOrder
  <2>3. s.time < last'.time => ~After(s, last')
    BY <2>2 DEF After
  <2> QED
    BY <1>4, <2>1, <2>2, <2>3
<1> QED
  BY <1>3, <1>4 DEF Covered

(* So the handlers that serve polls go on, and so do the clients.          *)
LEMMA AnswerGrows ==
  ASSUME StampsTyped, StampsTyped', Grows, NEW v \in Workers, client[v] \in Pollers, AnswerInv(v),
         client'[v] = client[v], pc'[v] = pc[v], greater'[v] = greater[v],
         since'[client[v]] = since[client[v]]
  PROVE  AnswerInv(v)'
<1>1. PICK s, g : s = since[client[v]] /\ g = greater[v]
  OBVIOUS
<1>2. /\ s \in Stamps /\ g \in Stamps /\ last_message \in Stamps /\ last_message' \in Stamps
      /\ Noted \in Stamps /\ Noted' \in Stamps
  BY <1>1 DEF StampsTyped, Pollers
<1>3. s.time \in Nat /\ g.time \in Nat /\ last_message.time \in Nat /\ last_message'.time \in Nat
  BY <1>2, TimesOrder
<1>4. last_message.time <= last_message'.time /\ (Noted' = Noted \/ After(Noted', Noted))
  BY DEF Grows
<1>5. pc[v] \in {"check", "time", "same time", "tag", "new time"} => g = s
  BY <1>1 DEF AnswerInv
<1>6. pc[v] = "new time" => s.time < last_message'.time
  <2>1. pc[v] = "new time" => s.time < last_message.time
    BY <1>1 DEF AnswerInv
  <2> QED
    BY <1>3, <1>4, <2>1, InBetween
<1>7. pc[v] = "new tag" => \/ g = s /\ After(Noted', s)
                           \/ s.time < g.time /\ g.time <= last_message'.time
  <2> SUFFICES ASSUME pc[v] = "new tag"
               PROVE  \/ g = s /\ After(Noted', s)
                      \/ s.time < g.time /\ g.time <= last_message'.time
    OBVIOUS
  <2>1. \/ g = s /\ After(Noted, s)
        \/ s.time < g.time /\ g.time <= last_message.time
    BY <1>1 DEF AnswerInv
  <2>2. CASE g = s /\ After(Noted, s)
    BY <1>2, <1>4, <2>2, AfterOrder
  <2>3. CASE s.time < g.time /\ g.time <= last_message.time
    BY <1>3, <1>4, <2>3, InBetween
  <2> QED
    BY <2>1, <2>2, <2>3
<1>8. ASSUME pc[v] = "send"
      PROVE  Covered(g)' /\ g.time <= last_message'.time /\ (After(s, g) => g.time = s.time /\ Overtaken(g)')
  <2>1. Covered(g) /\ g.time <= last_message.time /\ (After(s, g) => g.time = s.time /\ Overtaken(g))
    BY <1>1, <1>8 DEF AnswerInv
  <2>2. Covered(g)'
    BY <1>2, <2>1, CoveredStays DEF Covered
  <2>3. Overtaken(g) => Overtaken(g)'
    BY TornStays
  <2> QED
    BY <1>3, <1>4, <2>1, <2>2, <2>3
<1> QED
  BY <1>1, <1>5, <1>6, <1>7, <1>8 DEF AnswerInv

LEMMA PollerGrows ==
  ASSUME StampsTyped, StampsTyped', Grows, NEW c \in Pollers, SinceInv(c), GotInv(c),
         since'[c] = since[c], got'[c] = got[c]
  PROVE  SinceInv(c)' /\ GotInv(c)'
<1>1. /\ since[c] \in Stamps /\ Noted \in Stamps /\ Noted' \in Stamps
      /\ DOMAIN stamp = 1..Len(stamp) /\ Len(stamp) \in Nat
      /\ DOMAIN stamp' = 1..Len(stamp') /\ Len(stamp') \in Nat
  BY DEF StampsTyped, Pollers
<1>2. SinceInv(c)'
  <2>1. Covered(since[c])'
    <3>1. PICK s \in Stamps : s = since[c]
      BY <1>1
    <3>2. Covered(s)'
      BY <3>1, CoveredStays DEF SinceInv, Covered
    <3> QED
      BY <3>1, <3>2 DEF Covered
  <2>2. since[c].time <= Noted.time /\ Noted.time <= Noted'.time
    BY <1>1, TimesOrder DEF SinceInv, Grows
  <2>3. since[c].time \in Nat /\ Noted.time \in Nat /\ Noted'.time \in Nat
    BY <1>1, TimesOrder
  <2> QED
    BY <2>1, <2>2, <2>3 DEF SinceInv
<1>3. GotInv(c)'
  <2>1. 1..Len(stamp) \subseteq 1..Len(stamp')
    BY <1>1 DEF Grows
  <2>2. got[c] \in Seq(1..Len(stamp)) /\ got[c] \in Seq(1..Len(stamp'))
    BY <2>1, SeqMonotonic DEF GotInv
  <2>3. \A m \in ToSet(got[c]) : m \in DOMAIN stamp
    BY <1>1, <2>2, ElementOfSeq, LenProperties DEF ToSet
  <2>4. \A m \in ToSet(got[c]) : \A n \in 1..m : n \in DOMAIN stamp
    BY <1>1, <2>3
  <2>5. ASSUME NEW m \in ToSet(got[c]), NEW n \in 1..m, After(stamp'[n], since[c])
        PROVE  TornAfter(n)'
    <3>1. n \in DOMAIN stamp /\ stamp'[n] = stamp[n]
      BY <2>4 DEF Grows
    <3> QED
      BY <2>5, <3>1, TornStays DEF GotInv
  <2>6. ASSUME NEW i \in DOMAIN got[c], NEW j \in DOMAIN got[c], i < j
        PROVE  got[c][i] < got[c][j] \/ TornAfter(got[c][j])'
    <3>1. got[c][j] \in DOMAIN stamp
      BY <2>3 DEF ToSet
    <3>2. PICK k : k = got[c][j]
      OBVIOUS
    <3>3. TornAfter(k) => TornAfter(k)'
      BY <3>1, <3>2, TornStays
    <3>4. TornAfter(k)' = TornAfter(got[c][j])'
      BY <3>2
    <3> QED
      BY <2>6, <3>2, <3>3 DEF GotInv, TornAfter
  <2>7. \A i, j \in DOMAIN got'[c] : i < j => got'[c][i] < got'[c][j] \/ TornAfter(got[c][j])'
    BY <2>6
  <2> QED
    BY <2>2, <2>5, <2>7 DEF GotInv, TornAfter
<1> QED
  BY <1>2, <1>3

(* Who is storing a message, and how far, is the same.                     *)
SameStoring ==
  \A v \in Workers : pc'[v] = pc[v] \/ (pc[v] \notin Storing /\ pc'[v] \notin Storing)

(* Steps of which the channel keeps no trace but in what is stored, and of *)
(* polls at most the handlers that are on the way to an answer.            *)
LEMMA PollKept ==
  ASSUME TypeInv, TypeInv', PollInv, UNCHANGED <<scenario, stamp, last_message>>, now <= now',
         SameStoring,
         \A m \in ToSet(message_queue') : m \in ToSet(message_queue),
         \A c \in Pollers : since'[c] = since[c] /\ got'[c] = got[c],
         \A v \in Workers : client'[v] \in Pollers =>
           \/ client'[v] = client[v] /\ pc'[v] = pc[v] /\ greater'[v] = greater[v]
           \/ AnswerInv(v)'
  PROVE  PollInv'
<1>1. Pollers' = Pollers /\ last' = last
  BY DEF Pollers, last
<1>2. /\ (\E w \in Workers : pc'[w] = "set time") <=> (\E w \in Workers : pc[w] = "set time")
      /\ Unfinished' <=> Unfinished
      /\ (\E w \in Workers : pc'[w] \in Storing) <=> (\E w \in Workers : pc[w] \in Storing)
  BY DEF SameStoring, Unfinished, Storing
<1>3. Noted' = Noted
  BY <1>2 DEF Noted
<1>4. NotedInv'
  BY <1>1, <1>2, <1>3 DEF PollInv, NotedInv
<1>5. StampsInv /\ StampsInv'
  <2>1. now \in Nat /\ now' \in Nat /\ \A i \in DOMAIN stamp : stamp[i].time \in Nat
    BY Numbers, StampTypes DEF TypeInv, TypeOK
  <2>2. now > 0 /\ \A i \in DOMAIN stamp : stamp[i].time <= now
    BY DEF PollInv, StampsInv
  <2>3. now' > 0 /\ \A i \in DOMAIN stamp : stamp[i].time <= now'
    BY <2>1, <2>2
  <2> QED
    BY <2>3 DEF PollInv, StampsInv
<1>9. StampsTyped /\ StampsTyped'
  BY <1>5, NotedIs, NotedIsNext
<1>6. Grows
  <2>1. last_message.time <= last_message'.time
    BY StampTypes
  <2> QED
    BY <1>1, <1>3, <2>1 DEF Grows
<1>7. ASSUME NEW v \in Workers, client'[v] \in Pollers PROVE AnswerInv(v)'
  <2>1. CASE client'[v] = client[v] /\ pc'[v] = pc[v] /\ greater'[v] = greater[v]
    BY <1>1, <1>6, <1>7, <1>9, <2>1, AnswerGrows DEF PollInv
  <2> QED
    BY <1>7, <2>1
<1>8. ASSUME NEW c \in Pollers PROVE SinceInv(c)' /\ GotInv(c)' /\ MissedInv(c)'
  <2>1. SinceInv(c) /\ GotInv(c) /\ MissedInv(c) /\ since'[c] = since[c] /\ got'[c] = got[c]
    BY DEF PollInv
  <2>2. \A m : TornBefore(m) => TornBefore(m)'
    BY DEF TornBefore
  <2>3. MissedInv(c)'
    BY <1>1, <1>2, <2>1, <2>2 DEF MissedInv
  <2> QED
    BY <1>6, <1>9, <2>1, <2>3, PollerGrows
<1> QED
  BY <1>1, <1>4, <1>5, <1>7, <1>8 DEF PollInv

LEMMA AppendedSet ==
  ASSUME NEW T, NEW s \in Seq(T), NEW x
  PROVE  ToSet(Append(s, x)) = ToSet(s) \cup {x}
<1>1. DOMAIN s = 1..Len(s) /\ Len(s) \in Nat
  BY LenProperties
<1>2. /\ DOMAIN Append(s, x) = 1..Len(s) + 1
      /\ Append(s, x)[Len(s) + 1] = x /\ \A i \in 1..Len(s) : Append(s, x)[i] = s[i]
  OBVIOUS
<1>3. Len(s) + 1 \in 1..Len(s) + 1 /\ \A i : i \in 1..Len(s) + 1 <=> i \in 1..Len(s) \/ i = Len(s) + 1
  BY <1>1
<1>4. \A i \in DOMAIN Append(s, x) : Append(s, x)[i] \in ToSet(s) \cup {x}
  BY <1>1, <1>2, <1>3 DEF ToSet
<1>5. \A i \in DOMAIN s : s[i] \in ToSet(Append(s, x))
  BY <1>1, <1>2, <1>3 DEF ToSet
<1>6. x \in ToSet(Append(s, x))
  BY <1>2, <1>3 DEF ToSet
<1> QED
  BY <1>4, <1>5, <1>6 DEF ToSet

LEMMA JoinedSet ==
  ASSUME NEW T, NEW s \in Seq(T), NEW t \in Seq(T)
  PROVE  s \o t \in Seq(T) /\ ToSet(s \o t) = ToSet(s) \cup ToSet(t)
<1> DEFINE u == s \o t
<1>1. /\ u \in Seq(T) /\ Len(u) = Len(s) + Len(t)
      /\ \A i \in 1..Len(s) + Len(t) : u[i] = IF i <= Len(s) THEN s[i] ELSE t[i - Len(s)]
  BY ConcatProperties
<1>2. DOMAIN s = 1..Len(s) /\ DOMAIN t = 1..Len(t) /\ Len(s) \in Nat /\ Len(t) \in Nat
  BY LenProperties
<1> HIDE DEF u
<1>3. DOMAIN u = 1..Len(s) + Len(t)
  BY <1>1, LenProperties
<1>4. \A i \in DOMAIN u : u[i] \in ToSet(s) \cup ToSet(t)
  <2> SUFFICES ASSUME NEW i \in DOMAIN u PROVE u[i] \in ToSet(s) \cup ToSet(t)
    OBVIOUS
  <2>1. CASE i <= Len(s)
    <3>1. i \in DOMAIN s /\ u[i] = s[i]
      BY <1>1, <1>2, <1>3, <2>1
    <3> QED
      BY <3>1 DEF ToSet
  <2>2. CASE ~(i <= Len(s))
    <3>1. i - Len(s) \in DOMAIN t /\ u[i] = t[i - Len(s)]
      BY <1>1, <1>2, <1>3, <2>2
    <3> QED
      BY <3>1 DEF ToSet
  <2> QED
    BY <2>1, <2>2
<1>5. \A i \in DOMAIN s : s[i] \in ToSet(u)
  <2> SUFFICES ASSUME NEW i \in DOMAIN s PROVE s[i] \in ToSet(u)
    OBVIOUS
  <2>1. i \in DOMAIN u /\ u[i] = s[i]
    BY <1>1, <1>2, <1>3
  <2> QED
    BY <2>1 DEF ToSet
<1>6. \A i \in DOMAIN t : t[i] \in ToSet(u)
  <2> SUFFICES ASSUME NEW i \in DOMAIN t PROVE t[i] \in ToSet(u)
    OBVIOUS
  <2>1. i + Len(s) \in DOMAIN u /\ ~(i + Len(s) <= Len(s)) /\ (i + Len(s)) - Len(s) = i
    BY <1>2, <1>3
  <2>2. u[i + Len(s)] = t[i]
    BY <1>1, <1>3, <2>1
  <2> QED
    BY <2>1, <2>2 DEF ToSet
<1>7. ToSet(u) = ToSet(s) \cup ToSet(t)
  BY <1>4, <1>5, <1>6 DEF ToSet
<1> QED
  BY <1>1, <1>7 DEF u

(* A message with a later stamp was created later.                         *)
LEMMA LaterIsGreater ==
  ASSUME TypeInv, StampsInv, NEW i \in 1..Len(stamp), NEW j \in 1..Len(stamp),
         After(stamp[j], stamp[i])
  PROVE  i < j
<1>1. i \in Nat /\ j \in Nat /\ stamp[i] \in Stamps /\ stamp[j] \in Stamps
  BY Numbers
<1>2. i # j
  BY <1>1, AfterOrder
<1>3. ~(j < i)
  <2> SUFFICES ASSUME j < i PROVE FALSE
    OBVIOUS
  <2>1. After(stamp[i], stamp[j])
    BY Numbers DEF StampsInv
  <2> QED
    BY <1>1, <2>1, AfterOrder
<1> QED
  BY <1>1, <1>2, <1>3

(* Clients that poll are not the others.                                   *)
LEMMA Apart ==
  ASSUME TypeInv
  PROVE  /\ \A c \in Pollers : c \in Clients /\ c \notin LongPollers /\ c \notin Streamers
         /\ None \notin Pollers
         /\ \A w \in Workers :
              pc[w] \in Publishing \cup Streaming \cup {"idle", "assign"} => client[w] \notin Pollers
<1>1. \A c \in Pollers : c \in Clients /\ c \notin LongPollers /\ c \notin Streamers
  BY DEF Pollers, LongPollers, Streamers
<1>2. None \notin Pollers
  BY ConstantsAssumption DEF ConstantsAssumption, Pollers
<1> QED
  BY <1>1, <1>2 DEF TypeInv, RequestsInv

(* The one publisher that stores a message, the last one.                  *)
LEMMA TheOneStores ==
  ASSUME TypeInv, StoringInv, NEW w \in Workers, pc[w] \in Storing
  PROVE  /\ hand[w] = Len(stamp) /\ Len(stamp) \in DOMAIN stamp /\ last = stamp[Len(stamp)]
         /\ channel_mutex = w
         /\ \A v \in Workers \ {w} : pc[v] \notin Storing
<1>1. hand[w] = Len(stamp) /\ channel_mutex = w
  BY DEF StoringInv
<1>2. Len(stamp) \in 1..Len(stamp)
  BY <1>1 DEF TypeInv, CreatedInv, Publishing, Storing
<1>3. stamp # <<>>
  BY <1>2, EmptySeq DEF TypeInv, TypeOK
<1>4. \A v \in Workers \ {w} : pc[v] \notin Storing
  BY <1>1 DEF StoringInv
<1> QED
  BY <1>1, <1>2, <1>3, <1>4, Numbers DEF last, Last

(* Steps of a publisher, between which the stamps grow.                    *)
LEMMA PublishingKept ==
  ASSUME TypeInv, TypeInv', PollInv, Grows, UNCHANGED <<scenario, client, greater, since, got>>,
         NEW w \in Workers, client[w] \notin Pollers, \A v \in Workers \ {w} : pc'[v] = pc[v],
         StampsInv', NotedInv', \A c \in Pollers : MissedInv(c)'
  PROVE  PollInv'
<1>1. Pollers' = Pollers
  BY DEF Pollers
<1>2. StampsTyped /\ StampsTyped'
  BY NotedIs, NotedIsNext DEF PollInv
<1>3. ASSUME NEW v \in Workers, client'[v] \in Pollers PROVE AnswerInv(v)'
  <2>1. client[v] \in Pollers /\ v # w
    BY <1>3
  <2> QED
    BY <1>2, <2>1, AnswerGrows DEF PollInv
<1>4. ASSUME NEW c \in Pollers PROVE SinceInv(c)' /\ GotInv(c)'
  BY <1>2, PollerGrows DEF PollInv
<1> QED
  BY <1>1, <1>3, <1>4 DEF PollInv

(* What a client has missed of the stored messages stays so.               *)
LEMMA MissedStays ==
  ASSUME TypeInv, Grows, NEW c \in Clients, MissedInv(c), UNCHANGED <<since, got>>,
         NEW m \in ToSet(message_queue), ~After(stamp'[m], since[c])
  PROVE  m \in ToSet(got[c]) \/ TornBefore(m)'
<1>1. m \in DOMAIN stamp
  BY Numbers, ElementOfSeq, LenProperties DEF TypeInv, CreatedInv, ToSet
<1>2. stamp'[m] = stamp[m]
  BY <1>1 DEF Grows
<1>3. m \in ToSet(got[c]) \/ TornBefore(m)
  BY <1>2 DEF MissedInv
<1> QED
  BY <1>1, <1>3, TornStays

LEMMA AddMessagePoll ==
  ASSUME Skew = 0, TypeInv, TypeInv', StoringInv, PollInv, NEW w \in Workers, AddMessage(w)
  PROVE  PollInv'
<1> DEFINE n == Len(stamp)
           x == [time |-> now, tag |-> NextTag(now)]
<1>1. /\ stamp' = Append(stamp, x) /\ now > 0
      /\ UNCHANGED <<scenario, now, last_message, message_queue, client, greater, since, got>>
      /\ pc[w] = "idle" /\ channel_mutex = None
  <2>1. PICK time \in 0..Skew :
          /\ now - time > 0
          /\ stamp' = Append(stamp, [time |-> now - time, tag |-> NextTag(now - time)])
    BY DEF AddMessage
  <2>2. time = 0 /\ now - time = now
    BY <2>1, Numbers
  <2> QED
    BY <2>1, <2>2 DEF AddMessage, replay, history
<1>2. /\ n \in Nat /\ stamp \in Seq(Stamps) /\ last \in Stamps /\ now \in Nat
      /\ DOMAIN stamp = 1..n /\ \A i \in 1..n : stamp[i] \in Stamps
  BY Numbers, StampTypes DEF TypeInv, TypeOK
<1>3. x \in Stamps /\ x.time = now /\ x.tag = NextTag(now)
  <2>1. NextTag(now) \in Nat
    BY <1>2, StampTypes DEF NextTag
  <2> QED
    BY <1>2, <2>1, StampTypes
<1> HIDE DEF x, n
<1>4. /\ stamp' \in Seq(Stamps) /\ Len(stamp') = n + 1 /\ DOMAIN stamp' = 1..n + 1
      /\ stamp'[n + 1] = x /\ \A i \in 1..n : stamp'[i] = stamp[i]
  <2>1. stamp' \in Seq(Stamps) /\ Len(stamp') = n + 1
        /\ \A i \in 1..n : stamp'[i] = stamp[i]
    BY <1>1, <1>2, <1>3, AppendProperties DEF n
  <2>2. stamp'[n + 1] = x
    BY <1>1, <1>2, <1>3, AppendProperties DEF n
  <2> QED
    BY <2>1, <2>2, LenProperties
<1>5. last' = x
  <2>1. stamp' # <<>>
    BY <1>2, <1>4, EmptySeq
  <2> QED
    BY <1>4, <2>1 DEF last, Last
<1>6. last.time <= now /\ After(x, last)
  <2>1. last.time <= now
    <3>1. CASE n = 0
      <4>1. last = Zero
        BY <1>2, <3>1, EmptySeq DEF last, n
      <4> QED
        BY <1>2, <4>1 DEF Zero
    <3>2. CASE n # 0
      <4>1. 1 \in 1..Len(stamp)
        BY <1>2, <3>2 DEF n
      <4> QED
        BY <4>1, LastIsLatest DEF PollInv
    <3> QED
      BY <3>1, <3>2
  <2>2. x.tag = IF now = last.time THEN last.tag + 1 ELSE 1
    BY <1>3 DEF NextTag
  <2> QED
    BY <1>2, <1>3, <2>1, <2>2, StampTypes DEF After
<1>7. \A i \in 1..n : After(x, stamp[i])
  <2> SUFFICES ASSUME NEW i \in 1..n PROVE After(x, stamp[i])
    OBVIOUS
  <2>1. ~After(stamp[i], last)
    BY LastIsLatest DEF PollInv, n
  <2> QED
    BY <1>2, <1>3, <1>6, <2>1, AfterOrder
<1>8. x.tag > 0
  <2>1. x.tag = IF now = last.time THEN last.tag + 1 ELSE 1
    BY <1>3 DEF NextTag
  <2>2. last.tag \in Nat
    BY <1>2, TimesOrder
  <2> QED
    BY <2>1, <2>2
<1>9. client[w] \notin Pollers /\ Pollers' = Pollers
  BY <1>1, Apart DEF Pollers
<1>10. StampsInv'
  <2>1. \A i \in 1..n : stamp[i].time <= now /\ stamp[i].tag > 0
    BY Numbers DEF PollInv, StampsInv, n
  <2>2. \A i \in DOMAIN stamp' : stamp'[i].time <= now' /\ stamp'[i].tag > 0
    <3> SUFFICES ASSUME NEW i \in 1..n + 1 PROVE stamp'[i].time <= now /\ stamp'[i].tag > 0
      BY <1>1, <1>4
    <3>1. CASE i = n + 1
      BY <1>2, <1>3, <1>4, <1>8, <3>1
    <3>2. CASE i # n + 1
      <4>1. i \in 1..n
        BY <1>2, <3>2
      <4> QED
        BY <1>4, <2>1, <4>1
    <3> QED
      BY <3>1, <3>2
  <2>3. ASSUME NEW i \in DOMAIN stamp', NEW j \in DOMAIN stamp', i < j
        PROVE  After(stamp'[j], stamp'[i])
    <3>1. i \in 1..n
      BY <1>2, <1>4, <2>3
    <3>2. CASE j = n + 1
      BY <1>4, <1>7, <3>1, <3>2
    <3>3. CASE j # n + 1
      <4>1. j \in 1..n
        BY <1>2, <1>4, <3>3
      <4>2. After(stamp[j], stamp[i])
        BY <2>3, <3>1, <4>1, Numbers DEF PollInv, StampsInv, n
      <4> QED
        BY <1>4, <3>1, <4>1, <4>2
    <3> QED
      BY <3>2, <3>3
  <2>4. \A i, j \in DOMAIN stamp' : i < j => After(stamp'[j], stamp'[i])
    BY <2>3
  <2> QED
    BY <1>1, <2>2, <2>4 DEF StampsInv, After
<1>11. /\ pc'[w] = "set time" /\ \A v \in Workers \ {w} : pc'[v] = pc[v]
       /\ \A v \in Workers : pc[v] \notin Storing
  BY <1>1, NobodyStores DEF AddMessage, Goto, TypeInv, TypeOK
<1>12. /\ last_message.time = last.time /\ last_message.tag = Noted.tag
       /\ Noted = last
  <2>1. ~Unfinished /\ ~(\E v \in Workers : pc[v] = "set time")
    BY <1>11 DEF Unfinished, Storing
  <2> QED
    BY <2>1, NotedIs DEF PollInv, NotedInv, StampsTyped
<1>13. Noted' = last
  <2>1. Unfinished'
    BY <1>11 DEF Unfinished
  <2>2. Noted' = IF n > 0 THEN stamp'[n] ELSE Zero
    <3>1. Noted' = IF Len(stamp') - 1 > 0 THEN stamp'[Len(stamp') - 1] ELSE Zero
      BY <2>1 DEF Noted
    <3>2. Len(stamp') - 1 = n
      BY <1>2, <1>4
    <3> QED
      BY <3>1, <3>2
  <2>3. CASE n > 0
    <3>1. n \in 1..n /\ stamp # <<>>
      BY <1>2, <2>3, EmptySeq DEF n
    <3>2. last = stamp[n]
      BY <3>1 DEF last, Last, n
    <3> QED
      BY <1>4, <2>2, <2>3, <3>1, <3>2
  <2>4. CASE ~(n > 0)
    <3>1. stamp = <<>>
      BY <1>2, <2>4, EmptySeq DEF n
    <3> QED
      BY <2>2, <2>4, <3>1 DEF last
  <2> QED
    BY <2>3, <2>4
<1>14. NotedInv'
  BY <1>1, <1>11, <1>12, <1>13 DEF NotedInv
<1>15. Grows
  <2>1. \A i \in DOMAIN stamp : i \in DOMAIN stamp' /\ stamp'[i] = stamp[i]
    BY <1>2, <1>4
  <2>2. last_message.time <= last_message'.time
    BY <1>1, StampTypes
  <2> QED
    BY <1>5, <1>6, <1>12, <1>13, <2>1, <2>2 DEF Grows
<1>16. ASSUME NEW c \in Pollers PROVE MissedInv(c)'
  <2>1. SinceInv(c) /\ MissedInv(c) /\ c \in Clients /\ since[c] \in Stamps
    BY StampTypes DEF PollInv, Pollers
  <2>2. \A m \in ToSet(message_queue) :
          ~After(stamp'[m], since[c]) => m \in ToSet(got[c]) \/ TornBefore(m)'
    BY <1>1, <1>15, <2>1, MissedStays
  <2>3. ASSUME ~After(x, since[c]) PROVE TornBefore(Len(stamp))'
    <3>1. PICK s \in Stamps : s = since[c]
      BY <2>1
    <3>2. After(s, last)
      BY <1>2, <1>3, <1>6, <2>3, <3>1, AfterOrder
    <3>3. PICK k \in DOMAIN stamp : stamp[k].time < s.time /\ stamp[k].tag >= s.tag
      BY <2>1, <3>1, <3>2 DEF SinceInv, Covered
    <3>4. s.time = last.time
      BY <2>1, <3>1, <3>2 DEF SinceInv, Covered
    <3>5. /\ x.time \in Nat /\ x.tag \in Nat /\ s.time \in Nat /\ s.tag \in Nat
          /\ last.tag \in Nat /\ stamp[k].tag \in Nat
      BY <1>2, <1>3, <3>1, <3>3, TimesOrder
    <3>6. x.time = s.time /\ x.tag <= s.tag
      BY <1>3, <1>6, <2>3, <3>1, <3>4, <3>5 DEF After
    <3>7. x.tag > 1
      <4>1. x.tag = last.tag + 1
        BY <1>3, <3>4, <3>6 DEF NextTag
      <4>2. Len(stamp) \in 1..Len(stamp) /\ stamp # <<>>
        BY <3>3, Numbers
      <4>3. last = stamp[Len(stamp)]
        BY <4>2 DEF last, Last
      <4>4. last.tag > 0
        BY <4>2, <4>3, Numbers DEF PollInv, StampsInv
      <4> QED
        BY <3>5, <4>1, <4>4
    <3>8. stamp'[k].time < x.time /\ stamp'[k].tag >= x.tag /\ k \in DOMAIN stamp'
      <4>1. stamp'[k] = stamp[k] /\ k \in DOMAIN stamp'
        BY <3>3, <1>15 DEF Grows
      <4>2. stamp[k].tag >= x.tag
        BY <3>3, <3>5, <3>6
      <4> QED
        BY <3>3, <3>6, <4>1, <4>2
    <3> QED
      BY <1>4, <3>7, <3>8 DEF TornBefore
  <2>4. \A m \in ToSet(message_queue') :
          ~After(stamp'[m], since'[c]) => m \in ToSet(got'[c]) \/ TornBefore(m)'
    BY <1>1, <2>2
  <2>5. ~After(last', since'[c]) => TornBefore(Len(stamp))'
    BY <1>1, <1>5, <2>3
  <2> QED
    BY <2>4, <2>5 DEF MissedInv, After, TornBefore
<1> QED
  BY <1>1, <1>9, <1>10, <1>11, <1>14, <1>15, <1>16, PublishingKept

LEMMA SetTimePoll ==
  ASSUME TypeInv, TypeInv', StoringInv, PollInv, NEW w \in Workers, SetTime(w)
  PROVE  PollInv'
<1>1. /\ UNCHANGED <<scenario, now, stamp, message_queue, client, greater, since, got>>
      /\ pc[w] = "set time" /\ pc'[w] = "set tag" /\ \A v \in Workers \ {w} : pc'[v] = pc[v]
  BY DEF SetTime, Goto, replay, history, TypeInv, TypeOK
<1>2. /\ hand[w] = Len(stamp) /\ last = stamp[Len(stamp)]
      /\ \A v \in Workers \ {w} : pc[v] \notin Storing
  BY <1>1, TheOneStores DEF Storing
<1>3. last_message'.time = last.time /\ last_message'.tag = last_message.tag
  BY <1>2, StampTypes DEF SetTime, Stamps
<1>4. last_message.time = Noted.time /\ last_message.tag = Noted.tag
  BY <1>1 DEF PollInv, NotedInv
<1>5. Unfinished /\ Unfinished' /\ last' = last
  BY <1>1 DEF Unfinished, last
<1>6. Noted' = Noted
  BY <1>1, <1>5 DEF Noted
<1>7. NotedInv'
  BY <1>1, <1>2, <1>3, <1>4, <1>5, <1>6 DEF NotedInv, Storing
<1>8. Grows
  <2>1. Noted.time <= last.time
    BY NotedIs DEF PollInv, StampsTyped
  <2> QED
    BY <1>1, <1>3, <1>4, <1>5, <1>6, <2>1 DEF Grows
<1>9. client[w] \notin Pollers
  BY <1>1, Apart DEF Publishing
<1>10. StampsInv'
  BY <1>1 DEF PollInv, StampsInv
<1>11. ASSUME NEW c \in Pollers PROVE MissedInv(c)'
  <2>1. MissedInv(c) /\ \A m : TornBefore(m)' = TornBefore(m)
    BY <1>1 DEF PollInv, TornBefore
  <2> QED
    BY <1>1, <1>5, <2>1 DEF MissedInv, Storing
<1> QED
  BY <1>1, <1>7, <1>8, <1>9, <1>10, <1>11, PublishingKept

LEMMA SetTagPoll ==
  ASSUME TypeInv, TypeInv', StoringInv, PollInv, NEW w \in Workers, SetTag(w)
  PROVE  PollInv'
<1>1. /\ UNCHANGED <<scenario, now, stamp, message_queue, client, greater, since, got>>
      /\ pc[w] = "set tag" /\ pc'[w] = "store" /\ \A v \in Workers \ {w} : pc'[v] = pc[v]
  BY DEF SetTag, Goto, replay, history, TypeInv, TypeOK
<1>2. /\ hand[w] = Len(stamp) /\ last = stamp[Len(stamp)] /\ Len(stamp) \in DOMAIN stamp
      /\ \A v \in Workers \ {w} : pc[v] \notin Storing
  BY <1>1, TheOneStores DEF Storing
<1>3. last_message'.tag = last.tag /\ last_message'.time = last_message.time
  BY <1>2, StampTypes DEF SetTag, Stamps
<1>4. last_message.time = last.time
  BY <1>1, <1>2 DEF PollInv, NotedInv, Storing
<1>5. Unfinished /\ ~Unfinished' /\ last' = last
  BY <1>1, <1>2 DEF Unfinished, last, Storing
<1>6. Noted' = last
  <2>1. Noted' = IF Len(stamp) > 0 THEN stamp[Len(stamp)] ELSE Zero
    BY <1>1, <1>5 DEF Noted
  <2>2. Len(stamp) > 0
    BY <1>2, Numbers
  <2> QED
    BY <1>2, <2>1, <2>2
<1>7. NotedInv'
  BY <1>1, <1>2, <1>3, <1>4, <1>5, <1>6 DEF NotedInv, Storing
<1>8. After(last, Noted)
  <2>1. Noted = IF Len(stamp) - 1 > 0 THEN stamp[Len(stamp) - 1] ELSE Zero
    BY <1>5 DEF Noted
  <2>2. Len(stamp) \in Nat /\ DOMAIN stamp = 1..Len(stamp)
    BY Numbers
  <2>3. CASE Len(stamp) - 1 > 0
    <3>1. Len(stamp) - 1 \in DOMAIN stamp /\ Len(stamp) - 1 < Len(stamp)
      BY <2>2, <2>3
    <3> QED
      BY <1>2, <2>1, <2>3, <3>1 DEF PollInv, StampsInv
  <2>4. CASE ~(Len(stamp) - 1 > 0)
    <3>1. last.tag > 0 /\ last \in Stamps
      BY <1>2, StampTypes DEF PollInv, StampsInv
    <3>2. last.time \in Nat /\ last.tag \in Nat
      BY <3>1, TimesOrder
    <3>3. Noted.time = 0 /\ Noted.tag = 0
      BY <2>1, <2>4 DEF Zero
    <3> QED
      BY <3>1, <3>2, <3>3 DEF After
  <2> QED
    BY <2>3, <2>4
<1>9. Grows
  <2>1. last_message.time <= last_message'.time
    BY <1>3, StampTypes
  <2> QED
    BY <1>1, <1>5, <1>6, <1>8, <2>1 DEF Grows
<1>10. client[w] \notin Pollers
  BY <1>1, Apart DEF Publishing
<1>11. StampsInv'
  BY <1>1 DEF PollInv, StampsInv
<1>12. ASSUME NEW c \in Pollers PROVE MissedInv(c)'
  <2>1. MissedInv(c) /\ \A m : TornBefore(m)' = TornBefore(m)
    BY <1>1 DEF PollInv, TornBefore
  <2> QED
    BY <1>1, <1>5, <2>1 DEF MissedInv, Storing
<1> QED
  BY <1>1, <1>7, <1>9, <1>10, <1>11, <1>12, PublishingKept

LEMMA StoreMessagePoll ==
  ASSUME TypeInv, TypeInv', StoringInv, PollInv, NEW w \in Workers, StoreMessage(w)
  PROVE  PollInv'
<1>1. /\ UNCHANGED <<scenario, now, stamp, last_message, client, greater, since, got>>
      /\ message_queue' = Append(message_queue, hand[w])
      /\ pc[w] = "store" /\ pc'[w] = "limit" /\ \A v \in Workers \ {w} : pc'[v] = pc[v]
  BY DEF StoreMessage, Goto, replay, history, TypeInv, TypeOK
<1>2. /\ hand[w] = Len(stamp) /\ last = stamp[Len(stamp)]
      /\ \A v \in Workers \ {w} : pc[v] \notin Storing
  BY <1>1, TheOneStores DEF Storing
<1>3. ~Unfinished /\ ~Unfinished' /\ last' = last
  BY <1>1, <1>2 DEF Unfinished, last, Storing
<1>4. Noted' = Noted
  BY <1>1, <1>3 DEF Noted
<1>5. NotedInv'
  BY <1>1, <1>2, <1>3, <1>4 DEF PollInv, NotedInv, Storing
<1>6. Grows
  <2>1. last_message.time <= last_message'.time
    BY <1>1, StampTypes
  <2> QED
    BY <1>1, <1>3, <1>4, <2>1 DEF Grows
<1>7. client[w] \notin Pollers
  BY <1>1, Apart DEF Publishing
<1>8. StampsInv'
  BY <1>1 DEF PollInv, StampsInv
<1>9. ASSUME NEW c \in Pollers PROVE MissedInv(c)'
  <2>1. MissedInv(c) /\ \A m : TornBefore(m)' = TornBefore(m)
    BY <1>1 DEF PollInv, TornBefore
  <2>2. ToSet(message_queue') = ToSet(message_queue) \cup {Len(stamp)}
    BY <1>1, <1>2, AppendedSet DEF TypeInv, CreatedInv
  <2>3. ~After(stamp[Len(stamp)], since[c]) => TornBefore(Len(stamp))
    BY <1>1, <1>2, <2>1 DEF MissedInv, Storing
  <2>4. \A v \in Workers : pc'[v] \notin Storing
    BY <1>1, <1>2 DEF Storing
  <2> QED
    BY <1>1, <2>1, <2>2, <2>3, <2>4 DEF MissedInv
<1> QED
  BY <1>1, <1>5, <1>6, <1>7, <1>8, <1>9, PublishingKept

LEMMA SendOldMessagesPoll ==
  ASSUME TypeInv, TypeInv', StoringInv, PollInv, NEW w \in Workers, SendOldMessages(w)
  PROVE  PollInv'
<1>1. client[w] \in Pollers \cup LongPollers /\ client[w] \in Clients
  BY ConstantsAssumption
  DEF ConstantsAssumption, SendOldMessages, TypeInv, RequestsInv, Polling, Pollers, LongPollers
<1>2. PICK c \in Clients : c = client[w]
  BY <1>1
<1>3. PICK s, g : s = since[c] /\ g = greater[w]
  OBVIOUS
<1> DEFINE newer == Newer(s)
           sent == UpTo(newer, g)
<1>4. /\ UNCHANGED <<scenario, now, stamp, last_message, message_queue>>
      /\ got' = [got EXCEPT ![c] = got[c] \o sent]
      /\ since' = [since EXCEPT ![c] = g]
      /\ pc[w] = "send" /\ channel_mutex = None
  BY <1>2, <1>3 DEF SendOldMessages, chan
<1> HIDE DEF newer, sent
<1>5. \A v \in Workers : /\ client'[v] = IF v = w THEN None ELSE client[v]
                         /\ v # w => pc'[v] = pc[v] /\ greater'[v] = greater[v]
                         /\ v = w => pc'[v] = "idle"
  BY DEF SendOldMessages, End, Goto, TypeInv, TypeOK
<1>6. None \notin Pollers
  BY ConstantsAssumption DEF ConstantsAssumption, Pollers
<1>7. \A d \in Clients : d # c => got'[d] = got[d] /\ since'[d] = since[d]
  BY <1>4 DEF TypeInv, TypeOK
<1>8. got'[c] = got[c] \o sent /\ since'[c] = g
  BY <1>4, <1>2 DEF TypeInv, TypeOK
<1>9. \A v \in Workers \ {w} : client[v] # c
  BY <1>2, ConstantsAssumption DEF ConstantsAssumption, TypeInv, RequestsInv
<1>10. \A v \in Workers : pc[v] \notin Storing /\ pc'[v] \notin Storing
  BY <1>4, <1>5, NobodyStores DEF Storing
<1>11. CASE c \notin Pollers
  <2>1. \A d \in Pollers : since'[d] = since[d] /\ got'[d] = got[d]
    BY <1>7, <1>11 DEF Pollers
  <2>2. \A v \in Workers : client'[v] \in Pollers =>
          client'[v] = client[v] /\ pc'[v] = pc[v] /\ greater'[v] = greater[v]
    BY <1>5, <1>6
  <2>3. \A m \in ToSet(message_queue') : m \in ToSet(message_queue)
    BY <1>4
  <2>4. SameStoring
    BY <1>10 DEF SameStoring
  <2>5. now <= now'
    BY <1>4, Numbers
  <2> QED
    BY <1>4, <2>1, <2>2, <2>3, <2>4, <2>5, PollKept
<1>12. CASE c \in Pollers
  <2>1. Pollers' = Pollers /\ last' = last
    BY <1>4 DEF Pollers, last
  <2>2. /\ StampsInv /\ StampsInv' /\ StampsTyped /\ StampsTyped'
        /\ ~Unfinished /\ ~Unfinished'
    <3>1. StampsInv /\ StampsInv'
      BY <1>4 DEF PollInv, StampsInv
    <3> QED
      BY <1>10, <3>1, NotedIs, NotedIsNext DEF Unfinished, Storing
  <2>3. Noted = last /\ Noted' = last /\ last_message.time = last.time
    <3>1. Noted = last /\ Noted' = last
      BY <2>1, <2>2 DEF StampsTyped
    <3>2. last_message.time = last.time
      BY <1>10 DEF PollInv, NotedInv, Storing
    <3> QED
      BY <3>1, <3>2
  <2>4. NotedInv'
    BY <1>4, <1>10, <2>1, <2>2, <2>3 DEF PollInv, NotedInv, Storing
  <2>5. Grows
    <3>1. last_message.time <= last_message'.time
      BY <1>4, StampTypes
    <3> QED
      BY <1>4, <2>1, <2>3, <3>1 DEF Grows
  <2>6. ASSUME NEW v \in Workers, client'[v] \in Pollers PROVE AnswerInv(v)'
    <3>1. v # w /\ client'[v] = client[v] /\ pc'[v] = pc[v] /\ greater'[v] = greater[v]
      BY <1>5, <1>6, <2>6
    <3>2. AnswerInv(v) /\ client[v] \in Pollers /\ since'[client[v]] = since[client[v]]
      BY <1>7, <1>9, <2>6, <3>1 DEF PollInv, Pollers
    <3> QED
      BY <2>2, <2>5, <3>1, <3>2, AnswerGrows
  <2>7. ASSUME NEW d \in Pollers, d # c PROVE SinceInv(d)' /\ GotInv(d)' /\ MissedInv(d)'
    <3>1. /\ SinceInv(d) /\ GotInv(d) /\ MissedInv(d)
          /\ got'[d] = got[d] /\ since'[d] = since[d]
      BY <1>7, <2>7 DEF PollInv, Pollers
    <3>2. \A m : TornBefore(m) => TornBefore(m)'
      BY <1>4 DEF TornBefore
    <3>3. MissedInv(d)'
      BY <1>4, <1>10, <3>1, <3>2 DEF MissedInv
    <3> QED
      BY <2>2, <2>5, <3>1, <3>3, PollerGrows
  <2>8. SinceInv(c)' /\ GotInv(c)' /\ MissedInv(c)'
    <3> DEFINE n == Len(stamp)
               q == message_queue
    <3>1. /\ s \in Stamps /\ g \in Stamps /\ last \in Stamps /\ n \in Nat
          /\ \A m \in 1..n : stamp[m] \in Stamps
          /\ q \in Seq(1..n) /\ DOMAIN q = 1..Len(q) /\ Len(q) \in Nat
          /\ \A k \in 1..Len(q) : q[k] \in 1..n
      <4>1. q \in Seq(1..n) /\ \A k \in 1..Len(q) : q[k] \in 1..n
        BY ElementOfSeq DEF TypeInv, CreatedInv
      <4> QED
        BY <1>1, <1>3, <4>1, Numbers, StampTypes, LenProperties
    <3>2. /\ Covered(g) /\ g.time <= last.time
          /\ After(s, g) => g.time = s.time /\ Overtaken(g)
      BY <1>2, <1>3, <1>4, <1>12, <2>3 DEF PollInv, AnswerInv
    <3>3. GotInv(c) /\ MissedInv(c)
      BY <1>12 DEF PollInv
    <3>4. PICK i \in 1..Len(q) + 1 :
            /\ newer = From(i)
            /\ \A k \in 1..i - 1 : ~After(stamp[q[k]], s)
            /\ \A k \in i..Len(q) : After(stamp[q[k]], s)
      BY <2>2, <3>1, NewerIsFrom DEF newer
    <3>5. /\ newer \in Seq(1..n) /\ Ascending(newer)
          /\ \A m : m \in ToSet(newer) <=> \E k \in i..Len(q) : m = q[k]
      BY <3>4, FromOn
    <3>6. /\ sent \in Seq(1..n) /\ Ascending(sent)
          /\ \A m : m \in ToSet(sent) <=> m \in ToSet(newer) /\ ~After(stamp[m], g)
      BY <3>1, <3>5, UpToLeaves DEF sent
    <3>7. /\ got[c] \in Seq(1..n)
          /\ \A m \in ToSet(got[c]) : m \in 1..n
          /\ \A m \in ToSet(got[c]) : \A k \in 1..m : After(stamp[k], s) => TornAfter(k)
          /\ \A a, b \in DOMAIN got[c] : a < b => got[c][a] < got[c][b] \/ TornAfter(got[c][b])
          /\ \A m \in ToSet(q) : ~After(stamp[m], s) => m \in ToSet(got[c]) \/ TornBefore(m)
      <4>1. got[c] \in Seq(1..n)
        BY <3>3 DEF GotInv
      <4>2. \A m \in ToSet(got[c]) : m \in 1..n
        BY <4>1, ElementOfSeq, LenProperties DEF ToSet
      <4> QED
        BY <1>3, <3>3, <4>1, <4>2 DEF GotInv, MissedInv
    <3>8. \A m \in ToSet(sent) : m \in 1..n /\ After(stamp[m], s) /\ ~After(stamp[m], g)
      <4> SUFFICES ASSUME NEW m \in ToSet(sent)
                   PROVE  m \in 1..n /\ After(stamp[m], s) /\ ~After(stamp[m], g)
        OBVIOUS
      <4>1. PICK k \in i..Len(q) : m = q[k]
        BY <3>5, <3>6
      <4>2. k \in 1..Len(q)
        BY <3>1, <4>1
      <4> QED
        BY <3>1, <3>4, <3>6, <4>1, <4>2
    <3>9. /\ got'[c] \in Seq(1..n) /\ ToSet(got'[c]) = ToSet(got[c]) \cup ToSet(sent)
      BY <1>8, <3>6, <3>7, JoinedSet
    <3>10. SinceInv(c)'
      <4>1. Covered(g)'
        BY <1>4, <2>1, <3>2 DEF Covered, After
      <4>2. g.time <= Noted'.time
        BY <2>3, <3>2
      <4> QED
        BY <1>8, <4>1, <4>2 DEF SinceInv, Covered, After
    <3>11. ASSUME NEW m \in ToSet(got'[c]), NEW k \in 1..m, After(stamp[k], g)
           PROVE  TornAfter(k)
      <4>1. m \in 1..n /\ k \in 1..n /\ k <= m
        <5>1. m \in 1..n
          BY <3>7, <3>8, <3>9
        <5> QED
          BY <3>1, <5>1
      <4>2. CASE m \in ToSet(sent)
        <5>1. ~After(stamp[m], g)
          BY <3>8, <4>2
        <5>2. k # m
          BY <3>11, <5>1
        <5>3. After(stamp[m], stamp[k])
          <6>1. k < m
            BY <3>1, <4>1, <5>2
          <6> QED
            BY <2>2, <4>1, <6>1, Numbers DEF StampsInv
        <5> QED
          BY <3>1, <3>11, <4>1, <5>1, <5>3, AfterOrder
      <4>3. CASE m \in ToSet(got[c])
        <5>1. CASE After(stamp[k], s)
          BY <3>7, <4>3, <5>1
        <5>2. CASE ~After(stamp[k], s)
          <6>1. PICK x \in Stamps : x = stamp[k]
            BY <3>1, <4>1
          <6>2. After(s, g)
            BY <3>1, <3>11, <5>2, <6>1, AfterOrder
          <6>3. PICK l \in DOMAIN stamp : stamp[l].time > g.time /\ stamp[l].tag <= g.tag
            BY <3>2, <6>2 DEF Overtaken
          <6>4. /\ x.time \in Nat /\ x.tag \in Nat /\ s.time \in Nat /\ s.tag \in Nat
                /\ g.time \in Nat /\ g.tag \in Nat /\ stamp[l].tag \in Nat
            BY <3>1, <6>1, <6>3, Numbers, TimesOrder
          <6>5. x.time = g.time /\ x.tag > g.tag
            <7>1. g.time = s.time
              BY <3>2, <6>2
            <7>2. After(x, g) /\ ~After(x, s)
              BY <3>11, <5>2, <6>1
            <7> QED
              BY <6>4, <7>1, <7>2 DEF After
          <6>6. stamp[l].time > x.time /\ stamp[l].tag < x.tag
            BY <6>3, <6>4, <6>5
          <6> QED
            BY <6>1, <6>3, <6>6 DEF TornAfter
        <5> QED
          BY <5>1, <5>2
      <4> QED
        BY <3>9, <4>2, <4>3
    <3>12. ASSUME NEW a \in DOMAIN got'[c], NEW b \in DOMAIN got'[c], a < b
           PROVE  got'[c][a] < got'[c][b] \/ TornAfter(got'[c][b])
      <4> DEFINE l == Len(got[c])
      <4>1. /\ l \in Nat /\ Len(sent) \in Nat /\ a \in Nat /\ b \in Nat
            /\ DOMAIN got[c] = 1..l /\ DOMAIN sent = 1..Len(sent)
            /\ DOMAIN got'[c] = 1..l + Len(sent)
            /\ \A k \in 1..l + Len(sent) : got'[c][k] = IF k <= l THEN got[c][k] ELSE sent[k - l]
        <5>1. /\ got'[c] = got[c] \o sent /\ Len(got[c] \o sent) = l + Len(sent)
              /\ \A k \in 1..l + Len(sent) :
                   (got[c] \o sent)[k] = IF k <= l THEN got[c][k] ELSE sent[k - l]
          BY <1>8, <3>6, <3>7, ConcatProperties
        <5>2. /\ l \in Nat /\ Len(sent) \in Nat
              /\ DOMAIN got[c] = 1..l /\ DOMAIN sent = 1..Len(sent)
              /\ DOMAIN got'[c] = 1..Len(got'[c])
          BY <3>6, <3>7, <3>9, LenProperties
        <5> HIDE DEF l
        <5> QED
          BY <5>1, <5>2
      <4> HIDE DEF l
      <4>2. CASE b <= l
        <5>1. a \in DOMAIN got[c] /\ b \in DOMAIN got[c] /\ a <= l
          BY <3>12, <4>1, <4>2
        <5> QED
          BY <3>7, <3>12, <4>1, <4>2, <5>1
      <4>3. CASE l < a
        <5>1. a - l \in DOMAIN sent /\ b - l \in DOMAIN sent /\ a - l < b - l
          BY <3>12, <4>1, <4>3
        <5>2. got'[c][a] = sent[a - l] /\ got'[c][b] = sent[b - l]
          BY <3>12, <4>1, <4>3
        <5> QED
          BY <3>6, <5>1, <5>2 DEF Ascending
      <4>4. CASE a <= l /\ l < b
        <5>1. a \in DOMAIN got[c] /\ b - l \in DOMAIN sent
          BY <3>12, <4>1, <4>4
        <5>2. got'[c][a] = got[c][a] /\ got'[c][b] = sent[b - l]
          BY <3>12, <4>1, <4>4
        <5>3. PICK x, y : x = got[c][a] /\ y = sent[b - l]
          OBVIOUS
        <5>4. x \in ToSet(got[c]) /\ y \in ToSet(sent)
          BY <5>1, <5>3 DEF ToSet
        <5>5. x \in 1..n /\ y \in 1..n /\ After(stamp[y], s)
          BY <3>7, <3>8, <5>4
        <5>6. CASE x < y
          BY <5>2, <5>3, <5>6
        <5>7. CASE ~(x < y)
          <6>1. y \in 1..x
            BY <3>1, <5>5, <5>7
          <6>2. TornAfter(y)
            BY <3>7, <5>4, <5>5, <6>1
          <6> QED
            BY <5>2, <5>3, <6>2
        <5> QED
          BY <5>6, <5>7
      <4> QED
        BY <4>1, <4>2, <4>3, <4>4
    <3>13. GotInv(c)'
      <4>1. \A m : TornAfter(m)' = TornAfter(m)
        BY <1>4 DEF TornAfter
      <4>2. \A a, b \in DOMAIN got'[c] : a < b => got'[c][a] < got'[c][b] \/ TornAfter(got'[c][b])
        BY <3>12
      <4>3. \A m \in ToSet(got'[c]) : \A k \in 1..m : After(stamp[k], g) => TornAfter(k)
        BY <3>11
      <4>4. got'[c] \in Seq(1..Len(stamp'))
        BY <1>4, <3>9
      <4> QED
        BY <1>4, <1>8, <4>2, <4>3, <4>4 DEF GotInv, TornAfter, After
    <3>14. ASSUME NEW m \in ToSet(q), ~After(stamp[m], g)
           PROVE  m \in ToSet(got'[c]) \/ TornBefore(m)
      <4>1. PICK k \in 1..Len(q) : m = q[k]
        BY <3>1 DEF ToSet
      <4>2. CASE k \in 1..i - 1
        BY <3>4, <3>7, <3>9, <3>14, <4>1, <4>2
      <4>3. CASE k \in i..Len(q)
        BY <3>5, <3>6, <3>9, <3>14, <4>1, <4>3
      <4>4. k \in 1..i - 1 \/ k \in i..Len(q)
        BY <3>1, <4>1
      <4> QED
        BY <4>2, <4>3, <4>4
    <3>15. MissedInv(c)'
      <4>1. \A m : TornBefore(m)' = TornBefore(m)
        BY <1>4 DEF TornBefore
      <4>2. \A m \in ToSet(message_queue') :
              ~After(stamp'[m], since'[c]) => m \in ToSet(got'[c]) \/ TornBefore(m)'
        BY <1>4, <1>8, <3>14, <4>1
      <4> QED
        BY <1>10, <4>2 DEF MissedInv
    <3> QED
      BY <3>10, <3>13, <3>15
  <2> QED
    BY <2>1, <2>2, <2>4, <2>6, <2>7, <2>8 DEF PollInv
<1> QED
  BY <1>11, <1>12

(* A step of a handler that serves no client that polls.                   *)
LEMMA OtherHandler ==
  ASSUME TypeInv, TypeInv', PollInv, NEW w \in Workers,
         client[w] \notin Pollers, client'[w] \notin Pollers,
         pc[w] \notin Storing, pc'[w] \notin Storing,
         UNCHANGED <<scenario, now, stamp, last_message>>,
         \A m \in ToSet(message_queue') : m \in ToSet(message_queue),
         \A c \in Pollers : since'[c] = since[c] /\ got'[c] = got[c],
         \A v \in Workers \ {w} :
           client'[v] = client[v] /\ pc'[v] = pc[v] /\ greater'[v] = greater[v]
  PROVE  PollInv'
<1>1. \A v \in Workers : client'[v] \in Pollers =>
        client'[v] = client[v] /\ pc'[v] = pc[v] /\ greater'[v] = greater[v]
  OBVIOUS
<1>2. SameStoring
  BY DEF SameStoring
<1>3. now <= now'
  BY Numbers
<1> QED
  BY <1>1, <1>2, <1>3, PollKept

(* A step of one that may serve such a client.                             *)
LEMMA AnswerStep ==
  ASSUME TypeInv, TypeInv', PollInv, NEW w \in Workers,
         pc[w] \notin Storing, pc'[w] \notin Storing,
         UNCHANGED <<scenario, now, stamp, last_message, message_queue, since, got>>,
         client'[w] \in Pollers => AnswerInv(w)',
         \A v \in Workers \ {w} :
           client'[v] = client[v] /\ pc'[v] = pc[v] /\ greater'[v] = greater[v]
  PROVE  PollInv'
<1>1. \A v \in Workers : client'[v] \in Pollers =>
        \/ client'[v] = client[v] /\ pc'[v] = pc[v] /\ greater'[v] = greater[v]
        \/ AnswerInv(v)'
  OBVIOUS
<1>2. SameStoring
  BY DEF SameStoring
<1>3. now <= now'
  BY Numbers
<1> QED
  BY <1>1, <1>2, <1>3, PollKept

LEMMA PublisherPoll ==
  ASSUME Skew = 0, TypeInv, TypeInv', StoringInv, PollInv, NEW w \in Workers, Publisher(w)
  PROVE  PollInv'
<1>1. CASE AddMessage(w)
  BY <1>1, AddMessagePoll
<1>2. CASE SetTime(w)
  BY <1>2, SetTimePoll
<1>3. CASE SetTag(w)
  BY <1>3, SetTagPoll
<1>4. CASE StoreMessage(w)
  BY <1>4, StoreMessagePoll
<1>5. CASE EnsureQtdOfMessages(w)
  <2>1. pc[w] = "limit" /\ pc'[w] = "broadcast"
        /\ UNCHANGED <<scenario, now, stamp, last_message, client, greater, since, got>>
        /\ \A v \in Workers \ {w} : pc'[v] = pc[v]
    BY <1>5 DEF EnsureQtdOfMessages, Goto, replay, history, TypeInv, TypeOK
  <2>2. client[w] \notin Pollers /\ client'[w] \notin Pollers
    BY <2>1, Apart DEF Publishing
  <2>3. \A m \in ToSet(message_queue') : m \in ToSet(message_queue)
    BY <1>5, TrimmedQueue
  <2> QED
    BY <2>1, <2>2, <2>3, OtherHandler DEF Storing
<1>6. CASE Broadcast(w)
  <2>1. pc[w] = "broadcast" /\ pc'[w] = "enqueue"
        /\ UNCHANGED <<scenario, now, stamp, last_message, message_queue, client, greater, since, got>>
        /\ \A v \in Workers \ {w} : pc'[v] = pc[v]
    BY <1>6 DEF Broadcast, Goto, replay, history, TypeInv, TypeOK
  <2>2. client[w] \notin Pollers /\ client'[w] \notin Pollers
    BY <2>1, Apart DEF Publishing
  <2> QED
    BY <2>1, <2>2, OtherHandler DEF Storing
<1>7. ASSUME NEW v \in Workers, SendWorkerMessage(w, v) PROVE PollInv'
  <2>1. pc[w] = "enqueue"
        /\ UNCHANGED <<scenario, now, stamp, last_message, message_queue, client, greater, since, got,
                       pc>>
    BY <1>7 DEF SendWorkerMessage, chan, replay, history
  <2>2. client[w] \notin Pollers /\ client'[w] \notin Pollers
    BY <2>1, Apart DEF Publishing
  <2> QED
    BY <2>1, <2>2, OtherHandler DEF Storing
<1>8. CASE Unlock(w)
  <2>1. pc[w] = "enqueue" /\ pc'[w] = "idle"
        /\ UNCHANGED <<scenario, now, stamp, last_message, message_queue, client, greater, since, got>>
        /\ \A v \in Workers \ {w} : pc'[v] = pc[v]
    BY <1>8 DEF Unlock, Goto, chan, replay, history, TypeInv, TypeOK
  <2>2. client[w] \notin Pollers /\ client'[w] \notin Pollers
    BY <2>1, Apart DEF Publishing
  <2> QED
    BY <2>1, <2>2, OtherHandler DEF Storing
<1> QED
  BY <1>1, <1>2, <1>3, <1>4, <1>5, <1>6, <1>7, <1>8 DEF Publisher

(* Steps that no handler takes for a client that polls.                    *)
LEMMA QuietPoll ==
  ASSUME TypeInv, TypeInv', PollInv, now <= now',
         UNCHANGED <<scenario, stamp, last_message, client, greater, pc>>,
         \A m \in ToSet(message_queue') : m \in ToSet(message_queue),
         \A c \in Pollers : since'[c] = since[c] /\ got'[c] = got[c]
  PROVE  PollInv'
<1>1. SameStoring
  BY DEF SameStoring
<1> QED
  BY <1>1, PollKept

LEMMA SubscriptionPoll ==
  ASSUME TypeInv, TypeInv', PollInv, NEW w \in Workers, Subscription(w)
  PROVE  PollInv'
<1>0. (\A v \in Workers, c \in Pollers : c \notin subscriptions[v]) /\ now <= now
  BY Apart, Numbers DEF TypeInv, RequestsInv
<1>1. CASE ProcessMessage(w)
  <2>1. UNCHANGED <<scenario, now, stamp, last_message, message_queue, client, greater, pc>>
    BY <1>1 DEF ProcessMessage, chan, replay
  <2>2. \A c \in Pollers : since'[c] = since[c] /\ got'[c] = got[c]
    BY <1>0, <1>1, Apart DEF ProcessMessage
  <2> QED
    BY <1>0, <2>1, <2>2, QuietPoll
<1>2. ASSUME NEW c \in Clients, Disconnect(w, c) PROVE PollInv'
  <2>1. UNCHANGED <<scenario, now, stamp, last_message, message_queue, client, greater, pc, since, got>>
    BY <1>2 DEF Disconnect, chan, replay, history
  <2> QED
    BY <1>0, <2>1, QuietPoll
<1>3. ASSUME NEW c \in Clients, Timeout(w, c) PROVE PollInv'
  <2>1. UNCHANGED <<scenario, now, stamp, last_message, message_queue, client, greater, pc, got>>
    BY <1>3 DEF Timeout, chan, replay
  <2>2. \A d \in Pollers : since'[d] = since[d]
    <3>1. PICK x : since' = [since EXCEPT ![c] = x]
      BY <1>3 DEF Timeout
    <3>2. c \in LongPollers
      BY <1>3 DEF Timeout
    <3> QED
      BY <3>1, <3>2, Apart DEF TypeInv, TypeOK
  <2> QED
    BY <1>0, <2>1, <2>2, QuietPoll
<1> QED
  BY <1>1, <1>2, <1>3 DEF Subscription

(* The answer to a poll takes shape.                                       *)
LEMMA PollPoll ==
  ASSUME TypeInv, TypeInv', PollInv, NEW w \in Workers, NEW c \in Clients, Poll(w, c)
  PROVE  PollInv'
<1>1. /\ UNCHANGED <<scenario, now, stamp, last_message, message_queue, since, got>>
      /\ pc[w] = "idle" /\ client'[w] = c /\ pc'[w] = "check" /\ greater'[w] = since[c]
      /\ \A v \in Workers \ {w} :
           client'[v] = client[v] /\ pc'[v] = pc[v] /\ greater'[v] = greater[v]
  BY DEF Poll, Begin, Goto, chan, history, TypeInv, TypeOK
<1>2. AnswerInv(w)'
  BY <1>1 DEF AnswerInv
<1> QED
  BY <1>1, <1>2, AnswerStep DEF Storing

LEMMA HasOldMessagesPoll ==
  ASSUME TypeInv, TypeInv', PollInv, NEW w \in Workers, HasOldMessages(w)
  PROVE  PollInv'
<1>1. /\ UNCHANGED <<scenario, now, stamp, last_message, message_queue, since, got>>
      /\ pc[w] = "check"
      /\ \A v \in Workers \ {w} :
           client'[v] = client[v] /\ pc'[v] = pc[v] /\ greater'[v] = greater[v]
  BY DEF HasOldMessages, End, Goto, chan, history, TypeInv, TypeOK
<1>2. \/ pc'[w] = "time" /\ greater'[w] = greater[w] /\ client'[w] = client[w]
      \/ pc'[w] = "assign" /\ client[w] \in LongPollers /\ client'[w] = client[w]
      \/ pc'[w] = "idle" /\ client'[w] = None
  BY DEF HasOldMessages, End, Goto, TypeInv, TypeOK
<1>3. ASSUME client'[w] \in Pollers PROVE AnswerInv(w)'
  <2>1. pc'[w] = "time" /\ greater'[w] = greater[w] /\ client'[w] = client[w]
    BY <1>2, <1>3, Apart
  <2>2. AnswerInv(w)
    BY <1>3, <2>1 DEF PollInv
  <2> QED
    BY <1>1, <2>1, <2>2 DEF AnswerInv
<1> QED
  BY <1>1, <1>2, <1>3, AnswerStep DEF Storing

(* What of a stamp is noted is not later than the last one.                *)
LEMMA NotedTimes ==
  ASSUME TypeInv, PollInv
  PROVE  /\ last_message.time \in Nat /\ last_message.tag \in Nat
         /\ Noted.time \in Nat /\ Noted.tag \in Nat /\ last.time \in Nat /\ last.tag \in Nat
         /\ Noted.time <= last_message.time /\ last_message.time <= last.time
         /\ Noted.time <= last.time /\ Noted.tag = last_message.tag
<1>1. StampsTyped
  BY NotedIs DEF PollInv
<1>2. /\ last_message.time \in Nat /\ last_message.tag \in Nat
      /\ Noted.time \in Nat /\ Noted.tag \in Nat /\ last.time \in Nat /\ last.tag \in Nat
      /\ Noted.time <= last.time
  BY <1>1, TimesOrder DEF StampsTyped
<1>3. Noted.tag = last_message.tag
  BY DEF PollInv, NotedInv
<1>4. last_message.time = Noted.time \/ last_message.time = last.time
  <2>1. CASE \E v \in Workers : pc[v] = "set time"
    BY <2>1 DEF PollInv, NotedInv
  <2>2. CASE ~(\E v \in Workers : pc[v] = "set time")
    BY <2>2 DEF PollInv, NotedInv
  <2> QED
    BY <2>1, <2>2
<1> QED
  BY <1>2, <1>3, <1>4

LEMMA CompareStampPoll ==
  ASSUME TypeInv, TypeInv', PollInv, NEW w \in Workers, CompareStamp(w)
  PROVE  PollInv'
<1>1. /\ UNCHANGED <<scenario, now, stamp, last_message, message_queue, since, got, client, greater>>
      /\ pc[w] \in {"time", "same time", "tag"} /\ pc'[w] = Compare(w)
      /\ \A v \in Workers \ {w} : pc'[v] = pc[v]
  BY DEF CompareStamp, Goto, chan, replay, history, TypeInv, TypeOK
<1>2. StampsTyped
  BY NotedIs DEF PollInv
<1>3. ASSUME client'[w] \in Pollers PROVE AnswerInv(w)'
  <2>1. PICK s \in Stamps : s = since[client[w]]
    BY <1>1, <1>2, <1>3 DEF StampsTyped, Pollers
  <2>2. /\ greater[w] = s
        /\ Covered(s) /\ s.time <= Noted.time
    BY <1>1, <1>3, <2>1 DEF PollInv, AnswerInv, SinceInv
  <2>3. s.time \in Nat /\ s.tag \in Nat /\ last_message.time \in Nat /\ Noted.time \in Nat
    BY <2>1, NotedTimes, TimesOrder
  <2>4. Noted.time <= last_message.time /\ Noted.tag = last_message.tag
    BY NotedTimes
  <2>5. pc'[w] = "new time" => s.time < last_message.time
    <3>1. pc'[w] = "new time" => last_message.time > s.time
      BY <1>1, <2>2 DEF Compare
    <3> QED
      BY <2>3, <3>1
  <2>6. pc'[w] = "new tag" => After(Noted, s)
    <3>1. pc'[w] = "new tag" => last_message.tag > s.tag
      BY <1>1, <2>2 DEF Compare
    <3>2. s.time < Noted.time \/ s.time = Noted.time
      BY <2>2, <2>3
    <3> QED
      BY <2>4, <3>1, <3>2 DEF After
  <2>7. ~After(s, s) /\ s.time <= last_message.time
    <3>1. s.time <= last_message.time
      BY <2>2, <2>3, <2>4
    <3> QED
      BY <2>1, <3>1, AfterOrder
  <2>8. last' = last /\ Noted' = Noted
    <3>1. Unfinished' <=> Unfinished
      <4>1. pc'[w] \notin {"set time", "set tag"}
        BY <1>1 DEF Compare
      <4> QED
        BY <1>1, <4>1 DEF Unfinished
    <3> QED
      BY <1>1, <3>1 DEF last, Noted
  <2>9. Covered(s)'
    BY <1>1, <2>2, <2>8 DEF Covered
  <2>10. since'[client'[w]] = s /\ greater'[w] = s /\ last_message' = last_message
    BY <1>1, <2>1, <2>2
  <2> QED
    BY <1>1, <2>5, <2>6, <2>7, <2>8, <2>9, <2>10 DEF AnswerInv, Covered, After
<1>4. pc'[w] \notin Storing /\ pc[w] \notin Storing
  BY <1>1 DEF Compare, Storing
<1> QED
  BY <1>1, <1>3, <1>4, AnswerStep

LEMMA ReadTimePoll ==
  ASSUME TypeInv, TypeInv', PollInv, NEW w \in Workers, ReadTime(w)
  PROVE  PollInv'
<1>1. /\ UNCHANGED <<scenario, now, stamp, last_message, message_queue, since, got, client>>
      /\ pc[w] = "new time" /\ pc'[w] = "new tag"
      /\ \A v \in Workers \ {w} : pc'[v] = pc[v] /\ greater'[v] = greater[v]
  BY DEF ReadTime, Goto, chan, history, TypeInv, TypeOK
<1>2. last_message.time \in Nat /\ greater[w] \in Stamps
  BY StampTypes
<1>3. greater'[w].time = last_message.time
  BY <1>2 DEF ReadTime, Stamps, TypeInv, TypeOK
<1>4. ASSUME client'[w] \in Pollers PROVE AnswerInv(w)'
  <2>1. since[client[w]].time < last_message.time
    BY <1>1, <1>4 DEF PollInv, AnswerInv
  <2>2. PICK s, g, l : s = since[client[w]] /\ g = greater'[w] /\ l = last_message
    OBVIOUS
  <2>3. s.time < g.time /\ g.time <= l.time
    BY <1>2, <1>3, <2>1, <2>2
  <2>4. since'[client'[w]] = s /\ greater'[w] = g /\ last_message' = l
    BY <1>1, <2>2
  <2> QED
    BY <1>1, <2>3, <2>4 DEF AnswerInv
<1> QED
  BY <1>1, <1>4, AnswerStep DEF Storing

LEMMA ReadTagPoll ==
  ASSUME TypeInv, TypeInv', PollInv, NEW w \in Workers, ReadTag(w)
  PROVE  PollInv'
<1>1. /\ UNCHANGED <<scenario, now, stamp, last_message, message_queue, since, got, client>>
      /\ pc[w] = "new tag" /\ pc'[w] = "send"
      /\ \A v \in Workers \ {w} : pc'[v] = pc[v] /\ greater'[v] = greater[v]
  BY DEF ReadTag, Goto, chan, history, TypeInv, TypeOK
<1>2. StampsTyped
  BY NotedIs DEF PollInv
<1>3. ASSUME client'[w] \in Pollers PROVE AnswerInv(w)'
  <2>1. PICK s \in Stamps, g \in Stamps : s = since[client[w]] /\ g = greater[w]
    BY <1>1, <1>2, <1>3 DEF StampsTyped, Pollers
  <2>2. PICK h : h = greater'[w]
    OBVIOUS
  <2>3. h.time = g.time /\ h.tag = last_message.tag
    BY <1>2, <2>1, <2>2 DEF ReadTag, Stamps, StampsTyped, TypeInv, TypeOK
  <2>4. /\ \/ g = s /\ After(Noted, s)
           \/ s.time < g.time /\ g.time <= last_message.time
        /\ s.time <= Noted.time
    BY <1>1, <1>3, <2>1 DEF PollInv, AnswerInv, SinceInv
  <2>5. /\ s.time \in Nat /\ s.tag \in Nat /\ g.time \in Nat /\ g.tag \in Nat
        /\ last_message.time \in Nat /\ last_message.tag \in Nat
        /\ Noted.time \in Nat /\ Noted.tag \in Nat /\ last.time \in Nat /\ last.tag \in Nat
        /\ Noted.time <= last.time
    BY <2>1, NotedTimes, TimesOrder
  <2>6. /\ Noted.time <= last_message.time /\ last_message.time <= last.time
        /\ Noted.tag = last_message.tag
    BY NotedTimes
  <2>7. Noted.time > 0 => \E k \in DOMAIN stamp : Noted = stamp[k]
    <3>1. Noted = Zero \/ \E k \in DOMAIN stamp : Noted = stamp[k]
      BY <1>2 DEF StampsTyped
    <3> QED
      BY <3>1 DEF Zero
  <2>8. h.time <= last_message.time
    BY <2>3, <2>4, <2>5, <2>6
  <2>9. ASSUME After(s, h) PROVE h.time = s.time /\ Overtaken(h)
    <3>1. g = s /\ After(Noted, s) /\ s.tag > Noted.tag
      BY <2>3, <2>4, <2>5, <2>6, <2>9 DEF After
    <3>2. Noted.time > s.time
      BY <2>5, <3>1 DEF After
    <3>3. PICK k \in DOMAIN stamp : Noted = stamp[k]
      BY <2>5, <2>7, <3>2
    <3>4. stamp[k].time > h.time /\ stamp[k].tag <= h.tag
      BY <2>3, <2>5, <2>6, <3>1, <3>2, <3>3
    <3> QED
      BY <2>3, <3>1, <3>3, <3>4 DEF Overtaken
  <2>10. Covered(h)
    <3>1. CASE ~After(h, last)
      BY <3>1 DEF Covered
    <3>2. CASE After(h, last)
      <4>1. h.time = last.time /\ h.tag > last.tag
        BY <2>3, <2>5, <2>6, <2>8, <3>2 DEF After
      <4>2. Noted.tag > last.tag
        BY <2>3, <2>6, <4>1
      <4>3. Noted.time < last.time
        <5>1. ~After(Noted, last)
          BY <1>2 DEF StampsTyped
        <5> QED
          BY <2>5, <4>2, <5>1 DEF After
      <4>4. Noted # Zero
        BY <2>5, <4>2 DEF Zero
      <4>5. PICK k \in DOMAIN stamp : Noted = stamp[k]
        BY <1>2, <4>4 DEF StampsTyped
      <4>6. stamp[k].time < h.time /\ stamp[k].tag >= h.tag
        BY <2>3, <2>5, <2>6, <4>1, <4>3, <4>5
      <4> QED
        BY <4>1, <4>5, <4>6 DEF Covered
    <3> QED
      BY <3>1, <3>2
  <2>11. last' = last
    BY <1>1 DEF last
  <2>12. Covered(h)'
    BY <1>1, <2>10, <2>11 DEF Covered
  <2>13. After(s, h) => h.time = s.time /\ Overtaken(h)'
    <3>1. Overtaken(h)' = Overtaken(h)
      BY <1>1 DEF Overtaken
    <3> QED
      BY <2>9, <3>1
  <2>14. since'[client'[w]] = s /\ greater'[w] = h /\ last_message' = last_message
    BY <1>1, <2>1, <2>2
  <2> QED
    BY <1>1, <2>8, <2>12, <2>13, <2>14 DEF AnswerInv, Covered, Overtaken, After
<1> QED
  BY <1>1, <1>3, AnswerStep DEF Storing

LEMMA RequestPoll ==
  ASSUME TypeInv, TypeInv', StoringInv, PollInv, NEW w \in Workers, Request(w)
  PROVE  PollInv'
<1>1. ASSUME NEW c \in Clients, Poll(w, c) PROVE PollInv'
  BY <1>1, PollPoll
<1>2. ASSUME NEW c \in Clients, Resume(w, c) PROVE PollInv'
  <2>1. /\ pc[w] = "idle" /\ pc'[w] \in {"resume", "start", "assign"}
        /\ c \in Streamers /\ client'[w] = c
        /\ UNCHANGED <<scenario, now, stamp, last_message, message_queue, greater, since, got>>
        /\ \A v \in Workers \ {w} : client'[v] = client[v] /\ pc'[v] = pc[v]
    BY <1>2 DEF Resume, Begin, Goto, chan, history, TypeInv, TypeOK
  <2>2. client[w] \notin Pollers /\ client'[w] \notin Pollers
    BY <2>1, Apart
  <2> QED
    BY <2>1, <2>2, OtherHandler DEF Storing
<1>3. ASSUME NEW c \in Clients, NEW b \in 0..MaxStored, AskBacktrack(w, c, b) PROVE PollInv'
  <2>1. /\ pc[w] = "idle" /\ pc'[w] \in {"resume", "start", "assign"}
        /\ c \in Streamers /\ client'[w] = c
        /\ UNCHANGED <<scenario, now, stamp, last_message, message_queue, greater, since, got>>
        /\ \A v \in Workers \ {w} : client'[v] = client[v] /\ pc'[v] = pc[v]
    BY <1>3 DEF AskBacktrack, Begin, Goto, chan, history, TypeInv, TypeOK
  <2>2. client[w] \notin Pollers /\ client'[w] \notin Pollers
    BY <2>1, Apart
  <2> QED
    BY <2>1, <2>2, OtherHandler DEF Storing
<1>4. CASE HasOldMessages(w)
  BY <1>4, HasOldMessagesPoll
<1>5. CASE ReadTime(w)
  BY <1>5, ReadTimePoll
<1>6. CASE ReadTag(w)
  BY <1>6, ReadTagPoll
<1>7. CASE SendOldMessages(w)
  BY <1>7, SendOldMessagesPoll
<1>8. CASE SendAfterId(w)
  <2>1. /\ pc[w] = "resume" /\ pc'[w] = "assign"
        /\ UNCHANGED <<scenario, now, stamp, last_message, message_queue, client, greater, since>>
        /\ \A v \in Workers \ {w} : pc'[v] = pc[v]
    BY <1>8 DEF SendAfterId, Goto, chan, replay, TypeInv, TypeOK
  <2>2. client[w] \notin Pollers /\ client'[w] \notin Pollers
    BY <2>1, Apart DEF Streaming
  <2>3. \A c \in Pollers : got'[c] = got[c]
    BY <1>8, <2>2, Apart DEF SendAfterId, TypeInv, TypeOK
  <2> QED
    BY <2>1, <2>2, <2>3, OtherHandler DEF Storing
<1>9. CASE ReadStart(w)
  <2>1. /\ pc[w] = "start" /\ pc'[w] = "backtrack"
        /\ UNCHANGED <<scenario, now, stamp, last_message, message_queue, client, greater, since, got>>
        /\ \A v \in Workers \ {w} : pc'[v] = pc[v]
    BY <1>9 DEF ReadStart, Goto, chan, history, TypeInv, TypeOK
  <2>2. client[w] \notin Pollers /\ client'[w] \notin Pollers
    BY <2>1, Apart DEF Streaming
  <2> QED
    BY <2>1, <2>2, OtherHandler DEF Storing
<1>10. CASE SendBacktrack(w)
  <2>1. /\ pc[w] = "backtrack" /\ pc'[w] = "assign"
        /\ UNCHANGED <<scenario, now, stamp, last_message, message_queue, client, greater, since>>
        /\ \A v \in Workers \ {w} : pc'[v] = pc[v]
    BY <1>10 DEF SendBacktrack, Goto, chan, TypeInv, TypeOK
  <2>2. client[w] \notin Pollers /\ client'[w] \notin Pollers
    BY <2>1, Apart DEF Streaming
  <2>3. PICK x : got' = [got EXCEPT ![client[w]] = x]
    BY <1>10 DEF SendBacktrack
  <2>4. \A c \in Pollers : got'[c] = got[c]
    BY <2>2, <2>3, Apart DEF TypeInv, TypeOK
  <2> QED
    BY <2>1, <2>2, <2>4, OtherHandler DEF Storing
<1>11. CASE Assign(w)
  <2>1. /\ pc[w] = "assign" /\ pc'[w] = "idle" /\ client'[w] = None
        /\ UNCHANGED <<scenario, now, stamp, last_message, message_queue, greater, since, got>>
        /\ \A v \in Workers \ {w} : client'[v] = client[v] /\ pc'[v] = pc[v]
    BY <1>11 DEF Assign, End, Goto, chan, history, TypeInv, TypeOK
  <2>2. client[w] \notin Pollers /\ client'[w] \notin Pollers
    BY <2>1, Apart
  <2> QED
    BY <2>1, <2>2, OtherHandler DEF Storing
<1>12. CASE CompareStamp(w)
  BY <1>12, CompareStampPoll
<1> QED
  BY <1>1, <1>2, <1>3, <1>4, <1>5, <1>6, <1>7, <1>8, <1>9, <1>10, <1>11, <1>12 DEF Request

LEMMA PollStep ==
  ASSUME Skew = 0, TypeInv, StoringInv, PollInv, [Next]_vars
  PROVE  PollInv'
<1>0. TypeInv' /\ now <= now /\ now <= now + 1
  BY TypeStep, Numbers
<1>1. ASSUME NEW w \in Workers, Publisher(w) PROVE PollInv'
  BY <1>0, <1>1, PublisherPoll
<1>2. ASSUME NEW w \in Workers, Request(w) PROVE PollInv'
  BY <1>0, <1>2, RequestPoll
<1>3. ASSUME NEW w \in Workers, Subscription(w) PROVE PollInv'
  BY <1>0, <1>3, SubscriptionPoll
<1>4. CASE Expire
  <2>1. UNCHANGED <<scenario, now, stamp, last_message, client, greater, pc, since, got>>
    BY <1>4 DEF Expire, replay, history
  <2>2. \A m \in ToSet(message_queue') : m \in ToSet(message_queue)
    BY <1>4, ExpiredQueue
  <2> QED
    BY <1>0, <2>1, <2>2, QuietPoll
<1>5. CASE Tick
  <2>1. /\ now' = now + 1
        /\ UNCHANGED <<scenario, stamp, last_message, message_queue, client, greater, pc, since, got>>
    BY <1>5 DEF Tick, replay, history
  <2> QED
    BY <1>0, <2>1, QuietPoll
<1>6. CASE UNCHANGED vars
  <2>1. UNCHANGED <<scenario, now, stamp, last_message, message_queue, client, greater, pc, since, got>>
    BY <1>6 DEF vars, chan, replay, history
  <2> QED
    BY <1>0, <2>1, QuietPoll
<1> QED
  BY <1>1, <1>2, <1>3, <1>4, <1>5, <1>6 DEF Next

LEMMA PollInitially ==
  ASSUME Init
  PROVE  PollInv
<1>1. /\ stamp = <<>> /\ message_queue = <<>> /\ now = 1 /\ last = Zero /\ last_message = Zero
      /\ \A w \in Workers : client[w] = None /\ pc[w] = "idle"
      /\ \A c \in Pollers : since[c] = Zero /\ got[c] = <<>>
  BY DEF Init, last, Pollers
<1>2. StampsInv
  BY <1>1 DEF StampsInv
<1>3. None \notin Pollers
  BY ConstantsAssumption DEF ConstantsAssumption, Pollers
<1>4. Noted = Zero
  BY <1>1 DEF Noted
<1>5. NotedInv
  BY <1>1, <1>4 DEF NotedInv
<1>6. ASSUME NEW c \in Pollers PROVE SinceInv(c) /\ GotInv(c) /\ MissedInv(c)
  <2>1. ~After(Zero, Zero) /\ Zero.time <= Zero.time
    BY DEF After, Zero
  <2>2. ToSet(<<>>) = {} /\ DOMAIN <<>> = {}
    BY DEF ToSet
  <2>3. <<>> \in Seq(1..Len(stamp))
    OBVIOUS
  <2>4. SinceInv(c)
    BY <1>1, <1>4, <2>1 DEF SinceInv, Covered
  <2>5. GotInv(c)
    BY <1>1, <2>2, <2>3 DEF GotInv
  <2>6. MissedInv(c)
    BY <1>1, <2>2 DEF MissedInv, Storing
  <2> QED
    BY <2>4, <2>5, <2>6
<1> QED
  BY <1>1, <1>2, <1>3, <1>5, <1>6 DEF PollInv

(* With clocks that agree, a client that polls gets every stored message   *)
(* up to the stamp of its last answer, once and in order, but for those    *)
(* that torn stamps skip or repeat: for any workers, clients, scenarios    *)
(* and times, although a publisher notes the time of its message before    *)
(* the tag, and the answer reads them without the mutex.                   *)
THEOREM PollingExact == Skew = 0 => (Spec => []PollingIsExactUnlessTorn)
<1> SUFFICES ASSUME Skew = 0 PROVE Spec => []PollingIsExactUnlessTorn
  OBVIOUS
<1>1. Init => PollInv
  BY PollInitially
<1>2. TypeInv /\ StoringInv /\ PollInv /\ [Next]_vars => PollInv'
  BY PollStep
<1>3. TypeInv /\ PollInv => PollingIsExactUnlessTorn
  <2> SUFFICES ASSUME TypeInv, PollInv, NEW c \in Pollers
               PROVE  /\ \A m \in ToSet(message_queue) :
                           ~After(stamp[m], since[c]) => m \in ToSet(got[c]) \/ TornBefore(m)
                      /\ \A i, j \in 1..Len(got[c]) :
                           i < j => got[c][i] < got[c][j] \/ TornAfter(got[c][j])
    BY DEF PollingIsExactUnlessTorn
  <2>1. GotInv(c) /\ MissedInv(c)
    BY DEF PollInv
  <2>2. DOMAIN got[c] = 1..Len(got[c])
    BY <2>1, LenProperties DEF GotInv
  <2> QED
    BY <2>1, <2>2 DEF GotInv, MissedInv
<1> QED
  BY <1>1, <1>2, <1>3, Invariance, PTL DEF Spec
=============================================================================

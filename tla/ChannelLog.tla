----------------------------- MODULE ChannelLog -----------------------------
(***************************************************************************)
(* What publishing in a channel promises to its subscribers: there is one  *)
(* order of the messages, and every worker with subscribers goes through   *)
(* all of them in that order, giving each to all the subscribers it has at *)
(* that moment. Who is not subscribed may be shown stored messages, in the *)
(* order of their creation.                                                *)
(***************************************************************************)
EXTENDS Integers, Sequences

CONSTANTS Workers, Clients, Messages

VARIABLES
  log,        \* the messages that have been broadcast
  listening,  \* the workers that have had subscribers
  position,   \* position[w]: how many of log the worker has gone through
  members,    \* members[w]: the subscribers of the worker
  got         \* got[c]: what the client has received

vars == <<log, listening, position, members, got>>

Subscribed(c) == \E w \in Workers : c \in members[w]

Init ==
  /\ log = <<>>
  /\ listening = {}
  /\ position = [w \in Workers |-> 0]
  /\ members = [w \in Workers |-> {}]
  /\ got = [c \in Clients |-> <<>>]

Broadcast(m) ==
  /\ log' = Append(log, m)
  /\ position' = [w \in Workers |-> IF w \in listening THEN position[w] ELSE Len(log) + 1]
  /\ UNCHANGED <<listening, members, got>>

(* Subscribers that take one message only leave with it.                   *)
Deliver(w) ==
  /\ w \in listening
  /\ position[w] < Len(log)
  /\ position' = [position EXCEPT ![w] = @ + 1]
  /\ got' = [c \in Clients |-> IF c \in members[w] THEN Append(got[c], log[position[w] + 1])
                               ELSE got[c]]
  /\ members' \in {[members EXCEPT ![w] = rest] : rest \in SUBSET members[w]}
  /\ UNCHANGED <<log, listening>>

Join(c, w) ==
  /\ ~Subscribed(c)
  /\ members' = [members EXCEPT ![w] = @ \cup {c}]
  /\ listening' = listening \cup {w}
  /\ UNCHANGED <<log, position, got>>

Leave(c, w) ==
  /\ c \in members[w]
  /\ members' = [members EXCEPT ![w] = @ \ {c}]
  /\ UNCHANGED <<log, listening, position, got>>

Replay(c) ==
  /\ ~Subscribed(c)
  /\ \A d \in Clients \ {c} : got'[d] = got[d]
  /\ SubSeq(got'[c], 1, Len(got[c])) = got[c]
  /\ \A i, j \in (Len(got[c]) + 1)..Len(got'[c]) : i < j => got'[c][i] < got'[c][j]
  /\ UNCHANGED <<log, listening, position, members>>

Next ==
  \/ \E m \in Messages : Broadcast(m)
  \/ \E w \in Workers : Deliver(w)
  \/ \E c \in Clients : Replay(c) \/ \E w \in Workers : Join(c, w) \/ Leave(c, w)

Spec == Init /\ [][Next]_vars
=============================================================================

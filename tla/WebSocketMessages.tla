------------------------- MODULE WebSocketMessages -------------------------
(***************************************************************************)
(* What a WebSocket subscriber that may publish is promised: its frames    *)
(* are taken in the order in which it sent them, each whole and once; the  *)
(* fragments of a text are joined, and the text is published, unmasked, in *)
(* every channel of the connection. How the network cuts the bytes makes   *)
(* no difference.                                                          *)
(*                                                                         *)
(* Two limits of the code are part of the promise: a text whose last       *)
(* fragment is empty is not published, and whoever sends a frame out of    *)
(* sequence, of an unknown kind, or with a payload that is not UTF-8 loses *)
(* the connection.                                                         *)
(***************************************************************************)
EXTENDS Naturals, Sequences

CONSTANTS
  Channels,      \* the channels of the connection, but for the events channel
  AllowPublish   \* push_stream_websocket_allow_publish

Continuation == 0
Text == 1
Close == 8
Ping == 9
Pong == 10

Supported == {Text, Close, Ping, Pong}

VARIABLES
  sent,       \* the frames of the client
  handled,    \* how many of them have been taken
  message,    \* the message whose last fragment has not come, or NoMessage
  published,  \* published[c]: the texts that channel c got
  pongs,      \* the answers to pings
  open        \* the connection is up

vars == <<sent, handled, message, published, pongs, open>>

NoMessage == [opcode |-> Continuation, text |-> <<>>]
Fragmented == message # NoMessage

(* The bytes of the i-th frame, by their place.                            *)
Payload(i) == [k \in 1..sent[i].len |-> <<i, k>>]

OutOfSequence(f) ==
  \/ f.opcode = Continuation /\ ~Fragmented
  \/ f.opcode # Continuation /\ f.fin /\ Fragmented

Kind(f) == IF Fragmented THEN message.opcode ELSE f.opcode

Acceptable(f) ==
  /\ ~OutOfSequence(f)
  /\ Kind(f) \in Supported
  /\ f.len > 0 => f.utf8

Publishes(f) == AllowPublish /\ f.fin /\ Kind(f) = Text /\ f.len > 0

Publish(text, channels) ==
  published' = [c \in Channels |-> IF c \in channels THEN Append(published[c], text)
                                   ELSE published[c]]

Handle ==
  /\ open
  /\ handled < Len(sent)
  /\ LET f == sent[handled + 1]
         text == message.text \o Payload(handled + 1)
     IN  /\ Acceptable(f)
         /\ message' = IF f.fin THEN NoMessage ELSE [opcode |-> Kind(f), text |-> text]
         /\ pongs' = IF Kind(f) = Ping THEN pongs + 1 ELSE pongs
         /\ open' = (Kind(f) # Close)
         /\ IF Publishes(f) THEN Publish(text, Channels) ELSE UNCHANGED published
  /\ handled' = handled + 1
  /\ UNCHANGED sent

(* Without memory for the message of one more channel the connection ends. *)
PublishInSome ==
  /\ open
  /\ handled < Len(sent)
  /\ LET f == sent[handled + 1] IN
     /\ Acceptable(f) /\ Publishes(f)
     /\ \E some \in SUBSET Channels :
          Publish(message.text \o Payload(handled + 1), some)
  /\ open' = FALSE
  /\ UNCHANGED <<sent, handled, message, pongs>>

(* The connection may end at any time, and what is in hand is given up.    *)
End ==
  /\ open' = FALSE
  /\ UNCHANGED <<sent, handled, message, published, pongs>>

Init ==
  /\ handled = 0
  /\ message = NoMessage
  /\ published = [c \in Channels |-> <<>>]
  /\ pongs = 0
  /\ open = TRUE

Next == Handle \/ PublishInSome \/ End

Spec == Init /\ [][Next]_vars
=============================================================================

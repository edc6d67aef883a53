--------------------------- MODULE WebSocketReader ---------------------------
(***************************************************************************)
(* A WebSocket subscriber: the handshake and the reader of the frames that *)
(* the client sends, byte by byte as they arrive.                          *)
(*                                                                         *)
(* The reader is a state machine (frame->step) run by the read event of    *)
(* the connection. It asks the socket for exactly the bytes that the step  *)
(* lacks and, if they are not all there, returns to the event loop with    *)
(* what it has in frame->buf. After a whole frame it returns, too.         *)
(*                                                                         *)
(* A byte is known by the frame that it is of, its part and its place; the *)
(* set "key" holds the bytes of the mask it is XORed with. What the client *)
(* sends is chosen at the start, and arrives in pieces of any size.        *)
(***************************************************************************)
EXTENDS Naturals, Sequences, FiniteSets

CONSTANTS
  Streams,        \* the sequences of frames that a client may send
  Subscriptions,  \* the channels of the connection, in the order of the request
  EventsChannel,  \* data->events_channel
  AllowPublish,   \* push_stream_websocket_allow_publish
  EdgeTriggered   \* TRUE for epoll and kqueue, as nginx uses them, FALSE for poll

Channels == {Subscriptions[i] : i \in DOMAIN Subscriptions} \ {EventsChannel}

(* The frames: the 7 bits of the header have a length up to 125, or say     *)
(* that it is in 2 or 8 more bytes; any length may be put there.           *)
Frame == {f \in [fin : BOOLEAN, opcode : 0..15, mask : BOOLEAN, form : {7, 16, 64},
                 len : Nat, utf8 : BOOLEAN] : f.form = 7 => f.len <= 125}

ASSUME StreamsAssumption == Streams \subseteq Seq(Frame)
ASSUME FlagsAssumption == AllowPublish \in BOOLEAN /\ EdgeTriggered \in BOOLEAN

VARIABLES
  sent,        \* the frames of the client
  stream,      \* their bytes
  arrived,     \* how many bytes of them have reached the socket
  taken,       \* how many the reader has taken from it
  eof,         \* the client has closed its side
  edge,        \* something has arrived since the last read event
  handler,     \* "request", then "idle" or "reading", at last "finalized"
  step,        \* frame->step
  opcode,      \* the fields of frame that outlive a step
  mask, mask_key, payload_len, fragmented, last_fragment,
  buf,         \* the bytes from frame->buf.start to frame->buf.last
  payload,     \* frame->payload is allocated: buf is a part of it
  consolidated,
  temp_pool,   \* ctx->temp_pool exists
  handled,     \* history: the frames read to their end
  begun,       \* history: a part of a message is in consolidated, even empty
  published,   \* history: published[c]: the texts given to channel c
  pongs        \* history: the pongs sent

client  == <<sent, stream>>
socket  == <<client, arrived, taken, eof, edge>>
header  == <<opcode, mask, mask_key, payload_len>>
parts   == <<fragmented, last_fragment, consolidated>>
history == <<handled, begun, published, pongs>>
vars    == <<socket, handler, step, header, buf, payload, parts, temp_pool, history>>

----------------------------------------------------------------------------
Continuation == 0
Text == 1
Close == 8
Ping == 9
Pong == 10

Byte(i, part, at, key) == [frame |-> i, part |-> part, at |-> at, key |-> key]

MaskByte(i, at) == Byte(i, "mask", at, {})

(* The bytes of the length that are not in the header.                     *)
Extension(f) == CASE f.form = 7 -> 0 [] f.form = 16 -> 2 [] f.form = 64 -> 8

(* The bytes of the i-th frame f.                                          *)
Wire(f, i) ==
  [at \in 1..2 |-> Byte(i, "header", at, {})]
  \o [at \in 1..Extension(f) |-> Byte(i, "length", at, {})]
  \o (IF f.mask THEN [at \in 1..4 |-> MaskByte(i, at)] ELSE <<>>)
  \o [at \in 1..f.len |-> Byte(i, "payload", at,
        IF f.mask THEN {MaskByte(i, ((at - 1) % 4) + 1)} ELSE {})]

(* The place where the n-th frame ends, and all of them in a row.          *)
EndOf(frames, n) == Cardinality(UNION {{i} \X DOMAIN Wire(frames[i], i) : i \in 1..n})

Stream(frames) ==
  [p \in 1..EndOf(frames, Len(frames)) |->
     LET i == CHOOSE i \in DOMAIN frames : EndOf(frames, i - 1) < p /\ p <= EndOf(frames, i)
     IN  Wire(frames[i], i)[p - EndOf(frames, i - 1)]]

(* What the bytes of a header or of a length say.                          *)
FrameOf(b) == sent[b.frame]

ShortLength(f) == CASE f.form = 7 -> f.len [] f.form = 16 -> 126 [] OTHER -> 127

Xor(S, T) == (S \ T) \cup (T \ S)

Unmask(bytes) ==
  [k \in DOMAIN bytes |->
     [bytes[k] EXCEPT !.key = Xor(@, {mask_key[((k - 1) % 4) + 1]})]]

----------------------------------------------------------------------------
(* ngx_http_push_stream_recv: the bytes that the step wants, what it has   *)
(* of them, and what the socket has.                                       *)
Wanted ==
  CASE step = "START"     -> 2
    [] step = "REAL_SIZE" -> IF payload_len = 126 THEN 2 ELSE 8
    [] step = "MASK_KEY"  -> 4
    [] step = "PAYLOAD"   -> payload_len

(* The payload is allocated, and frame->buf is set to it, on first use.    *)
Buffer == IF step = "PAYLOAD" /\ ~payload THEN <<>> ELSE buf

(* Mutant: a part that was read before is not taken into account.          *)
RoomForAll == Wanted

Room == Wanted - Len(Buffer)

Available == arrived - taken

Filled(n) == Buffer \o SubSeq(stream, taken + 1, taken + n)

(* Mutant: <= for < in the test of what is still missing.                  *)
CanOverfill == Available > Room

CanFill == Available >= Room

Take(n) == taken' = taken + n

Supported == {Text, Close, Ping, Pong}
Unsupported == step = "PAYLOAD" /\ opcode \notin Supported

Reading == handler = "reading" /\ ~Unsupported

(* ngx_http_push_stream_cleanup_request_context and the end of the request. *)
Finalize ==
  /\ handler' = "finalized"
  /\ temp_pool' = FALSE
  /\ UNCHANGED <<step, header, buf, payload, parts>>

----------------------------------------------------------------------------
Init ==
  /\ sent \in Streams /\ stream = Stream(sent)
  /\ arrived = 0 /\ taken = 0
  /\ eof = FALSE /\ edge = FALSE
  /\ handler = "request"
  /\ step = "START"
  /\ opcode = 0 /\ mask = FALSE /\ mask_key = <<>> /\ payload_len = 0
  /\ fragmented = FALSE /\ last_fragment = FALSE /\ consolidated = <<>>
  /\ buf = <<>> /\ payload = FALSE /\ temp_pool = FALSE
  /\ handled = 0 /\ begun = FALSE
  /\ published = [c \in Channels |-> <<>>]
  /\ pongs = 0

(* The client: its bytes come in any pieces; it may close its side.        *)
Arrive ==
  /\ ~eof
  /\ arrived' \in (arrived + 1)..Len(stream)
  /\ edge' = TRUE
  /\ UNCHANGED <<client, taken, eof, handler, step, header, buf, payload, parts, temp_pool, history>>

CloseByClient ==
  /\ ~eof
  /\ eof' = TRUE /\ edge' = TRUE
  /\ UNCHANGED <<client, arrived, taken, handler, step, header, buf, payload, parts, temp_pool, history>>

(* The handler of the request answers 101, registers the subscriber in its *)
(* channels and leaves the connection to the read event, or refuses.       *)
Handshake ==
  /\ handler = "request"
  /\ handler' \in {"idle", "finalized"}
  /\ UNCHANGED <<socket, step, header, buf, payload, parts, temp_pool, history>>

Readable == IF EdgeTriggered THEN edge ELSE Available > 0 \/ eof

ReadEvent ==
  /\ handler = "idle"
  /\ Readable
  /\ handler' = "reading"
  /\ edge' = FALSE
  /\ UNCHANGED <<client, arrived, taken, eof, step, header, buf, payload, parts, temp_pool, history>>

(* exit, with NGX_AGAIN: the bytes that the step wants are not all there.  *)
ReadAgain ==
  /\ Reading
  /\ ~CanFill
  /\ Available > 0 \/ ~eof
  /\ Take(Available)
  /\ buf' = Filled(Available)
  /\ payload' = (payload \/ step = "PAYLOAD")
  /\ temp_pool' = (temp_pool \/ step = "PAYLOAD")
  /\ handler' = "idle"
  /\ UNCHANGED <<client, arrived, eof, edge, step, header, parts, history>>

(* Mutant: the end of the stream is taken for "nothing to read now".       *)
ReadEndAgain ==
  /\ Reading
  /\ Room > 0 /\ Available = 0 /\ eof
  /\ handler' = "idle"
  /\ UNCHANGED <<socket, step, header, buf, payload, parts, temp_pool, history>>

(* recv returns 0 when the client has closed and all is read.              *)
ReadEnd ==
  /\ Reading
  /\ Room > 0 /\ Available = 0 /\ eof
  /\ Finalize
  /\ UNCHANGED <<socket, history>>

(* Mutant: a whole frame is let through between two fragments.             *)
OutOfSequenceAtStart(f) == f.opcode = Continuation /\ ~fragmented

OutOfSequence(f) ==
  \/ f.opcode = Continuation /\ ~fragmented
  \/ f.opcode # Continuation /\ f.fin /\ fragmented

LengthStep(len, masked) ==
  IF len \in {126, 127} THEN "REAL_SIZE" ELSE IF masked THEN "MASK_KEY" ELSE "PAYLOAD"

ReadStart ==
  /\ Reading /\ step = "START" /\ CanFill
  /\ Take(Room)
  /\ LET bytes == Filled(Room)
         f == FrameOf(bytes[1])
         g == FrameOf(bytes[2])
     IN  IF OutOfSequence(f) THEN Finalize
         ELSE /\ fragmented' = (fragmented \/ ~f.fin)
              /\ last_fragment' = (last_fragment \/ f.fin)
              /\ opcode' = IF fragmented THEN opcode ELSE f.opcode
              /\ mask' = g.mask
              /\ payload_len' = ShortLength(g)
              /\ step' = LengthStep(ShortLength(g), g.mask)
              /\ buf' = IF step' = "PAYLOAD" THEN bytes ELSE <<>>
              /\ UNCHANGED <<handler, mask_key, payload, consolidated, temp_pool>>
  /\ UNCHANGED <<client, arrived, eof, edge, history>>

ReadRealSize ==
  /\ Reading /\ step = "REAL_SIZE" /\ CanFill
  /\ Take(Room)
  /\ payload_len' = FrameOf(Filled(Room)[1]).len
  /\ step' = IF mask THEN "MASK_KEY" ELSE "PAYLOAD"
  /\ buf' = IF mask THEN <<>> ELSE Filled(Room)
  /\ UNCHANGED <<client, arrived, eof, edge, handler, opcode, mask, mask_key, payload, parts,
                 temp_pool, history>>

ReadMaskKey ==
  /\ Reading /\ step = "MASK_KEY" /\ CanFill
  /\ Take(Room)
  /\ mask_key' = Filled(Room)
  /\ buf' = Filled(Room)
  /\ step' = "PAYLOAD"
  /\ UNCHANGED <<client, arrived, eof, edge, handler, opcode, mask, payload_len, payload, parts,
                 temp_pool, history>>

Reject ==
  /\ handler = "reading" /\ Unsupported
  /\ Finalize
  /\ UNCHANGED <<socket, history>>

Unmasked(bytes) == IF mask THEN Unmask(bytes) ELSE bytes

(* The text so far, with the payload that has just been read.              *)
Joined(bytes) == IF fragmented THEN consolidated \o Unmasked(bytes) ELSE Unmasked(bytes)

Utf8(bytes) == bytes # <<>> => FrameOf(bytes[1]).utf8

Publishes == AllowPublish /\ last_fragment /\ opcode = Text /\ payload_len > 0

PublishIn(text, channels) ==
  published' = [c \in Channels |-> IF c \in channels THEN Append(published[c], text)
                                   ELSE published[c]]

(* Mutant: the pool lives for one frame.                                   *)
KeepsNoPool == FALSE

(* The pool is created for a payload, and destroyed after the last part.   *)
KeepsPool == (temp_pool \/ payload_len > 0) /\ ~last_fragment

(* After the frame: what belongs to the message goes with its last part.   *)
EndFrame(text) ==
  /\ fragmented' = (fragmented /\ ~last_fragment)
  /\ last_fragment' = FALSE
  /\ consolidated' = IF last_fragment THEN <<>> ELSE text
  /\ begun' = ~last_fragment
  /\ temp_pool' = (KeepsPool /\ opcode # Close)
  /\ step' = "START"
  /\ payload' = FALSE
  /\ buf' = <<>>
  /\ handled' = handled + 1
  /\ pongs' = IF opcode = Ping THEN pongs + 1 ELSE pongs
  /\ handler' = IF opcode = Close THEN "finalized" ELSE "idle"
  /\ UNCHANGED header

(* The parts so far and this one are copied to where both have room.       *)
NeedsMoreMemory(bytes) == fragmented /\ consolidated # <<>> /\ bytes # <<>>

ReadPayload ==
  /\ Reading /\ step = "PAYLOAD" /\ CanFill
  /\ Take(Room)
  /\ LET bytes == Filled(Room)
         text == Joined(bytes)
     IN  \/ /\ Utf8(bytes)
            /\ IF Publishes THEN PublishIn(text, Channels) ELSE UNCHANGED published
            /\ EndFrame(text)
         \/ /\ Utf8(bytes) /\ Publishes
            /\ \E n \in 0..(Len(Subscriptions) - 1) :
                 PublishIn(text, {Subscriptions[i] : i \in 1..n})
            /\ Finalize
            /\ UNCHANGED <<handled, begun, pongs>>
         \/ /\ ~Utf8(bytes) \/ NeedsMoreMemory(bytes)
            /\ Finalize
            /\ UNCHANGED history
  /\ UNCHANGED <<client, arrived, eof, edge>>

(* Neither the temporary pool nor the payload can be allocated.            *)
OutOfMemory ==
  /\ Reading /\ step = "PAYLOAD" /\ payload_len > 0
  /\ Finalize
  /\ UNCHANGED <<socket, history>>

(* A timer, the deletion of the channel or a reload ends the connection.   *)
Disconnect ==
  /\ handler = "idle"
  /\ Finalize
  /\ UNCHANGED <<socket, history>>

Read ==
  \/ ReadEvent \/ ReadAgain \/ ReadEnd \/ ReadStart \/ ReadRealSize \/ ReadMaskKey
  \/ ReadPayload \/ Reject

Next ==
  \/ Arrive \/ CloseByClient \/ Handshake \/ Read \/ OutOfMemory \/ Disconnect

Spec == Init /\ [][Next]_vars

(* The event loop comes back to a connection that has an event, and a      *)
(* handler that began goes on. The client need not send anything.          *)
Fairness == WF_vars(Read) /\ WF_vars(Handshake)

FairSpec == Spec /\ Fairness

----------------------------------------------------------------------------
(* TypeOK: besides the types, the reader never has more bytes in its buffer *)
(* than the step asked for, nor takes more than has arrived (recv).        *)
TypeOK ==
  /\ sent \in Streams /\ stream = Stream(sent)
  /\ taken \in Nat /\ arrived \in taken..Len(stream)
  /\ {eof, edge, mask, fragmented, last_fragment, payload, temp_pool, begun} \subseteq BOOLEAN
  /\ handler \in {"request", "idle", "reading", "finalized"}
  /\ step \in {"START", "REAL_SIZE", "MASK_KEY", "PAYLOAD"}
  /\ opcode \in 0..15 /\ {payload_len, handled, pongs} \subseteq Nat
  /\ handled <= Len(sent)
  /\ Len(mask_key) \in {0, 4}
  /\ Len(Buffer) <= Wanted
  /\ DOMAIN published = Channels

(* PartsAreKept: as long as the connection is up, the memory of the parts  *)
(* of a message that is not complete, and of a payload that is being read, *)
(* is not given back, however many events and other frames come in between *)
(* (websocket.c:315 and 387).                                              *)
PartsAreKept ==
  handler # "finalized" /\ (payload \/ consolidated # <<>>) => temp_pool

(* The bytes of a text, once clear, are those of the payloads.             *)
Clear(text) ==
  [k \in DOMAIN text |-> IF text[k].part = "payload" /\ text[k].key = {}
                         THEN <<text[k].frame, text[k].at>> ELSE <<>>]

Messages == INSTANCE WebSocketMessages WITH
  message   <- IF begun
               THEN [opcode |-> opcode, text |-> Clear(consolidated)]
               ELSE [opcode |-> Continuation, text |-> <<>>],
  published <- [c \in Channels |-> [n \in DOMAIN published[c] |-> Clear(published[c][n])]],
  open      <- handler # "finalized"

(* ImplementsMessages: however the bytes are cut, the reader takes the     *)
(* frames one after the other, whole, and publishes the texts that they    *)
(* make, unmasked and joined, in all the channels of the connection.       *)
ImplementsMessages == Messages!Spec

(* The reader has caught up with what has arrived, and waits in the middle *)
(* of a frame that has not; when the client closes its side there is       *)
(* nothing to wait for, and the connection ends.                           *)
CaughtUp == handler = "idle" /\ taken = arrived /\ Room > 0 /\ ~eof

FramesAreRead == []<>(CaughtUp \/ handler = "finalized")

(* The client sends a frame, or closes its side, when the one before has   *)
(* been read: nothing that is there when the handler returns after a frame *)
(* (websocket.c:403) is for a later event.                                 *)
Spaced ==
  /\ handled < Len(sent) => arrived <= EndOf(sent, handled + 1)
  /\ eof => Available = 0

(* SpacedFramesAreRead: the frames of such a client, cut into pieces of    *)
(* any size that arrive before, between and while the handler runs, are    *)
(* all read, with edge-triggered events too, and its close ends the        *)
(* connection: no event is used up for less than it brought. Of any other  *)
(* client FramesAreRead would be false: the reader returns with a whole    *)
(* frame, or the close, left in the socket, and no event tells it.         *)
SpacedFramesAreRead == []Spaced => FramesAreRead
=============================================================================

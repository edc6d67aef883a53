------------------------- MODULE MCWebSocketReader -------------------------
(* Small instances of WebSocketReader for TLC.                             *)
EXTENDS WebSocketReader

MCSubscriptions == <<"c1", "events", "c2">>

Make(last, kind, masked, form, len) ==
  [fin |-> last, opcode |-> kind, mask |-> masked, form |-> form, len |-> len, utf8 |-> TRUE]

Whole == Make(TRUE, Text, TRUE, 7, 2)
First == Make(FALSE, Text, TRUE, 7, 1)
Middle == Make(FALSE, Continuation, FALSE, 7, 0)
Final == Make(TRUE, Continuation, TRUE, 16, 2)
EmptyFinal == Make(TRUE, Continuation, FALSE, 7, 0)

(* Whole frames and fragments of all kinds.                                *)
MCFrames == {
  Whole, First, Middle, Final, EmptyFinal,
  Make(TRUE, Text, FALSE, 16, 1),
  [Make(TRUE, Continuation, FALSE, 64, 1) EXCEPT !.utf8 = FALSE],
  Make(TRUE, Ping, FALSE, 7, 0), Make(FALSE, Ping, FALSE, 7, 1),
  Make(TRUE, Pong, FALSE, 7, 0), Make(TRUE, Close, FALSE, 7, 0),
  Make(TRUE, 2, FALSE, 7, 1)}

(* All pairs of frames, and a text in two or three parts with a neighbour. *)
MCStreams ==
  [1..2 -> MCFrames]
  \cup {First} \X {Middle, First, Make(TRUE, Ping, FALSE, 7, 0)} \X {Final, EmptyFinal}
  \cup {First} \X {Final, EmptyFinal} \X {Whole, First, Final}
  \cup {Whole} \X {First} \X {Final, Middle}
============================================================================

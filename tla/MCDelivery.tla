----------------------------- MODULE MCDelivery -----------------------------
(* Small instances of Delivery for TLC.                                    *)
EXTENDS Delivery, TLC

CONSTANTS c1, c2  \* the clients

Make(first, second, stored, messages) ==
  [mode |-> (c1 :> first @@ c2 :> second), stored |-> stored, messages |-> messages]

(* A long poll and a stream in a channel that keeps one message; a poller  *)
(* in one that keeps two of four.                                          *)
MCScenarios == {Make("long poll", "stream", 1, 2), Make("poll", "away", 2, 4)}

MCLongPolls == {Make("long poll", "away", 1, 3)}

Symmetry == Permutations(Workers)
=============================================================================

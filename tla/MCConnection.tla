---------------------------- MODULE MCConnection ----------------------------
(* A stream and a long poll of two channels, other long polls of one.      *)
EXTENDS Connection

CONSTANTS r1, r2, chan_a, chan_b

MCMode == [r \in Requests |-> IF r = r1 THEN "stream" ELSE "long poll"]
MCWanted ==
  [r \in Requests |-> IF r \in {r1, r2} THEN <<chan_a, chan_b>> ELSE <<chan_a>>]
=============================================================================

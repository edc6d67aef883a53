------------------------ MODULE MCChannelLifecycle ------------------------
(* Small instances of ChannelLifecycle for TLC. Workers, requests and the *)
(* records other than that of the events channel are interchangeable; the *)
(* configurations that check liveness leave the symmetry out.             *)
EXTENDS ChannelLifecycle, TLC

Symmetry ==
  Permutations(Workers) \cup Permutations(Requests)
    \cup Permutations(Channels \ {EventsChannel})
===========================================================================

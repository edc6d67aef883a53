-------------------------- MODULE MCWorkerQueue --------------------------
(* Small instances of WorkerQueue for TLC. The configurations that check  *)
(* liveness leave the symmetry out.                                       *)
EXTENDS WorkerQueue, TLC

Symmetry == Permutations(Workers) \cup Permutations(Channels) \cup Permutations(Messages)
===========================================================================

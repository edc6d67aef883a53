------------------------- MODULE MCMessageMemory -------------------------
(* A small instance of MessageMemory for TLC.                            *)
EXTENDS MessageMemory, TLC

Symmetry == Permutations(Workers) \cup Permutations(Messages)
============================================================================

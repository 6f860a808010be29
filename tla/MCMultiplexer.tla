----------------------------- MODULE MCMultiplexer -----------------------------
(* Multiplexer with two streams and two senders.  BatcherIds has as many   *)
(* members as Batchers can be created at once for the bounds to matter.      *)
EXTENDS Multiplexer, TLC

Symmetry == Permutations(Streams) \cup Permutations(Senders) \cup Permutations(BatcherIds)
================================================================================

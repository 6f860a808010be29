------------------------------- MODULE MCBalancer -------------------------------
(* Balancer on small instances: a counter of a few values instead of 2^32.   *)
EXTENDS Balancer, TLC

Symmetry == Permutations(Procs) \cup Permutations(Streams)
================================================================================

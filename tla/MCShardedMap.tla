------------------------------ MODULE MCShardedMap ------------------------------
(* ShardedMap with two shards; keys 1 and 3 share a shard, key 2 does not.   *)
EXTENDS ShardedMap, TLC

Symmetry == Permutations(Procs) \cup Permutations(Vals)
================================================================================

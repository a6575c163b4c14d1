----------------------------- MODULE MCShardMap -----------------------------
(* Two of the three keys share a shard.                                     *)
EXTENDS ShardMap

MCKeys == {1, 2, 3}
MCShardKeyFunc == [k \in MCKeys |-> k % 2]
=============================================================================

-------------------------- MODULE MCMemoryEvictor --------------------------
(***************************************************************************)
(* TLC instance of MemoryEvictor: a few keys on two shards.                *)
(***************************************************************************)
EXTENDS MemoryEvictor, TLC

CONSTANTS a, b, c

\* Two keys on the first shard, one on the second.
ThreeKeys == {a, b, c}
ThreeShardOf == (a :> 0) @@ (b :> 0) @@ (c :> 1)
=============================================================================

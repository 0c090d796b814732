---------------------------- MODULE MCTtlSampler ----------------------------
(***************************************************************************)
(* TLC instance of TtlSampler: two keys on one shard, one on another.      *)
(***************************************************************************)
EXTENDS TtlSampler, TLC

CONSTANTS a, b, c

ThreeKeys == {a, b, c}
ThreeShardOf == (a :> 0) @@ (b :> 0) @@ (c :> 1)
=============================================================================

------------------------------ MODULE MCLuaTxn ------------------------------
(***************************************************************************)
(* TLC instances of LuaTxn: two keys in different shards, and a third that *)
(* shares the shard of the first.                                          *)
(***************************************************************************)
EXTENDS LuaTxn, TLC

CONSTANTS k1, k2, k3, v1, v2

ThreeShardOf == (k1 :> 0) @@ (k2 :> 1) @@ (k3 :> 0)
TwoSizes == (v1 :> 1) @@ (v2 :> 3)

Get(k) == [op |-> "GET", key |-> k]
Set(k, v) == [op |-> "SET", key |-> k, value |-> v, nx |-> FALSE]
SetNX(k, v) == [op |-> "SET", key |-> k, value |-> v, nx |-> TRUE]
Take(k) == [op |-> "TAKE", key |-> k]
MSet(pairs) == [op |-> "MSET", pairs |-> pairs]
Error == [op |-> "ERROR"]
Plain(keys, calls) == [keys |-> keys, calls |-> calls, guarded |-> FALSE]
Guarded(keys, calls) == [keys |-> keys, calls |-> calls, guarded |-> TRUE]

\* Reads and writes across shards with the keys declared in either order, a
\* key that is written twice and taken, a script that fails after a write, one
\* that touches a key it did not declare, one that survives doing so, and one with
\* a conditional SET and an MSET that fails on the way.
Scripts ==
  { Plain(<<k1, k2>>, <<Get(k1), Set(k2, v2), Get(k2)>>),
    Plain(<<k2, k1, k3>>, <<Get(k2), MSet(<< <<k1, v1>>, <<k2, v1>> >>)>>),
    Plain(<<k1>>, <<Set(k1, v2), Take(k1), Take(k3), Set(k1, v1)>>),
    Plain(<<k2>>, <<Set(k2, v1), Error>>),
    Plain(<<k1>>, <<Set(k1, v2), Get(k2)>>),
    Guarded(<<k1>>, <<Set(k2, v2), Set(k1, v2)>>),
    Guarded(<<k1>>, <<SetNX(k1, v1), MSet(<< <<k3, v1>>, <<k2, v1>> >>)>>),
    Plain(<<>>, <<>>) }
=============================================================================

---------------------------- MODULE RecencyOrder ----------------------------
(***************************************************************************)
(* The abstract specification of the LRU policy: the tracked keys in the   *)
(* order of their last use.  It is what EvictionPolicy's operators do to   *)
(* the order; LruNode implements it with a pointer list.                   *)
(***************************************************************************)
EXTENDS EvictionPolicy, SequencesExt

CONSTANT Key

VARIABLE order

Use(k) == order' = Append(Without(order, k), k)

Forget(k) == Contains(order, k) /\ order' = Without(order, k)

Init == order = <<>>

Next == \E k \in Key : Use(k) \/ Forget(k)

Spec == Init /\ [][Next]_order
=============================================================================

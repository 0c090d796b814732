----------------------------- MODULE MCLruNode -----------------------------
(***************************************************************************)
(* TLC instance of LruNode, and the mapping under which it implements      *)
(* RecencyOrder: walk the list from head along the next pointers.          *)
(***************************************************************************)
EXTENDS LruNode

\* The i-th node of the list.
NodeAt[i \in 1 .. Cardinality(Node)] ==
  IF i = 1 THEN head
  ELSE IF NodeAt[i - 1] \in DOMAIN heap THEN heap[NodeAt[i - 1]].next ELSE NoNode

ListOrder ==
  [i \in 1 .. Cardinality({j \in DOMAIN NodeAt : NodeAt[j] \in DOMAIN heap}) |->
     heap[NodeAt[i]].key]

Recency == INSTANCE RecencyOrder WITH order <- ListOrder, MaxFreq <- 255

\* The pointer list implements the recency order: every policy call moves,
\* adds or removes exactly the key it names, at the place LRU gives it.
ImplementsRecencyOrder == Recency!Spec
=============================================================================

------------------------------ MODULE LruNode ------------------------------
(***************************************************************************)
(* The LRU eviction policy of one shard: the hand-written doubly linked    *)
(* list of lru_linklist.rs (raw NonNull<Node> pointers, Box::into_raw and  *)
(* Box::from_raw) and the index that lru_struct.rs keeps over it.          *)
(*                                                                         *)
(* Every call runs under the Mutex of MemoryCacheNode, so each trait       *)
(* method is one step.  A pointer is an address of Node, the heap maps the *)
(* addresses that are allocated to their nodes, and the allocator may      *)
(* hand out any free address, one that was freed before included.          *)
(*                                                                         *)
(* A definition whose name extends the name of the one below it is a       *)
(* deliberately wrong variant, kept to show that a property notices it.    *)
(***************************************************************************)
EXTENDS Integers, Sequences, FiniteSets

CONSTANTS Key,      \* the keys of the shard (Arc<String>)
          Node,     \* the addresses Box::new may return
          NoNode    \* Option::None, for a pointer

ASSUME NoNodeAssumption == NoNode \notin Node

VARIABLES heap,         \* address -> [key, prev, next], for the allocated ones
          head, tail,   \* LruList::head, LruList::tail
          len,          \* LruList::len
          sample_keys,  \* LruNode::sample_keys
          map_key,      \* LruNode::map_key: key -> [lru_node, sample_idx]
          alive,        \* FALSE once the list is being dropped
          older         \* history: older[k] is the set of the tracked keys that
                        \* were used less recently than k ({} if k is not tracked)

vars == <<heap, head, tail, len, sample_keys, map_key, alive, older>>

Pointer == Node \cup {NoNode}

TypeOK ==
  /\ DOMAIN heap \subseteq Node
  /\ heap \in [DOMAIN heap -> [key : Key, prev : Pointer, next : Pointer]]
  /\ head \in Pointer /\ tail \in Pointer
  /\ len \in Nat
  /\ sample_keys \in Seq(Key)
  /\ DOMAIN map_key \subseteq Key
  /\ map_key \in [DOMAIN map_key -> [lru_node : Node, sample_idx : Nat]]
  /\ alive \in BOOLEAN
  /\ older \in [Key -> SUBSET Key]

Init ==
  /\ heap = [n \in {} |-> n]
  /\ head = NoNode /\ tail = NoNode
  /\ len = 0
  /\ sample_keys = <<>>
  /\ map_key = [k \in {} |-> k]
  /\ alive = TRUE
  /\ older = [k \in Key |-> {}]

-----------------------------------------------------------------------------
(* LruList *)

\* push_back: a new node for key k behind the tail.
push_back(n, k) ==
  /\ heap' = [m \in DOMAIN heap \cup {n} |->
                IF m = n
                THEN [key |-> k,
                      prev |-> IF head = NoNode THEN NoNode ELSE tail,
                      next |-> NoNode]
                ELSE [key |-> heap[m].key,
                      prev |-> heap[m].prev,
                      next |-> IF head # NoNode /\ m = tail THEN n ELSE heap[m].next]]
  /\ head' = IF head = NoNode THEN n ELSE head
  /\ tail' = n
  /\ len' = len + 1

\* The writes with which push_mid_back and pop_node take node n out of the
\* chain: its neighbours are linked to each other, head and tail step over it.
UnlinkedHeap_one_way(n) ==
  [m \in DOMAIN heap |->
     IF m = heap[n].prev THEN [heap[m] EXCEPT !.next = heap[n].next] ELSE heap[m]]

UnlinkedHeap(n) ==
  [m \in DOMAIN heap |->
     [key  |-> heap[m].key,
      prev |-> IF m = heap[n].next THEN heap[n].prev ELSE heap[m].prev,
      next |-> IF m = heap[n].prev THEN heap[n].next ELSE heap[m].next]]

UnlinkedHead_prev(n) == IF heap[n].prev = NoNode THEN heap[n].next ELSE heap[n].prev

UnlinkedHead(n) == IF heap[n].prev = NoNode THEN heap[n].next ELSE head

UnlinkedTail_kept(n) == tail

UnlinkedTail(n) == IF heap[n].next = NoNode THEN heap[n].prev ELSE tail

push_mid_back_skipped(n) == UNCHANGED <<heap, head, tail, len>>

\* push_mid_back: move an existing node behind the tail.
push_mid_back(n) ==
  /\ \/ /\ n = tail
        /\ UNCHANGED <<heap, head, tail>>
     \/ /\ n # tail
        /\ LET t == UnlinkedTail(n)
               u == UnlinkedHeap(n)
           IN  heap' = IF t = NoNode THEN u
                       ELSE [m \in DOMAIN heap |->
                               [key  |-> u[m].key,
                                prev |-> IF m = n THEN t ELSE u[m].prev,
                                next |-> IF m = n THEN NoNode
                                         ELSE IF m = t THEN n ELSE u[m].next]]
        /\ head' = UnlinkedHead(n)
        /\ tail' = n
  /\ UNCHANGED len

\* pop_node: unlink a node and free it.  len is decremented with saturating_sub.
pop_node(n) ==
  /\ heap' = [m \in DOMAIN heap \ {n} |-> UnlinkedHeap(n)[m]]
  /\ head' = UnlinkedHead(n)
  /\ tail' = UnlinkedTail(n)
  /\ len' = IF len > 0 THEN len - 1 ELSE 0

\* pop_front: free the head node; the node behind it becomes the head.
pop_front ==
  /\ head # NoNode
  /\ LET second == heap[head].next
     IN  /\ heap' = [m \in DOMAIN heap \ {head} |->
                       [key  |-> heap[m].key,
                        prev |-> IF m = second THEN NoNode ELSE heap[m].prev,
                        next |-> heap[m].next]]
         /\ head' = second
         /\ tail' = IF second = NoNode THEN NoNode ELSE tail
         /\ len' = len - 1

-----------------------------------------------------------------------------
(* LruNode: impl EvictionPolicy *)

Tracked == DOMAIN map_key

\* History: key k is used now.
Used(k) ==
  older' = [x \in Key |-> IF x = k THEN Tracked \ {k} ELSE older[x] \ {k}]

\* History: key k is forgotten.
Forgotten(k) ==
  older' = [x \in Key |-> IF x = k THEN {} ELSE older[x] \ {k}]

NewMeta_off_by_one(n) == [lru_node |-> n, sample_idx |-> Len(sample_keys) - 1]

\* The MetaPointers of a key that is pushed on the sample array.
NewMeta(n) == [lru_node |-> n, sample_idx |-> Len(sample_keys)]

\* on_write: a key that is not tracked gets a node, a place in the sample array
\* and an entry of the map; for a tracked key only its node moves.
on_write(k) ==
  /\ alive
  /\ \/ /\ k \notin Tracked
        /\ \E n \in Node \ DOMAIN heap :
             /\ push_back(n, k)
             /\ map_key' = [x \in Tracked \cup {k} |->
                              IF x = k THEN NewMeta(n) ELSE map_key[x]]
        /\ sample_keys' = Append(sample_keys, k)
     \/ /\ k \in Tracked
        /\ push_mid_back(map_key[k].lru_node)
        /\ UNCHANGED <<sample_keys, map_key>>
  /\ Used(k)
  /\ UNCHANGED alive

\* on_read: a key that is not tracked is ignored.
on_read(k) ==
  /\ alive
  /\ k \in Tracked
  /\ push_mid_back(map_key[k].lru_node)
  /\ Used(k)
  /\ UNCHANGED <<sample_keys, map_key, alive>>

shift_remove(s, i) == [j \in 1 .. Len(s) - 1 |-> IF j <= i THEN s[j] ELSE s[j + 1]]

\* Vec::swap_remove(i), i counted from 0: the last element takes the place of
\* the one removed.
swap_remove(s, i) ==
  [j \in 1 .. Len(s) - 1 |-> IF j = i + 1 THEN s[Len(s)] ELSE s[j]]

\* on_delete: the key leaves the map, the list and the sample array; the key
\* that swap_remove moved gets its new index.
on_delete(k) ==
  /\ alive
  /\ k \in Tracked
  /\ pop_node(map_key[k].lru_node)
  /\ LET i == map_key[k].sample_idx
         s == swap_remove(sample_keys, i)
     IN  /\ sample_keys' = s
         /\ map_key' = [x \in Tracked \ {k} |->
                          IF i < Len(s) /\ x = s[i + 1]
                          THEN [lru_node |-> map_key[x].lru_node, sample_idx |-> i]
                          ELSE map_key[x]]
  /\ Forgotten(k)
  /\ UNCHANGED alive

\* pop_victim: only looks at the front of the list.
pop_victim == heap[head].key

\* Drop of the list (LruNode is dropped field by field, the list first): one
\* pop_front after the other until the list is empty.
drop ==
  /\ alive' = FALSE
  /\ pop_front
  /\ Forgotten(heap[head].key)
  /\ UNCHANGED <<sample_keys, map_key>>

Next ==
  \/ \E k \in Key : on_write(k) \/ on_read(k) \/ on_delete(k)
  \/ drop

Spec == Init /\ [][Next]_vars

-----------------------------------------------------------------------------
(* Properties *)

\* Every pointer the code may follow (head, tail, the links of the allocated
\* nodes and, until the drop, the pointers of map_key) is to an allocated node:
\* nothing is used after Box::from_raw freed it, and nothing is freed twice.
NoDanglingPointer ==
  /\ {head, tail} \subseteq DOMAIN heap \cup {NoNode}
  /\ \A n \in DOMAIN heap : {heap[n].prev, heap[n].next} \subseteq DOMAIN heap \cup {NoNode}
  /\ alive => \A k \in Tracked : map_key[k].lru_node \in DOMAIN heap

\* The links agree in both directions, the ends of the chain are head and tail,
\* and an empty list owns no node (dropping the list leaks nothing).
Linked ==
  /\ \A n \in DOMAIN heap :
       /\ heap[n].prev = NoNode <=> n = head
       /\ heap[n].next = NoNode <=> n = tail
       /\ heap[n].prev # NoNode => heap[heap[n].prev].next = n
       /\ heap[n].next # NoNode => heap[heap[n].next].prev = n
  /\ head = NoNode <=> DOMAIN heap = {}
  /\ tail = NoNode <=> DOMAIN heap = {}

\* on_delete's swap_remove keeps the sample array and the map inverse to each
\* other, so get_random_sample_key draws every tracked key and no other, and
\* the debug_assert in pop_node (len > 0) never fires.
SampleIndex ==
  alive =>
    /\ len = Len(sample_keys)
    /\ \A k \in Tracked :
         /\ map_key[k].sample_idx < Len(sample_keys)
         /\ sample_keys[map_key[k].sample_idx + 1] = k
    /\ \A i \in 1 .. Len(sample_keys) :
         /\ sample_keys[i] \in Tracked
         /\ map_key[sample_keys[i]].sample_idx = i - 1

\* pop_victim gives the least recently used key: every other key of the policy
\* was used after it.
VictimIsLeastRecentlyUsed ==
  alive /\ head # NoNode =>
    /\ pop_victim \in Tracked
    /\ \A k \in Tracked \ {pop_victim} : pop_victim \in older[k]

-----------------------------------------------------------------------------
(* The inductive invariant behind these properties (see LruNodeProofs). *)

\* The keys on the list: the tracked ones, until the drop.
Listed == {heap[n].key : n \in DOMAIN heap}

\* len counts the allocated nodes.
LenCounts == IsFiniteSet(DOMAIN heap) /\ len = Cardinality(DOMAIN heap)

\* No key has two nodes; until the drop the map and the nodes are inverse to
\* each other.
NodeIndex ==
  /\ \A m, n \in DOMAIN heap : heap[m].key = heap[n].key => m = n
  /\ alive => /\ Tracked = Listed
              /\ \A n \in DOMAIN heap : map_key[heap[n].key].lru_node = n

\* older is a total and asymmetric relation on the listed keys ...
OlderOrder ==
  /\ \A k \in Key : older[k] \subseteq Listed
  /\ \A x, y \in Key : x \in older[y] => y \notin older[x]
  /\ \A x, y \in Listed : x # y => x \in older[y] \/ y \in older[x]

\* ... and the list is sorted by it: nothing is older than the head, everything
\* else is older than the tail, and a next pointer steps over no key.
ListOrdered ==
  /\ head # NoNode => older[heap[head].key] = {}
  /\ tail # NoNode => older[heap[tail].key] = Listed \ {heap[tail].key}
  /\ \A n \in DOMAIN heap :
       heap[n].next # NoNode =>
         older[heap[heap[n].next].key] = older[heap[n].key] \cup {heap[n].key}

IInv ==
  /\ TypeOK
  /\ NoDanglingPointer
  /\ Linked
  /\ LenCounts
  /\ NodeIndex
  /\ SampleIndex
  /\ OlderOrder
  /\ ListOrdered

=============================================================================

--------------------------- MODULE LruNodeUnlink ---------------------------
(***************************************************************************)
(* Unlinking a node: what the surgery of drop_node and pop_mid_node leaves *)
(* of the list, and that removing a node for good keeps the invariant.     *)
(***************************************************************************)
EXTENDS LruNode, FiniteSetTheorems, SequenceTheorems, TLAPS

\* A list whose only end is both head and tail has one node: everything else is
\* older than the tail and nothing is older than the head.
LEMMA SingleNode ==
  ASSUME IInv, NEW n \in DOMAIN heap, head = n, tail = n
  PROVE  DOMAIN heap = {n}
<1>1. n # NoNode
  BY NoNodeAssumption DEF IInv, TypeOK
<1>2. Listed \ {heap[n].key} = {}
  BY <1>1 DEF IInv, ListOrdered
<1>3. ASSUME NEW m \in DOMAIN heap PROVE m = n
  <2>1. heap[m].key \in Listed
    BY DEF Listed
  <2>2. heap[m].key = heap[n].key
    BY <1>2, <2>1
  <2>3. QED
    BY <2>2 DEF IInv, NodeIndex
<1>4. QED
  BY <1>3

\* Taking a node out of the chain leaves a chain of the other nodes.
LEMMA Unlink ==
  ASSUME IInv, NEW n \in DOMAIN heap
  PROVE  LET u == UnlinkedHeap(n)
             h == UnlinkedHead(n)
             t == UnlinkedTail(n)
             D == DOMAIN heap \ {n}
         IN  /\ DOMAIN u = DOMAIN heap
             /\ \A m \in DOMAIN heap : u[m].key = heap[m].key
             /\ h \in D \cup {NoNode} /\ t \in D \cup {NoNode}
             /\ h = NoNode <=> D = {}
             /\ t = NoNode <=> D = {}
             /\ \A m \in D :
                  /\ u[m].prev \in D \cup {NoNode} /\ u[m].next \in D \cup {NoNode}
                  /\ u[m].prev = NoNode <=> m = h
                  /\ u[m].next = NoNode <=> m = t
                  /\ u[m].prev # NoNode => u[u[m].prev].next = m
                  /\ u[m].next # NoNode => u[u[m].next].prev = m
<1> DEFINE p == heap[n].prev
           q == heap[n].next
           u == UnlinkedHeap(n)
           h == UnlinkedHead(n)
           t == UnlinkedTail(n)
           D == DOMAIN heap \ {n}
<1>1. NoNode \notin DOMAIN heap
  BY NoNodeAssumption DEF IInv, TypeOK
<1>2. /\ DOMAIN u = DOMAIN heap
      /\ \A m \in DOMAIN heap :
           /\ u[m].key = heap[m].key
           /\ u[m].prev = IF m = q THEN p ELSE heap[m].prev
           /\ u[m].next = IF m = p THEN q ELSE heap[m].next
  BY DEF UnlinkedHeap
<1>3. /\ h = IF p = NoNode THEN q ELSE head
      /\ t = IF q = NoNode THEN p ELSE tail
  BY DEF UnlinkedHead, UnlinkedTail
<1> HIDE DEF u, h, t
<1>4. \A m \in DOMAIN heap :
        /\ heap[m].prev = NoNode <=> m = head
        /\ heap[m].next = NoNode <=> m = tail
        /\ heap[m].prev # NoNode => heap[m].prev \in DOMAIN heap /\ heap[heap[m].prev].next = m
        /\ heap[m].next # NoNode => heap[m].next \in DOMAIN heap /\ heap[heap[m].next].prev = m
  BY DEF IInv, Linked, NoDanglingPointer
<1>5. head \in DOMAIN heap /\ tail \in DOMAIN heap
  BY DEF IInv, Linked, NoDanglingPointer
<1>6. \A m \in DOMAIN heap : heap[m].next # NoNode => heap[heap[m].next].key # heap[m].key
  <2>1. ASSUME NEW m \in DOMAIN heap, heap[m].next # NoNode
        PROVE  heap[heap[m].next].key # heap[m].key
    <3>1. heap[m].key \in older[heap[heap[m].next].key]
      BY <2>1 DEF IInv, ListOrdered
    <3>2. heap[m].key \in Key
      BY DEF IInv, TypeOK
    <3>3. QED
      BY <3>1, <3>2 DEF IInv, OlderOrder
  <2>2. QED
    BY <2>1
<1>7. p # n /\ q # n
  BY <1>1, <1>4, <1>6
<1>8. h \in D \cup {NoNode} /\ t \in D \cup {NoNode}
  BY <1>3, <1>4, <1>5, <1>7
<1>9. (h = NoNode <=> D = {}) /\ (t = NoNode <=> D = {})
  <2>1. p = NoNode /\ q = NoNode => D = {}
    BY <1>4, SingleNode, ZenonT(60)
  <2>2. QED
    BY <1>1, <1>3, <1>4, <1>5, <1>7, <1>8, <2>1, SMTT(30), Z3T(30)
<1>10. ASSUME NEW m \in D
       PROVE  /\ u[m].prev \in D \cup {NoNode} /\ u[m].next \in D \cup {NoNode}
              /\ u[m].prev = NoNode <=> m = h
              /\ u[m].next = NoNode <=> m = t
  BY <1>1, <1>2, <1>3, <1>4, <1>5, <1>7
<1>11. ASSUME NEW m \in D
       PROVE  /\ u[m].prev # NoNode => u[u[m].prev].next = m
              /\ u[m].next # NoNode => u[u[m].next].prev = m
  BY <1>1, <1>2, <1>4, <1>7, <1>10
<1>12. QED
  BY <1>2, <1>8, <1>9, <1>10, <1>11 DEF u, h, t

\* A next pointer leads from a key to the next one in the order, also once key k
\* is taken out of the order: what was behind k is then behind k's predecessor.
LEMMA UnlinkOrder ==
  ASSUME IInv, NEW n \in DOMAIN heap
  PROVE  LET u == UnlinkedHeap(n)
             h == UnlinkedHead(n)
             t == UnlinkedTail(n)
             k == heap[n].key
         IN  /\ h # NoNode => older[heap[h].key] \ {k} = {}
             /\ t # NoNode => older[heap[t].key] \ {k} = Listed \ {heap[t].key, k}
             /\ \A m \in DOMAIN heap \ {n} : u[m].next # NoNode =>
                  older[heap[u[m].next].key] \ {k} = (older[heap[m].key] \ {k}) \cup {heap[m].key}
<1> DEFINE p == heap[n].prev
           q == heap[n].next
           u == UnlinkedHeap(n)
           h == UnlinkedHead(n)
           t == UnlinkedTail(n)
           k == heap[n].key
           D == DOMAIN heap \ {n}
<1>1. NoNode \notin DOMAIN heap
  BY NoNodeAssumption DEF IInv, TypeOK
<1>2. \A m \in D : heap[m].key # k
  BY DEF IInv, NodeIndex
<1>3. /\ p # NoNode => p \in DOMAIN heap /\ heap[p].next = n
      /\ q # NoNode => q \in DOMAIN heap
      /\ p = NoNode <=> n = head
      /\ q = NoNode <=> n = tail
      /\ head \in DOMAIN heap /\ tail \in DOMAIN heap
  BY DEF IInv, Linked, NoDanglingPointer
<1>4. \A m \in DOMAIN heap : heap[m].next # NoNode =>
        older[heap[heap[m].next].key] = older[heap[m].key] \cup {heap[m].key}
  BY DEF IInv, ListOrdered
<1>5. older[heap[head].key] = {} /\ older[heap[tail].key] = Listed \ {heap[tail].key}
  BY <1>1, <1>3 DEF IInv, ListOrdered
<1>6. h # NoNode => older[heap[h].key] \ {k} = {}
  BY <1>3, <1>4, <1>5, SMTT(30), Z3T(30) DEF UnlinkedHead
<1>7. t # NoNode => older[heap[t].key] \ {k} = Listed \ {heap[t].key, k}
  <2>1. CASE q # NoNode
    BY <2>1, <1>5, SMTT(30), Z3T(30) DEF UnlinkedTail
  <2>2. CASE q = NoNode /\ p # NoNode
    <3>1. /\ p \in D
          /\ older[k] = older[heap[p].key] \cup {heap[p].key}
          /\ older[k] = Listed \ {k}
      <4>1. t = p
        BY <2>2 DEF UnlinkedTail
      <4>2. t \in D \cup {NoNode}
        BY Unlink
      <4>3. tail = n
        BY <1>3, <2>2
      <4>4. QED
        BY <1>1, <1>3, <1>4, <1>5, <2>2, <4>1, <4>2, <4>3, SMTT(30), Z3T(30)
    <3>2. t = p /\ heap[p].key \in Key
      BY <2>2, <3>1 DEF UnlinkedTail, IInv, TypeOK
    <3>3. heap[p].key \notin older[heap[p].key]
      BY <3>2, SMTT(30), Z3T(30) DEF IInv, OlderOrder
    <3>4. QED
      BY <3>1, <3>2, <3>3, SMTT(30), Z3T(30)
  <2>3. QED
    BY <2>1, <2>2 DEF UnlinkedTail
<1>8. ASSUME NEW m \in D, u[m].next # NoNode
      PROVE  older[heap[u[m].next].key] \ {k} = (older[heap[m].key] \ {k}) \cup {heap[m].key}
  <2>1. u[m].next = IF m = p THEN q ELSE heap[m].next
    BY SMTT(30), Z3T(30) DEF UnlinkedHeap
  <2>2. CASE m = p
    <3>1. /\ older[k] = older[heap[m].key] \cup {heap[m].key}
          /\ older[heap[q].key] = older[k] \cup {k}
      BY <1>1, <1>3, <1>4, <1>8, <2>1, <2>2, SMTT(30), Z3T(30)
    <3>2. QED
      BY <1>2, <2>1, <2>2, <3>1, SMTT(30), Z3T(30)
  <2>3. CASE m # p
    BY <1>2, <1>4, <1>8, <2>1, <2>3, SMTT(30), Z3T(30)
  <2>4. QED
    BY <2>2, <2>3
<1>9. QED
  BY <1>6, <1>7, <1>8

\* Freeing a node and forgetting its key keeps the list part of the invariant.
LEMMA RemoveInv ==
  ASSUME IInv, NEW n \in DOMAIN heap, pop_node(n), Forgotten(heap[n].key)
  PROVE  /\ DOMAIN heap' = DOMAIN heap \ {n}
         /\ \A m \in DOMAIN heap' : heap'[m].key = heap[m].key
         /\ heap' \in [DOMAIN heap' -> [key : Key, prev : Pointer, next : Pointer]]
         /\ head' \in DOMAIN heap' \cup {NoNode} /\ tail' \in DOMAIN heap' \cup {NoNode}
         /\ \A m \in DOMAIN heap' : {heap'[m].prev, heap'[m].next} \subseteq DOMAIN heap' \cup {NoNode}
         /\ Linked'
         /\ len \in Nat \ {0} /\ len' = len - 1 /\ LenCounts'
         /\ \A l, m \in DOMAIN heap' : heap'[l].key = heap'[m].key => l = m
         /\ Listed' = Listed \ {heap[n].key}
         /\ older' \in [Key -> SUBSET Key]
         /\ OlderOrder'
         /\ ListOrdered'
<1> DEFINE u == UnlinkedHeap(n)
           D == DOMAIN heap \ {n}
           k == heap[n].key
<1>1. /\ DOMAIN heap' = D
      /\ \A m \in D : heap'[m] = u[m]
      /\ head' = UnlinkedHead(n)
      /\ tail' = UnlinkedTail(n)
  BY DEF pop_node
<1>2. /\ DOMAIN u = DOMAIN heap
      /\ \A m \in DOMAIN heap : u[m].key = heap[m].key
      /\ head' \in D \cup {NoNode} /\ tail' \in D \cup {NoNode}
      /\ head' = NoNode <=> D = {}
      /\ tail' = NoNode <=> D = {}
      /\ \A m \in D :
           /\ u[m].prev \in D \cup {NoNode} /\ u[m].next \in D \cup {NoNode}
           /\ u[m].prev = NoNode <=> m = head'
           /\ u[m].next = NoNode <=> m = tail'
           /\ u[m].prev # NoNode => u[u[m].prev].next = m
           /\ u[m].next # NoNode => u[u[m].next].prev = m
  <2> DEFINE h == UnlinkedHead(n)
             t == UnlinkedTail(n)
  <2>1. /\ DOMAIN u = DOMAIN heap
        /\ \A m \in DOMAIN heap : u[m].key = heap[m].key
        /\ h \in D \cup {NoNode} /\ t \in D \cup {NoNode}
        /\ h = NoNode <=> D = {}
        /\ t = NoNode <=> D = {}
        /\ \A m \in D :
             /\ u[m].prev \in D \cup {NoNode} /\ u[m].next \in D \cup {NoNode}
             /\ u[m].prev = NoNode <=> m = h
             /\ u[m].next = NoNode <=> m = t
             /\ u[m].prev # NoNode => u[u[m].prev].next = m
             /\ u[m].next # NoNode => u[u[m].next].prev = m
    BY Unlink
  <2>2. head' = h /\ tail' = t
    BY <1>1, SMTT(30), Z3T(30)
  <2> HIDE DEF u, D, h, t
  <2>3. QED
    BY <2>1, <2>2, SMTT(30), Z3T(30)
<1>3. /\ head' # NoNode => older[heap[head'].key] \ {k} = {}
      /\ tail' # NoNode => older[heap[tail'].key] \ {k} = Listed \ {heap[tail'].key, k}
      /\ \A m \in D : u[m].next # NoNode =>
           older[heap[u[m].next].key] \ {k} = (older[heap[m].key] \ {k}) \cup {heap[m].key}
  <2> DEFINE h == UnlinkedHead(n)
             t == UnlinkedTail(n)
  <2>1. /\ h # NoNode => older[heap[h].key] \ {k} = {}
        /\ t # NoNode => older[heap[t].key] \ {k} = Listed \ {heap[t].key, k}
        /\ \A m \in D : u[m].next # NoNode =>
             older[heap[u[m].next].key] \ {k} = (older[heap[m].key] \ {k}) \cup {heap[m].key}
    BY UnlinkOrder
  <2>2. head' = h /\ tail' = t
    BY <1>1
  <2> HIDE DEF u, D, k, h, t
  <2>3. QED
    BY <2>1, <2>2, SMTT(30), Z3T(30)
<1>4. /\ k \in Key /\ Listed \subseteq Key /\ k \in Listed
      /\ \A m \in D : heap[m].key \in Key \ {k} /\ heap[m].key \in Listed
  BY DEF IInv, TypeOK, Listed, NodeIndex
<1>5. Listed' = Listed \ {k}
  <2>1. \A m \in D : heap'[m].key = heap[m].key
    BY <1>1, <1>2
  <2>2. Listed' = {heap[m].key : m \in D}
    BY <1>1, <2>1 DEF Listed
  <2>3. QED
    BY <1>4, <2>2, ZenonT(60) DEF Listed
<1>6. heap' \in [D -> [key : Key, prev : Pointer, next : Pointer]]
  <2>1. \A m \in DOMAIN heap : heap[m] \in [key : Key, prev : Pointer, next : Pointer]
    BY DEF IInv, TypeOK
  <2>2. \A m \in D : u[m] \in [key : Key, prev : Pointer, next : Pointer]
    BY <2>1 DEF UnlinkedHeap
  <2>3. QED
    BY <2>2 DEF pop_node
<1>7. Linked'
  BY <1>1, <1>2 DEF Linked
<1>8. len \in Nat \ {0} /\ len' = len - 1 /\ LenCounts'
  <2>1. IsFiniteSet(D) /\ Cardinality(D) = Cardinality(DOMAIN heap) - 1
    BY FS_RemoveElement DEF IInv, LenCounts
  <2>2. Cardinality(D) \in Nat
    BY <2>1, FS_CardinalityType
  <2>3. QED
    BY <1>1, <2>1, <2>2 DEF pop_node, IInv, TypeOK, LenCounts
<1>9. older' = [x \in Key |-> IF x = k THEN {} ELSE older[x] \ {k}]
  BY DEF Forgotten
<1>10. older' \in [Key -> SUBSET Key]
  BY <1>9 DEF IInv, TypeOK
<1>11. OlderOrder'
  <2>1. \A x \in Key : older[x] \subseteq Listed
    BY DEF IInv, OlderOrder
  <2>2. \A x \in Key : older'[x] \subseteq Listed'
    BY <1>5, <1>9, <2>1
  <2>3. \A x, y \in Key : x \in older'[y] => y \notin older'[x]
    BY <1>9 DEF IInv, OlderOrder
  <2>4. \A x, y \in Listed' : x # y => x \in older'[y] \/ y \in older'[x]
    <3>1. \A x, y \in Listed : x # y => x \in older[y] \/ y \in older[x]
      BY SMTT(30), Z3T(30) DEF IInv, OlderOrder
    <3>2. QED
      BY <1>4, <1>5, <1>9, <3>1, SMTT(30), Z3T(30)
  <2>5. QED
    BY <2>2, <2>3, <2>4 DEF OlderOrder
<1>12. ListOrdered'
  <2>1. \A m \in D : heap'[m].key = heap[m].key /\ older'[heap[m].key] = older[heap[m].key] \ {k}
    BY <1>1, <1>2, <1>4, <1>9, SMTT(30), Z3T(30)
  <2>2. head' # NoNode => older'[heap'[head'].key] = {}
    BY <1>2, <1>3, <2>1, SMTT(30), Z3T(30)
  <2>3. tail' # NoNode => older'[heap'[tail'].key] = Listed' \ {heap'[tail'].key}
    <3>1. ASSUME tail' # NoNode
          PROVE  older'[heap'[tail'].key] = Listed' \ {heap'[tail'].key}
      <4>1. tail' \in D
        BY <1>2, <3>1, SMTT(30), Z3T(30)
      <4>2. older[heap[tail'].key] \ {k} = Listed \ {heap[tail'].key, k}
        BY <1>3, <3>1
      <4>3. heap'[tail'].key = heap[tail'].key /\ older'[heap[tail'].key] = older[heap[tail'].key] \ {k}
        BY <2>1, <4>1, SMTT(30), Z3T(30)
      <4>4. QED
        BY <1>5, <4>2, <4>3, SMTT(30), Z3T(30)
    <3>2. QED
      BY <3>1
  <2>4. ASSUME NEW m \in D, heap'[m].next # NoNode
        PROVE  older'[heap'[heap'[m].next].key] = older'[heap'[m].key] \cup {heap'[m].key}
    <3>1. heap'[m].next = u[m].next /\ u[m].next \in D
      BY <1>1, <1>2, <2>4, SMTT(30), Z3T(30)
    <3>2. older[heap[u[m].next].key] \ {k} = (older[heap[m].key] \ {k}) \cup {heap[m].key}
      BY <1>3, <2>4, <3>1, SMTT(30), Z3T(30)
    <3>3. QED
      BY <2>1, <3>1, <3>2, SMTT(30), Z3T(30)
  <2>5. QED
    BY <1>1, <2>2, <2>3, <2>4, SMTT(30), Z3T(30) DEF ListOrdered
<1>13. \A l, m \in D : heap'[l].key = heap'[m].key => l = m
  BY <1>1, <1>2, SMTT(30), Z3T(30) DEF IInv, NodeIndex
<1>14. QED
  BY <1>1, <1>2, <1>5, <1>6, <1>7, <1>8, <1>10, <1>11, <1>12, <1>13, SMTT(30), Z3T(30)

\* pop_front is pop_node of the head.
LEMMA PopFrontPopsHead ==
  ASSUME IInv, pop_front
  PROVE  head \in DOMAIN heap /\ pop_node(head)
<1>1. head \in DOMAIN heap /\ heap[head].prev = NoNode
  BY DEF pop_front, IInv, Linked, NoDanglingPointer
<1>2. NoNode \notin DOMAIN heap
  BY NoNodeAssumption DEF IInv, TypeOK
<1>3. heap' = [m \in DOMAIN heap \ {head} |-> UnlinkedHeap(head)[m]]
  BY <1>1, <1>2 DEF pop_front, UnlinkedHeap
<1>4. head' = UnlinkedHead(head)
  BY <1>1 DEF pop_front, UnlinkedHead
<1>5. tail' = UnlinkedTail(head)
  BY <1>1 DEF pop_front, UnlinkedTail
<1>6. Cardinality(DOMAIN heap) # 0
  BY <1>1, FS_EmptySet DEF IInv, LenCounts
<1>7. len' = IF len > 0 THEN len - 1 ELSE 0
  BY <1>6 DEF pop_front, IInv, LenCounts, TypeOK
<1>8. QED
  BY <1>1, <1>3, <1>4, <1>5, <1>7, SMTT(30), Z3T(30) DEF pop_node

\* Dropping the list keeps the invariant.
LEMMA DropInv == ASSUME IInv, drop PROVE IInv'
<1>1. /\ head \in DOMAIN heap /\ pop_node(head) /\ Forgotten(heap[head].key)
      /\ alive' = FALSE /\ UNCHANGED <<sample_keys, map_key>>
  BY PopFrontPopsHead DEF drop
<1>2. /\ DOMAIN heap' = DOMAIN heap \ {head}
      /\ heap' \in [DOMAIN heap' -> [key : Key, prev : Pointer, next : Pointer]]
      /\ head' \in DOMAIN heap' \cup {NoNode} /\ tail' \in DOMAIN heap' \cup {NoNode}
      /\ \A m \in DOMAIN heap' : {heap'[m].prev, heap'[m].next} \subseteq DOMAIN heap' \cup {NoNode}
      /\ len \in Nat \ {0} /\ len' = len - 1
      /\ \A l, m \in DOMAIN heap' : heap'[l].key = heap'[m].key => l = m
      /\ older' \in [Key -> SUBSET Key]
  BY <1>1, RemoveInv, ZenonT(60)
<1>3. Linked' /\ LenCounts' /\ OlderOrder' /\ ListOrdered'
  BY <1>1, RemoveInv, ZenonT(60)
<1>4. TypeOK'
  <2>1. DOMAIN heap' \subseteq Node /\ head' \in Pointer /\ tail' \in Pointer /\ len' \in Nat
    BY <1>2 DEF IInv, TypeOK, Pointer
  <2>2. /\ sample_keys' \in Seq(Key) /\ DOMAIN map_key' \subseteq Key /\ alive' \in BOOLEAN
        /\ map_key' \in [DOMAIN map_key' -> [lru_node : Node, sample_idx : Nat]]
    BY <1>1, ZenonT(60) DEF IInv, TypeOK
  <2>3. QED
    BY <1>2, <2>1, <2>2, SMTT(30), Z3T(30) DEF TypeOK
<1>5. NoDanglingPointer'
  BY <1>1, <1>2 DEF NoDanglingPointer
<1>6. NodeIndex' /\ SampleIndex'
  BY <1>1, <1>2 DEF NodeIndex, SampleIndex
<1>7. QED
  BY <1>3, <1>4, <1>5, <1>6, SMTT(30), Z3T(30) DEF IInv

=============================================================================

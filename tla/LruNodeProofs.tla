--------------------------- MODULE LruNodeProofs ---------------------------
(***************************************************************************)
(* The LRU list is memory safe and orders the keys by recency, for any set *)
(* of keys and any allocator.                                              *)
(***************************************************************************)
EXTENDS LruNodeMove

\* The invariant holds of the empty policy.
LEMMA InitInv == Init => IInv
<1> SUFFICES ASSUME Init PROVE IInv
  OBVIOUS
<1>1. DOMAIN heap = {} /\ DOMAIN map_key = {}
  BY DEF Init
<1>2. TypeOK
  BY <1>1, EmptySeq DEF Init, TypeOK, Pointer
<1>3. LenCounts
  BY <1>1, FS_EmptySet DEF Init, LenCounts
<1>4. SampleIndex
  BY <1>1, EmptySeq DEF Init, SampleIndex, Tracked
<1>5. NoDanglingPointer /\ Linked /\ NodeIndex
  BY <1>1 DEF Init, NoDanglingPointer, Linked, NodeIndex, Tracked, Listed
<1>6. OlderOrder /\ ListOrdered
  BY <1>1 DEF Init, OlderOrder, ListOrdered, Listed
<1>7. QED
  BY <1>2, <1>3, <1>4, <1>5, <1>6 DEF IInv

\* A write of a new key keeps the invariant.
LEMMA NewKeyInv ==
  ASSUME IInv, alive, alive' = alive,
         NEW k \in Key, k \notin Tracked,
         NEW n \in Node \ DOMAIN heap,
         push_back(n, k),
         map_key' = [x \in Tracked \cup {k} |-> IF x = k THEN NewMeta(n) ELSE map_key[x]],
         sample_keys' = Append(sample_keys, k),
         Used(k)
  PROVE  IInv'
<1> USE NoNodeAssumption
<1>0. /\ DOMAIN heap' = DOMAIN heap \cup {n}
      /\ DOMAIN map_key' = DOMAIN map_key \cup {k}
      /\ n # NoNode
  BY DEF push_back, Tracked
<1>1. /\ sample_keys' \in Seq(Key)
      /\ Len(sample_keys') = Len(sample_keys) + 1
      /\ \A i \in 1 .. Len(sample_keys) : sample_keys'[i] = sample_keys[i]
      /\ sample_keys'[Len(sample_keys) + 1] = k
      /\ Len(sample_keys) \in Nat
  BY AppendProperties, LenProperties, SMTT(30), Z3T(30) DEF IInv, TypeOK
<1>2. /\ heap'[n].key = k /\ heap'[n].next = NoNode
      /\ heap'[n].prev = IF head = NoNode THEN NoNode ELSE tail
      /\ \A m \in DOMAIN heap :
           /\ heap'[m].key = heap[m].key
           /\ heap'[m].prev = heap[m].prev
           /\ heap'[m].next = IF head # NoNode /\ m = tail THEN n ELSE heap[m].next
  BY DEF push_back, IInv, TypeOK
<1>3. TypeOK'
  <2>1. heap' \in [DOMAIN heap' -> [key : Key, prev : Pointer, next : Pointer]]
    BY <1>0 DEF push_back, IInv, TypeOK, Pointer
  <2>2. map_key' \in [DOMAIN map_key' -> [lru_node : Node, sample_idx : Nat]]
    BY <1>0, <1>1 DEF NewMeta, IInv, TypeOK, Tracked
  <2>3. older' \in [Key -> SUBSET Key]
    BY DEF Used, IInv, TypeOK, Tracked
  <2>4. QED
    BY <1>0, <1>1, <2>1, <2>2, <2>3, SMTT(30), Z3T(30) DEF push_back, IInv, TypeOK, Pointer, Tracked
<1>4. NoDanglingPointer'
  <2>1. {head, tail}' \subseteq DOMAIN heap' \cup {NoNode}
    BY <1>0 DEF push_back, IInv, NoDanglingPointer
  <2>2. \A m \in DOMAIN heap' : {heap'[m].prev, heap'[m].next} \subseteq DOMAIN heap' \cup {NoNode}
    BY <1>0, <1>2 DEF IInv, NoDanglingPointer
  <2>3. \A x \in Tracked' : map_key'[x].lru_node \in DOMAIN heap'
    BY <1>0 DEF IInv, NoDanglingPointer, Tracked, NewMeta
  <2>4. QED
    BY <2>1, <2>2, <2>3, ZenonT(60) DEF NoDanglingPointer
<1>5. Linked'
  <2>1. head' # NoNode /\ tail' # NoNode /\ DOMAIN heap' # {}
    BY <1>0 DEF push_back
  <2>2. CASE head = NoNode
    <3>1. DOMAIN heap' = {n} /\ head' = n /\ tail' = n
      BY <1>0, <2>2, SMTT(30), Z3T(30) DEF push_back, IInv, Linked
    <3>2. QED
      BY <1>2, <2>1, <2>2, <3>1, SMTT(30), Z3T(30) DEF Linked
  <2>3. CASE head # NoNode
    <3>1. tail \in DOMAIN heap /\ tail # n
      BY <2>3, SMTT(30), Z3T(30) DEF IInv, Linked, NoDanglingPointer
    <3>2. ASSUME NEW m \in DOMAIN heap
          PROVE  /\ heap'[m].prev = NoNode <=> m = head'
                 /\ heap'[m].next = NoNode <=> m = tail'
                 /\ heap'[m].prev # NoNode => heap'[heap'[m].prev].next = m
                 /\ heap'[m].next # NoNode => heap'[heap'[m].next].prev = m
      <4>1. head' = head /\ tail' = n
        BY <2>3 DEF push_back
      <4>2. heap[m].prev # NoNode => heap[m].prev \in DOMAIN heap /\ heap[m].prev # tail
        BY <3>1 DEF IInv, TypeOK, Linked, NoDanglingPointer
      <4>3. heap[m].next # NoNode => heap[m].next \in DOMAIN heap
        BY SMTT(30), Z3T(30) DEF IInv, NoDanglingPointer
      <4>4. QED
        BY <1>0, <1>2, <2>3, <3>1, <4>1, <4>2, <4>3, SMTT(30), Z3T(30) DEF IInv, Linked
    <3>3. /\ heap'[n].prev = NoNode <=> n = head'
          /\ heap'[n].next = NoNode <=> n = tail'
          /\ heap'[n].prev # NoNode => heap'[heap'[n].prev].next = n
          /\ heap'[n].next # NoNode => heap'[heap'[n].next].prev = n
      BY <1>0, <1>2, <2>3, <3>1, SMTT(30), Z3T(30) DEF push_back, IInv, Linked, NoDanglingPointer
    <3>4. QED
      BY <1>0, <2>1, <3>2, <3>3, SMTT(30), Z3T(30) DEF Linked
  <2>4. QED
    BY <2>2, <2>3
<1>6. LenCounts'
  BY <1>0, FS_AddElement, SMTT(30), Z3T(30) DEF push_back, IInv, LenCounts
<1>61. /\ \A m \in DOMAIN heap : heap[m].key \in Key \ {k} /\ heap[m].key \in Tracked
       /\ Listed' = Listed \cup {k}
       /\ Tracked' = Tracked \cup {k}
       /\ Tracked = Listed
  <2>1. Tracked = Listed
    BY DEF IInv, NodeIndex
  <2>2. \A m \in DOMAIN heap : heap[m].key \in Listed
    BY DEF Listed
  <2>3. Listed \subseteq Key
    BY DEF Listed, IInv, TypeOK
  <2>4. Listed' = Listed \cup {k}
    BY <1>0, <1>2, SMTT(30), Z3T(30) DEF Listed
  <2>5. QED
    BY <1>0, <2>1, <2>2, <2>3, <2>4, SMTT(30), Z3T(30) DEF Tracked
<1>7. NodeIndex'
  <2>1. \A l, m \in DOMAIN heap' : heap'[l].key = heap'[m].key => l = m
    BY <1>0, <1>2, <1>61 DEF IInv, NodeIndex
  <2>2. \A m \in DOMAIN heap' : map_key'[heap'[m].key].lru_node = m
    BY <1>0, <1>2, <1>61 DEF IInv, NodeIndex, NewMeta
  <2>3. QED
    BY <1>61, <2>1, <2>2, ZenonT(60) DEF NodeIndex
<1>8. SampleIndex'
  <2>1. len' = Len(sample_keys')
    BY <1>1 DEF IInv, SampleIndex, push_back
  <2>2. \A x \in Tracked' : /\ map_key'[x].sample_idx < Len(sample_keys')
                            /\ sample_keys'[map_key'[x].sample_idx + 1] = x
    BY <1>0, <1>1, SMTT(30), Z3T(30) DEF IInv, TypeOK, SampleIndex, Tracked, NewMeta
  <2>3. \A i \in 1 .. Len(sample_keys') : /\ sample_keys'[i] \in Tracked'
                                          /\ map_key'[sample_keys'[i]].sample_idx = i - 1
    BY <1>0, <1>1, SMTT(30), Z3T(30) DEF IInv, TypeOK, SampleIndex, Tracked, NewMeta
  <2>4. QED
    BY <2>1, <2>2, <2>3, ZenonT(60) DEF SampleIndex
<1>9. /\ older'[k] = Tracked
      /\ \A x \in Key \ {k} : older'[x] = older[x]
  <2>1. /\ older' = [x \in Key |-> IF x = k THEN Tracked \ {k} ELSE older[x] \ {k}]
        /\ k \notin Tracked
    BY DEF Used, Tracked
  <2>2. \A x \in Key : older[x] \subseteq Tracked
    BY <1>61 DEF IInv, OlderOrder
  <2>3. QED
    BY <2>1, <2>2
<1>10. OlderOrder'
  <2>1. \A x \in Key : older[x] \subseteq Listed /\ k \notin Listed
    BY <1>61 DEF IInv, OlderOrder
  <2>2. \A x \in Key : older'[x] \subseteq Listed'
    BY <1>61, <1>9, <2>1, SMTT(30), Z3T(30)
  <2>3. \A x, y \in Key : x \in older'[y] => y \notin older'[x]
    BY <1>61, <1>9, <2>1, SMTT(30), Z3T(30) DEF IInv, OlderOrder
  <2>4. \A x, y \in Listed' : x # y => x \in older'[y] \/ y \in older'[x]
    <3>1. Listed \subseteq Key
      BY DEF Listed, IInv, TypeOK
    <3>2. \A x, y \in Listed : x # y => x \in older[y] \/ y \in older[x]
      BY DEF IInv, OlderOrder
    <3>3. QED
      BY <1>61, <1>9, <2>1, <3>1, <3>2, SMTT(30), Z3T(30)
  <2>5. QED
    BY <2>2, <2>3, <2>4, SMTT(30), Z3T(30) DEF OlderOrder
<1>11. ListOrdered'
  <2>2. head' # NoNode => older'[heap'[head'].key] = {}
    <3>1. CASE head = NoNode
      <4>1. Tracked = {}
        BY <3>1, <1>61, SMTT(30), Z3T(30) DEF IInv, Linked, Listed
      <4>2. QED
        BY <3>1, <4>1, <1>2, <1>9, SMTT(30), Z3T(30) DEF push_back
    <3>2. CASE head # NoNode
      BY <3>2, <1>2, <1>9, <1>61, SMTT(30), Z3T(30) DEF push_back, IInv, ListOrdered, NoDanglingPointer
    <3>3. QED
      BY <3>1, <3>2, SMTT(30), Z3T(30)
  <2>3. older'[heap'[tail'].key] = Listed' \ {heap'[tail'].key}
    BY <1>2, <1>9, <1>61, SMTT(30), Z3T(30) DEF push_back
  <2>4. ASSUME NEW m \in DOMAIN heap', heap'[m].next # NoNode
        PROVE  older'[heap'[heap'[m].next].key] = older'[heap'[m].key] \cup {heap'[m].key}
    <3>1. m \in DOMAIN heap
      BY <2>4, <1>0, <1>2, SMTT(30), Z3T(30)
    <3>2. CASE head # NoNode /\ m = tail
      <4>1. heap[m].key \in Tracked /\ tail # NoNode
        BY <3>1, <3>2, <1>61, SMTT(30), Z3T(30) DEF IInv, Linked
      <4>2. older[heap[m].key] = Tracked \ {heap[m].key}
        BY <3>2, <4>1, <1>61, SMTT(30), Z3T(30) DEF IInv, ListOrdered
      <4>3. heap'[m].next = n /\ heap'[m].key = heap[m].key /\ heap'[n].key = k
        BY <3>1, <3>2, <1>2, SMTT(30), Z3T(30)
      <4>4. older'[heap[m].key] = older[heap[m].key]
        BY <3>1, <1>9, <1>61, SMTT(30), Z3T(30)
      <4>5. QED
        BY <4>1, <4>2, <4>3, <4>4, <1>9, SMTT(30), Z3T(30)
    <3>3. CASE ~(head # NoNode /\ m = tail)
      <4>1. /\ heap'[m].next = heap[m].next
            /\ heap[m].next \in DOMAIN heap
            /\ heap'[m].key = heap[m].key
            /\ heap'[heap[m].next].key = heap[heap[m].next].key
        BY <3>1, <3>3, <2>4, <1>2, SMTT(30), Z3T(30) DEF IInv, NoDanglingPointer
      <4>2. older[heap[heap[m].next].key] = older[heap[m].key] \cup {heap[m].key}
        BY <3>1, <2>4, <4>1, SMTT(30), Z3T(30) DEF IInv, ListOrdered
      <4>3. QED
        BY <3>1, <4>1, <4>2, <1>9, <1>61, SMTT(30), Z3T(30)
    <3>4. QED
      BY <3>2, <3>3
  <2>5. QED
    BY <1>61, <2>2, <2>3, <2>4, SMTT(30), Z3T(30) DEF ListOrdered
<1>12. QED
  BY <1>3, <1>4, <1>5, <1>6, <1>7, <1>8, <1>10, <1>11, SMTT(30), Z3T(30) DEF IInv

\* Every call of the policy keeps the invariant.
LEMMA NextInv == IInv /\ [Next]_vars => IInv'
<1> SUFFICES ASSUME IInv, [Next]_vars PROVE IInv'
  OBVIOUS
<1>1. ASSUME NEW k \in Key, on_write(k) PROVE IInv'
  <2>1. alive /\ alive' = alive /\ Used(k)
    BY <1>1 DEF on_write
  <2>2. CASE k \notin Tracked
    <3>1. /\ sample_keys' = Append(sample_keys, k)
          /\ \E n \in Node \ DOMAIN heap :
               /\ push_back(n, k)
               /\ map_key' = [x \in Tracked \cup {k} |->
                                IF x = k THEN NewMeta(n) ELSE map_key[x]]
      BY <1>1, <2>2, ZenonT(60) DEF on_write
    <3>2. QED
      BY <2>1, <2>2, <3>1, NewKeyInv, SMTT(30), Z3T(30)
  <2>3. CASE k \in Tracked
    BY <1>1, <2>1, <2>3, MoveInv DEF on_write
  <2>4. QED
    BY <2>2, <2>3
<1>2. ASSUME NEW k \in Key, on_read(k) PROVE IInv'
  BY <1>2, MoveInv DEF on_read
<1>3. ASSUME NEW k \in Key, on_delete(k) PROVE IInv'
  BY <1>3, DeleteInv, Zenon
<1>4. CASE drop
  BY <1>4, DropInv, SMTT(30), Z3T(30)
<1>5. CASE UNCHANGED vars
  <2>1. /\ heap' = heap /\ head' = head /\ tail' = tail /\ len' = len
        /\ sample_keys' = sample_keys /\ map_key' = map_key /\ alive' = alive /\ older' = older
    BY <1>5, SMTT(30), Z3T(30) DEF vars
  <2>2. Listed' = Listed /\ Tracked' = Tracked
    BY <2>1 DEF Listed, Tracked
  <2>3. TypeOK'
    BY <2>1 DEF IInv, TypeOK
  <2>4. NoDanglingPointer'
    BY <2>1, <2>2, SMTT(30), Z3T(30) DEF IInv, NoDanglingPointer
  <2>5. Linked'
    BY <2>1 DEF IInv, Linked
  <2>6. LenCounts'
    BY <2>1 DEF IInv, LenCounts
  <2>7. NodeIndex'
    BY <2>1, <2>2, SMTT(30), Z3T(30) DEF IInv, NodeIndex
  <2>8. SampleIndex'
    BY <2>1, <2>2, SMTT(30), Z3T(30) DEF IInv, SampleIndex
  <2>9. OlderOrder'
    BY <2>1, <2>2, SMTT(30), Z3T(30) DEF IInv, OlderOrder
  <2>10. ListOrdered'
    BY <2>1, <2>2 DEF IInv, ListOrdered
  <2>11. QED
    BY <2>3, <2>4, <2>5, <2>6, <2>7, <2>8, <2>9, <2>10, SMTT(30), Z3T(30) DEF IInv
<1>6. QED
  BY <1>1, <1>2, <1>3, <1>4, <1>5, SMTT(30), Z3T(30) DEF Next

\* Whatever the sequence of reads, writes and deletions, IInv holds.
THEOREM Invariance == Spec => []IInv
  BY InitInv, NextInv, PTL DEF Spec

\* The raw pointers of lru_linklist.rs are never dangling, and the chain they
\* form has no broken link, whatever the keys and the addresses the allocator
\* hands out, up to and including the drop of the list.
THEOREM MemorySafety == Spec => [](TypeOK /\ NoDanglingPointer /\ Linked)
<1>1. IInv => TypeOK /\ NoDanglingPointer /\ Linked
  BY DEF IInv
<1>2. QED
  BY <1>1, Invariance, PTL

\* The swap_remove of on_delete never leaves a wrong index behind.
THEOREM SampleIndexCorrect == Spec => []SampleIndex
<1>1. IInv => SampleIndex
  BY SMTT(30), Z3T(30) DEF IInv
<1>2. QED
  BY <1>1, Invariance, PTL

\* pop_victim always names the least recently used key.
THEOREM VictimCorrect == Spec => []VictimIsLeastRecentlyUsed
<1>1. IInv => VictimIsLeastRecentlyUsed
  <2> SUFFICES ASSUME IInv, alive, head # NoNode
               PROVE  /\ pop_victim \in Tracked
                      /\ \A k \in Tracked \ {pop_victim} : pop_victim \in older[k]
    BY SMTT(30), Z3T(30) DEF VictimIsLeastRecentlyUsed
  <2>1. pop_victim \in Listed /\ older[pop_victim] = {}
    BY DEF IInv, NoDanglingPointer, ListOrdered, Listed, pop_victim
  <2>2. Tracked = Listed
    BY DEF IInv, NodeIndex
  <2>3. QED
    BY <2>1, <2>2 DEF IInv, OlderOrder
<1>2. QED
  BY <1>1, Invariance, PTL
=============================================================================

--------------------------- MODULE LruNodeMove ---------------------------
(***************************************************************************)
(* The two operations that unlink a node from anywhere: on_delete, which   *)
(* also closes the gap in the samples, and push_mid_back, which moves it.  *)
(***************************************************************************)
EXTENDS LruNodeUnlink

\* swap_remove yields a sequence that is one shorter; every element but the
\* removed one and the last stays at its index.
LEMMA SwapRemove ==
  ASSUME NEW s \in Seq(Key), NEW i \in Nat, i < Len(s)
  PROVE  /\ swap_remove(s, i) \in Seq(Key)
         /\ Len(swap_remove(s, i)) = Len(s) - 1
         /\ \A j \in 1 .. Len(s) - 1 :
              swap_remove(s, i)[j] = IF j = i + 1 THEN s[Len(s)] ELSE s[j]
<1> DEFINE t == swap_remove(s, i)
<1>1. Len(s) \in Nat /\ Len(s) - 1 \in Nat
  OBVIOUS
<1>2. t \in [1 .. Len(s) - 1 -> Key]
  BY <1>1 DEF swap_remove
<1>3. t \in Seq(Key)
  BY <1>1, <1>2, SeqDef
<1>4. DOMAIN t = 1 .. Len(s) - 1
  BY <1>2
<1>5. DOMAIN t = 1 .. Len(t) /\ Len(t) \in Nat
  BY <1>3, LenProperties
<1>6. Len(t) = Len(s) - 1
  BY <1>1, <1>4, <1>5
<1>7. QED
  BY <1>3, <1>6 DEF swap_remove

\* on_delete keeps the invariant.
LEMMA DeleteInv == ASSUME IInv, NEW k \in Key, on_delete(k) PROVE IInv'
<1> DEFINE n == map_key[k].lru_node
           i == map_key[k].sample_idx
           s == swap_remove(sample_keys, i)
<1>1. /\ alive /\ alive' = alive /\ k \in Tracked
      /\ pop_node(n) /\ Forgotten(k)
      /\ sample_keys' = s
      /\ map_key' = [x \in Tracked \ {k} |->
                       IF i < Len(s) /\ x = s[i + 1]
                       THEN [lru_node |-> map_key[x].lru_node, sample_idx |-> i]
                       ELSE map_key[x]]
  BY DEF on_delete
<1>2. n \in DOMAIN heap /\ heap[n].key = k
  <2>1. Tracked = Listed /\ \A m \in DOMAIN heap : map_key[heap[m].key].lru_node = m
    BY <1>1 DEF IInv, NodeIndex
  <2>2. PICK m \in DOMAIN heap : heap[m].key = k
    BY <1>1, <2>1 DEF Listed
  <2>3. QED
    BY <2>1, <2>2
<1>3. /\ DOMAIN heap' = DOMAIN heap \ {n}
      /\ \A m \in DOMAIN heap' : heap'[m].key = heap[m].key
      /\ heap' \in [DOMAIN heap' -> [key : Key, prev : Pointer, next : Pointer]]
      /\ head' \in DOMAIN heap' \cup {NoNode} /\ tail' \in DOMAIN heap' \cup {NoNode}
      /\ \A m \in DOMAIN heap' : {heap'[m].prev, heap'[m].next} \subseteq DOMAIN heap' \cup {NoNode}
      /\ len \in Nat \ {0} /\ len' = len - 1
      /\ \A l, m \in DOMAIN heap' : heap'[l].key = heap'[m].key => l = m
      /\ older' \in [Key -> SUBSET Key]
      /\ Listed' = Listed \ {k}
  <2> HIDE DEF n
  <2>1. Forgotten(heap[n].key)
    BY <1>1, <1>2
  <2>2. QED
    BY <1>1, <1>2, <2>1, RemoveInv, ZenonT(60)
<1>4. Linked' /\ LenCounts' /\ OlderOrder' /\ ListOrdered'
  <2> HIDE DEF n
  <2>1. Forgotten(heap[n].key)
    BY <1>1, <1>2
  <2>2. QED
    BY <1>1, <1>2, <2>1, RemoveInv, ZenonT(60)
<1>5. /\ sample_keys \in Seq(Key) /\ Len(sample_keys) \in Nat
      /\ i \in Nat /\ i < Len(sample_keys)
      /\ len = Len(sample_keys)
      /\ Tracked \subseteq Key
      /\ \A x \in Tracked : map_key[x] \in [lru_node : Node, sample_idx : Nat]
  BY <1>1, LenProperties DEF IInv, TypeOK, SampleIndex, Tracked
<1>6. /\ sample_keys' \in Seq(Key)
      /\ Len(sample_keys') = Len(sample_keys) - 1
      /\ \A j \in 1 .. Len(sample_keys) - 1 :
           sample_keys'[j] = IF j = i + 1 THEN sample_keys[Len(sample_keys)] ELSE sample_keys[j]
  BY <1>1, <1>5, SwapRemove, SMTT(30), Z3T(30)
<1> HIDE DEF i, s, n
<1>7. /\ Tracked' = Tracked \ {k}
      /\ \A x \in Tracked \ {k} :
           /\ map_key'[x].lru_node = map_key[x].lru_node
           /\ map_key'[x].sample_idx =
                IF i < Len(sample_keys') /\ x = sample_keys'[i + 1] THEN i ELSE map_key[x].sample_idx
           /\ map_key'[x] \in [lru_node : Node, sample_idx : Nat]
  BY <1>1, <1>5 DEF Tracked
<1>8. TypeOK'
  <2>1. map_key' \in [DOMAIN map_key' -> [lru_node : Node, sample_idx : Nat]]
    BY <1>1, <1>5, <1>7 DEF Tracked
  <2>2. QED
    BY <1>1, <1>3, <1>6, <1>7, <2>1, SMTT(30), Z3T(30) DEF IInv, TypeOK, Pointer, Tracked
<1>9. NodeIndex'
  <2>1. Tracked' = Listed'
    BY <1>1, <1>3, <1>7, SMTT(30), Z3T(30) DEF IInv, NodeIndex
  <2>2. ASSUME NEW m \in DOMAIN heap' PROVE map_key'[heap'[m].key].lru_node = m
    <3>1. heap'[m].key \in Tracked' /\ heap'[m].key = heap[m].key /\ m \in DOMAIN heap
      <4>1. heap'[m].key \in Listed'
        BY SMTT(30) DEF Listed
      <4>2. QED
        BY <1>3, <2>1, <4>1
    <3>2. map_key[heap[m].key].lru_node = m
      BY <1>1, <3>1 DEF IInv, NodeIndex
    <3>3. QED
      BY <1>7, <3>1, <3>2
  <2>3. QED
    BY <1>3, <2>1, <2>2 DEF NodeIndex
<1>10. NoDanglingPointer'
  <2>1. ASSUME NEW x \in Tracked' PROVE map_key'[x].lru_node \in DOMAIN heap'
    <3>1. PICK m \in DOMAIN heap' : heap'[m].key = x
      <4>1. x \in Listed'
        BY <1>1, <1>9 DEF NodeIndex
      <4>2. QED
        BY <4>1 DEF Listed
    <3>2. QED
      BY <1>1, <1>9, <3>1, ZenonT(60) DEF NodeIndex
  <2>2. QED
    BY <1>3, <2>1, SMTT(30) DEF NoDanglingPointer
<1>11. SampleIndex'
  <2> DEFINE L == Len(sample_keys)
  <2>1. /\ \A x \in Tracked : map_key[x].sample_idx < L /\ sample_keys[map_key[x].sample_idx + 1] = x
        /\ \A j \in 1 .. L : sample_keys[j] \in Tracked /\ map_key[sample_keys[j]].sample_idx = j - 1
        /\ L \in Nat /\ i \in Nat /\ i < L
        /\ map_key[k].sample_idx = i
    BY <1>1, <1>5 DEF IInv, SampleIndex, i
  <2>11. /\ Len(sample_keys') = L - 1
         /\ \A j \in 1 .. L - 1 :
              sample_keys'[j] = IF j = i + 1 THEN sample_keys[L] ELSE sample_keys[j]
         /\ \A x \in Tracked : map_key[x].sample_idx \in Nat
         /\ \A x \in Tracked \ {k} : map_key'[x].sample_idx =
              IF i < L - 1 /\ x = sample_keys'[i + 1] THEN i ELSE map_key[x].sample_idx
    BY <1>5, <1>6, <1>7
  <2>2. len' = Len(sample_keys')
    BY <1>3, <1>5, <1>6
  <2> HIDE DEF L
  <2>3. ASSUME NEW x \in Tracked \ {k}
        PROVE  /\ map_key'[x].sample_idx < L - 1
               /\ sample_keys'[map_key'[x].sample_idx + 1] = x
    <3>1. /\ map_key[x].sample_idx \in Nat /\ map_key[x].sample_idx < L
          /\ sample_keys[map_key[x].sample_idx + 1] = x
      BY <2>1, <2>11
    <3>11. map_key[x].sample_idx # i
      <4>1. sample_keys[i + 1] = k
        BY <1>1, <2>1
      <4>2. QED
        BY <3>1, <4>1
    <3>2. CASE map_key[x].sample_idx = L - 1
      <4>1. i < L - 1 /\ sample_keys'[i + 1] = x
        BY <2>11, <2>1, <3>1, <3>11, <3>2, SMTT(30), Z3T(30)
      <4>2. QED
        BY <2>11, <4>1
    <3>3. CASE map_key[x].sample_idx # L - 1
      <4>1. /\ map_key[x].sample_idx + 1 \in 1 .. L - 1
            /\ sample_keys'[map_key[x].sample_idx + 1] = x
        <5> DEFINE j == map_key[x].sample_idx + 1
        <5>1. j \in 1 .. L - 1 /\ j # i + 1
          BY <2>1, <3>1, <3>11, <3>3, SMTT(30), Z3T(30)
        <5>2. sample_keys'[j] = sample_keys[j]
          BY <2>11, <5>1
        <5>3. QED
          BY <3>1, <5>1, <5>2, SMTT(30), Z3T(30)
      <4>2. ~ (i < L - 1 /\ x = sample_keys'[i + 1])
        <5>1. SUFFICES ASSUME i < L - 1, x = sample_keys'[i + 1] PROVE FALSE
          OBVIOUS
        <5>2. x = sample_keys[L]
          BY <2>11, <2>1, <5>1
        <5>3. map_key[x].sample_idx = L - 1
          BY <2>1, <5>1, <5>2
        <5>4. QED
          BY <3>3, <5>3
      <4>3. map_key'[x].sample_idx = map_key[x].sample_idx
        BY <2>11, <4>2
      <4>4. QED
        BY <3>1, <3>3, <4>1, <4>3, <2>1, SMTT(30), Z3T(30)
    <3>4. QED
      BY <3>2, <3>3, SMTT(30), Z3T(30)
  <2>4. ASSUME NEW j \in 1 .. L - 1
        PROVE  sample_keys'[j] \in Tracked \ {k} /\ map_key'[sample_keys'[j]].sample_idx = j - 1
    <3>1. CASE j = i + 1
      <4>1. sample_keys'[j] = sample_keys[L] /\ map_key[sample_keys[L]].sample_idx = L - 1
            /\ sample_keys[L] \in Tracked
        BY <2>11, <2>1, <3>1, SMTT(30), Z3T(30)
      <4>2. sample_keys'[j] # k
        BY <2>1, <3>1, <4>1
      <4>3. QED
        BY <2>11, <2>1, <3>1, <4>1, <4>2, SMTT(30), Z3T(30)
    <3>2. CASE j # i + 1
      <4>1. /\ sample_keys'[j] = sample_keys[j] /\ sample_keys[j] \in Tracked
            /\ map_key[sample_keys[j]].sample_idx = j - 1
        BY <2>11, <2>1, <3>2, SMTT(30), Z3T(30)
      <4>2. sample_keys[j] # k
        BY <2>1, <3>2, <4>1, SMTT(30), Z3T(30)
      <4>3. ~ (i < L - 1 /\ sample_keys[j] = sample_keys'[i + 1])
        <5>1. SUFFICES ASSUME i < L - 1, sample_keys[j] = sample_keys'[i + 1] PROVE FALSE
          OBVIOUS
        <5>2. sample_keys[j] = sample_keys[L]
          BY <2>11, <2>1, <5>1, SMTT(30), Z3T(30)
        <5>3. map_key[sample_keys[L]].sample_idx = L - 1
          BY <2>1
        <5>4. QED
          BY <2>1, <4>1, <5>2, <5>3, SMTT(30), Z3T(30)
      <4>4. QED
        BY <2>11, <4>1, <4>2, <4>3, SMTT(30), Z3T(30)
    <3>3. QED
      BY <3>1, <3>2, SMTT(30), Z3T(30)
  <2>5. QED
    BY <1>7, <2>2, <2>11, <2>3, <2>4, SMTT(30) DEF SampleIndex
<1>12. QED
  BY <1>4, <1>8, <1>9, <1>10, <1>11, SMTT(30), Z3T(30) DEF IInv

\* Moving the node of key k behind the tail keeps the invariant.
LEMMA MoveInv ==
  ASSUME IInv, alive, alive' = alive, NEW k \in Key, k \in Tracked,
         push_mid_back(map_key[k].lru_node), Used(k),
         UNCHANGED <<sample_keys, map_key>>
  PROVE  IInv'
<1> DEFINE n == map_key[k].lru_node
           D == DOMAIN heap \ {n}
           u == UnlinkedHeap(n)
           h == UnlinkedHead(n)
           t == UnlinkedTail(n)
<1>1. Tracked = Listed /\ \A m \in DOMAIN heap : map_key[heap[m].key].lru_node = m
  BY DEF IInv, NodeIndex
<1>2. n \in DOMAIN heap /\ heap[n].key = k
  <2>1. PICK m \in DOMAIN heap : heap[m].key = k
    BY <1>1 DEF Listed
  <2>2. QED
    BY <1>1, <2>1
<1>3. older' = [x \in Key |-> IF x = k THEN Listed \ {k} ELSE older[x] \ {k}]
  BY <1>1 DEF Used
<1>4. /\ NoNode \notin DOMAIN heap
      /\ Listed \subseteq Key /\ k \in Listed
      /\ \A m \in D : heap[m].key \in Key \ {k}
  BY <1>2, NoNodeAssumption DEF IInv, TypeOK, Listed, NodeIndex
<1>5. older' \in [Key -> SUBSET Key]
  BY <1>3, <1>4 DEF IInv, TypeOK
<1>6. /\ \A x \in Key : older'[x] \subseteq Listed
      /\ \A x, y \in Key : x \in older'[y] => y \notin older'[x]
      /\ \A x, y \in Listed : x # y => x \in older'[y] \/ y \in older'[x]
  <2>1. \A x \in Key : older[x] \subseteq Listed
    BY DEF IInv, OlderOrder
  <2>2. \A x \in Key : older'[x] \subseteq Listed
    BY <1>3, <2>1
  <2>3. \A x, y \in Key : x \in older'[y] => y \notin older'[x]
    BY <1>3 DEF IInv, OlderOrder
  <2>4. \A x, y \in Listed : x # y => x \in older[y] \/ y \in older[x]
    BY DEF IInv, OlderOrder
  <2>5. \A x, y \in Listed : x # y => x \in older'[y] \/ y \in older'[x]
    BY <1>3, <1>4, <2>4
  <2>6. QED
    BY <2>2, <2>3, <2>5
<1>7. CASE n = tail
  <2>1. UNCHANGED <<heap, head, tail, len>>
    BY <1>7 DEF push_mid_back
  <2>2. older[k] = Listed \ {k}
    BY <1>2, <1>4, <1>7, SMTT(30), Z3T(30) DEF IInv, ListOrdered
  <2>3. ASSUME NEW x \in Listed PROVE older'[x] = older[x]
    <3>1. k \in older[x] => x \notin older[k]
      BY <1>4 DEF IInv, OlderOrder
    <3>2. CASE x = k
      BY <1>3, <1>4, <2>2, <3>2, SMTT(30), Z3T(30)
    <3>3. CASE x # k
      BY <1>3, <1>4, <2>2, <3>1, <3>3, SMTT(30), Z3T(30)
    <3>4. QED
      BY <3>2, <3>3
  <2>4. OlderOrder'
    BY <1>6, <2>1, SMTT(30), Z3T(30) DEF OlderOrder, Listed
  <2>5. ListOrdered'
    <3>1. \A m \in DOMAIN heap : heap[m].key \in Listed
      BY DEF Listed
    <3>2. /\ head # NoNode => head \in DOMAIN heap
          /\ tail # NoNode => tail \in DOMAIN heap
          /\ \A m \in DOMAIN heap : heap[m].next # NoNode => heap[m].next \in DOMAIN heap
      BY DEF IInv, NoDanglingPointer
    <3>3. Listed' = Listed
      BY <2>1 DEF Listed
    <3>4. QED
      BY <2>1, <2>3, <3>1, <3>2, <3>3, SMTT(30), Z3T(30) DEF IInv, ListOrdered
  <2>6. TypeOK'
    BY <1>5, <2>1 DEF IInv, TypeOK
  <2>7. Listed' = Listed /\ Tracked' = Tracked
    BY <2>1, SMTT(30), Z3T(30) DEF Listed, Tracked
  <2>8. NoDanglingPointer' /\ Linked' /\ LenCounts'
    BY <2>1, <2>7, SMTT(30), Z3T(30) DEF IInv, NoDanglingPointer, Linked, LenCounts
  <2>9. NodeIndex'
    BY <2>1, <2>7, SMTT(30), Z3T(30) DEF IInv, NodeIndex
  <2>10. SampleIndex'
    BY <2>1, <2>7 DEF IInv, SampleIndex
  <2>11. QED
    BY <2>4, <2>5, <2>6, <2>8, <2>9, <2>10, SMTT(30), Z3T(30) DEF IInv
<1>8. CASE n # tail
  <2>1. t = tail /\ t \in D
    <3> HIDE DEF n
    <3>1. heap[n].next # NoNode /\ tail \in DOMAIN heap
      BY <1>2, <1>8, SMTT(30), Z3T(30) DEF IInv, Linked, NoDanglingPointer
    <3>2. QED
      BY <1>2, <1>8, <3>1, SMTT(30), Z3T(30) DEF UnlinkedTail
  <2>2. /\ DOMAIN u = DOMAIN heap
        /\ \A m \in DOMAIN heap : u[m].key = heap[m].key
        /\ h \in D \cup {NoNode} /\ h # NoNode
        /\ \A m \in D :
             /\ u[m].prev \in D \cup {NoNode} /\ u[m].next \in D \cup {NoNode}
             /\ u[m].prev = NoNode <=> m = h
             /\ u[m].next = NoNode <=> m = t
             /\ u[m].prev # NoNode => u[u[m].prev].next = m
             /\ u[m].next # NoNode => u[u[m].next].prev = m
    <3> HIDE DEF n
    <3>1. h \in D \cup {NoNode} /\ (h = NoNode <=> D = {})
      BY <1>2, Unlink
    <3>2. h # NoNode
      BY <2>1, <3>1, SMTT(30), Z3T(30)
    <3>3. QED
      BY <1>2, <3>1, <3>2, Unlink, SMTT(30), Z3T(30)
  <2>3. /\ older[heap[h].key] \ {k} = {}
        /\ older[heap[t].key] \ {k} = Listed \ {heap[t].key, k}
        /\ \A m \in D : u[m].next # NoNode =>
             older[heap[u[m].next].key] \ {k} = (older[heap[m].key] \ {k}) \cup {heap[m].key}
    <3> HIDE DEF n
    <3>1. t # NoNode /\ h # NoNode /\ n \in DOMAIN heap
      BY <1>2, <1>4, <2>1, <2>2, SMTT(30), Z3T(30)
    <3>2. LET kk == heap[n].key IN
            /\ older[heap[h].key] \ {kk} = {}
            /\ older[heap[t].key] \ {kk} = Listed \ {heap[t].key, kk}
            /\ \A m \in D : u[m].next # NoNode =>
                 older[heap[u[m].next].key] \ {kk} = (older[heap[m].key] \ {kk}) \cup {heap[m].key}
      BY <3>1, UnlinkOrder, SMTT(30), Z3T(30)
    <3> HIDE DEF u, h, t, D
    <3>3. QED
      BY <1>2, <3>2, SMTT(30), Z3T(30)
  <2>4. heap' = [m \in DOMAIN heap |->
                   [key  |-> u[m].key,
                    prev |-> IF m = n THEN t ELSE u[m].prev,
                    next |-> IF m = n THEN NoNode ELSE IF m = t THEN n ELSE u[m].next]]
    BY <1>4, <1>8, <2>1, SMTT(30), Z3T(30) DEF push_mid_back
  <2>41. head' = h /\ tail' = n /\ len' = len
    BY <1>8 DEF push_mid_back
  <2> HIDE DEF n, D, u, h, t
  <2>5. D = DOMAIN heap \ {n}
    BY SMTT(30), Z3T(30) DEF D
  <2>6. /\ DOMAIN heap' = DOMAIN heap
        /\ \A m \in DOMAIN heap : heap'[m].key = heap[m].key
        /\ heap'[n].prev = t /\ heap'[n].next = NoNode
        /\ \A m \in D : heap'[m].prev = u[m].prev
                     /\ heap'[m].next = IF m = t THEN n ELSE u[m].next
    BY <1>2, <2>2, <2>4, <2>5, SMTT(30), Z3T(30)
  <2>7. Listed' = Listed /\ Tracked' = Tracked
    BY <2>6, SMTT(30), Z3T(30) DEF Listed, Tracked
  <2>8. \A m \in DOMAIN heap : {heap'[m].prev, heap'[m].next} \subseteq DOMAIN heap \cup {NoNode}
    BY <1>2, <2>1, <2>2, <2>5, <2>6, SMTT(30), Z3T(30)
  <2>9. TypeOK'
    <3>1. heap' \in [DOMAIN heap -> [key : Key, prev : Pointer, next : Pointer]]
      <4>1. ASSUME NEW m \in DOMAIN heap
            PROVE  heap'[m].key \in Key /\ heap'[m].prev \in Pointer /\ heap'[m].next \in Pointer
        <5>1. heap[m].key \in Key /\ DOMAIN heap \subseteq Node
          BY DEF IInv, TypeOK
        <5>2. heap'[m].prev \in DOMAIN heap \cup {NoNode} /\ heap'[m].next \in DOMAIN heap \cup {NoNode}
          BY <2>8
        <5>3. QED
          BY <2>6, <5>1, <5>2, SMTT(30), Z3T(30) DEF Pointer
      <4>2. QED
        BY <2>4, <2>6, <4>1, SMTT(30), Z3T(30)
    <3>2. head' \in Pointer /\ tail' \in Pointer
      <4>1. h \in DOMAIN heap /\ n \in DOMAIN heap
        BY <1>2, <2>2, <2>5, SMTT(30), Z3T(30)
      <4>2. QED
        BY <2>41, <4>1, SMTT(30), Z3T(30) DEF IInv, TypeOK, Pointer
    <3>3. QED
      BY <1>5, <2>41, <2>6, <3>1, <3>2, SMTT(30), Z3T(30) DEF IInv, TypeOK
  <2>10. NoDanglingPointer'
    BY <1>2, <2>2, <2>41, <2>5, <2>6, <2>7, <2>8, SMTT(30), Z3T(30) DEF IInv, NoDanglingPointer
  <2>11. Linked'
    <3>1. n # NoNode /\ head' # NoNode /\ tail' # NoNode /\ DOMAIN heap # {} /\ t # NoNode /\ n # h
      BY <1>2, <1>4, <2>1, <2>2, <2>41, <2>5, SMTT(30), Z3T(30)
    <3>2. ASSUME NEW m \in D
          PROVE  /\ heap'[m].prev = NoNode <=> m = head'
                 /\ heap'[m].next = NoNode <=> m = tail'
                 /\ heap'[m].prev # NoNode => heap'[heap'[m].prev].next = m
                 /\ heap'[m].next # NoNode => heap'[heap'[m].next].prev = m
      <4>1. u[m].prev # NoNode => u[m].prev \in D /\ u[m].prev # t
        BY <2>1, <2>2, <3>1, <1>4, <2>5, SMTT(30), Z3T(30)
      <4>2. u[m].next # NoNode => u[m].next \in D
        BY <2>2, SMTT(30), Z3T(30)
      <4>3. QED
        BY <2>1, <2>2, <2>41, <2>5, <2>6, <3>1, <4>1, <4>2, SMTT(30), Z3T(30)
    <3>3. /\ heap'[n].prev = NoNode <=> n = head'
          /\ heap'[n].next = NoNode <=> n = tail'
          /\ heap'[n].prev # NoNode => heap'[heap'[n].prev].next = n
          /\ heap'[n].next # NoNode => heap'[heap'[n].next].prev = n
      <4>1. heap'[t].next = n
        BY <2>1, <2>6, SMTT(30), Z3T(30)
      <4>2. QED
        BY <2>41, <2>6, <3>1, <4>1, SMTT(30), Z3T(30)
    <3>4. QED
      BY <2>5, <2>6, <3>1, <3>2, <3>3, SMTT(30), Z3T(30) DEF Linked
  <2>12. OlderOrder'
    BY <1>6, <2>7, SMTT(30), Z3T(30) DEF OlderOrder
  <2>13. ListOrdered'
    <3>1. /\ \A m \in D : older'[heap[m].key] = older[heap[m].key] \ {k}
          /\ older'[k] = Listed \ {k}
      BY <1>3, <1>4, SMTT(30), Z3T(30)
    <3>2. older'[heap'[head'].key] = {}
      <4>1. h \in D /\ head' = h /\ heap'[h].key = heap[h].key
        BY <2>2, <2>41, <2>5, <2>6, SMTT(30), Z3T(30)
      <4>2. QED
        BY <2>3, <3>1, <4>1, SMTT(30), Z3T(30)
    <3>3. older'[heap'[tail'].key] = Listed' \ {heap'[tail'].key}
      <4>1. heap'[tail'].key = k
        BY <1>2, <2>41, <2>6, SMTT(30), Z3T(30)
      <4>2. QED
        BY <2>7, <3>1, <4>1, SMTT(30), Z3T(30)
    <3>4. ASSUME NEW m \in DOMAIN heap, heap'[m].next # NoNode
          PROVE  older'[heap'[heap'[m].next].key] = older'[heap'[m].key] \cup {heap'[m].key}
      <4>1. m \in D /\ heap'[m].key = heap[m].key
        BY <2>5, <2>6, <3>4, SMTT(30), Z3T(30)
      <4>2. CASE m = t
        <5>1. heap'[heap'[m].next].key = k
          BY <1>2, <2>6, <4>1, <4>2, SMTT(30), Z3T(30)
        <5>2. older'[heap[m].key] = Listed \ {heap[m].key, k} /\ heap[m].key \in Listed \ {k}
          BY <1>4, <2>3, <2>5, <3>1, <4>1, <4>2, SMTT(30), Z3T(30) DEF Listed
        <5>3. QED
          BY <3>1, <4>1, <5>1, <5>2, SMTT(30), Z3T(30)
      <4>3. CASE m # t
        <5>1. heap'[m].next = u[m].next /\ u[m].next \in D
          BY <2>2, <2>6, <3>4, <4>1, <4>3, SMTT(30), Z3T(30)
        <5>2. older[heap[u[m].next].key] \ {k} = (older[heap[m].key] \ {k}) \cup {heap[m].key}
          BY <2>3, <3>4, <4>1, <5>1, SMTT(30), Z3T(30)
        <5>3. heap'[u[m].next].key = heap[u[m].next].key
          BY <2>5, <2>6, <5>1, SMTT(30), Z3T(30)
        <5>4. QED
          BY <3>1, <4>1, <5>1, <5>2, <5>3, SMTT(30), Z3T(30)
      <4>4. QED
        BY <4>2, <4>3, SMTT(30), Z3T(30)
    <3>5. QED
      BY <2>6, <3>2, <3>3, <3>4, SMTT(30), Z3T(30) DEF ListOrdered
  <2>14. LenCounts'
    BY <2>41, <2>6, SMTT(30), Z3T(30) DEF IInv, LenCounts
  <2>15. NodeIndex'
    BY <2>6, <2>7, SMTT(30), Z3T(30) DEF IInv, NodeIndex
  <2>16. SampleIndex'
    BY <2>41, <2>7 DEF IInv, SampleIndex
  <2>17. QED
    BY <2>9, <2>10, <2>11, <2>12, <2>13, <2>14, <2>15, <2>16, SMTT(30), Z3T(30) DEF IInv
<1>9. QED
  BY <1>7, <1>8

=============================================================================

-------------------------------- MODULE ZSet --------------------------------
(***************************************************************************)
(* The sorted-set commands (src/executor/zset.rs) on one key, over the     *)
(* ZSet of src/db/zset/mod.rs: a dictionary from members to scores beside  *)
(* a skip list.  A command takes the entry out of the shard under the      *)
(* write lock and puts it back, so commands on a key do not interleave.    *)
(***************************************************************************)
EXTENDS SkipList

CONSTANT Other          \* an entry of another type

VARIABLES
  entry,                \* NoEntry, Other, or the ZSet stored at the key
  reply                 \* what the last command returned

vars == <<entry, reply>>

NoEntry == [dict |-> << >>, zsl |-> new]    \* ZSet::new(), made by the next ZADD

ASSUME SkipListAssumption ==
  /\ Member \subseteq Nat /\ Score \subseteq Int
  /\ ZSKIPLIST_MAXLEVEL \in Nat \ {0} /\ Cardinality(Member) + 1 < NULL_NODE

-----------------------------------------------------------------------------
(* ZSet.                                                                   *)

Has(set, m) == m \in DOMAIN set.dict

zset_insert_keeping(set, s, m, level) ==
  [dict |-> (m :> s) @@ set.dict,
   zsl |-> IF Has(set, m) /\ set.dict[m] = s THEN set.zsl ELSE insert(set.zsl, s, m, level)]
zset_insert(set, s, m, level) ==
  IF Has(set, m) /\ set.dict[m] = s THEN set
  ELSE [dict |-> (m :> s) @@ set.dict,
        zsl |-> insert(IF Has(set, m) THEN delete(set.zsl, set.dict[m], m) ELSE set.zsl,
                       s, m, level)]

zset_delete(set, m) ==
  [dict |-> [x \in DOMAIN set.dict \ {m} |-> set.dict[x]],
   zsl |-> delete(set.zsl, set.dict[m], m)]

zset_rank(set, m) == IF Has(set, m) THEN get_rank(set.zsl, set.dict[m], m) ELSE -1

len(set) == Cardinality(DOMAIN set.dict)

\* The indices ZRANGE visits: negative ones count from the end.
Index(set, i) == Max({0, IF i < 0 THEN i + len(set) ELSE i})

range_past_end(set, start, stop) ==
  LET lo == Index(set, start)
      hi == Min({Index(set, stop), len(set)})
  IN  IF lo > hi THEN << >>
      ELSE FlattenSeq([i \in 1 .. hi - lo |-> get_element_by_rank(set.zsl, lo + i - 1)])
range(set, start, stop) ==
  LET lo == Index(set, start)
      hi == Min({Index(set, stop), len(set) - 1})
  IN  IF lo > Index(set, stop) \/ lo >= len(set) THEN << >>
      ELSE FlattenSeq([i \in 1 .. hi - lo + 1 |-> get_element_by_rank(set.zsl, lo + i - 1)])

-----------------------------------------------------------------------------
(* Commands.                                                               *)

Init == entry = NoEntry /\ reply = "none"

Refused == entry = Other /\ entry' = entry /\ reply' = "WRONGTYPE"

ZAdd(s, m) ==
  \/ Refused
  \/ /\ entry # Other
     /\ \E level \in 1 .. ZSKIPLIST_MAXLEVEL : entry' = zset_insert(entry, s, m, level)
     /\ reply' = IF Has(entry, m) THEN "0" ELSE "1"

\* An emptied set is not put back: the next ZADD makes a new one.
PutBack(set) == IF len(set) = 0 THEN NoEntry ELSE set

ZRem(m) ==
  \/ Refused
  \/ /\ entry # Other /\ Has(entry, m)
     /\ entry' = PutBack(zset_delete(entry, m))
     /\ reply' = "1"
  \/ /\ entry # Other /\ ~ Has(entry, m)
     /\ entry' = entry
     /\ reply' = "0"

\* SET replaces whatever the key holds; expiry or eviction removes it.
Set == entry' = Other /\ reply' = "none"
Drop == entry' = NoEntry /\ reply' = "none"

Next ==
  \/ \E m \in Member : ZRem(m) \/ \E s \in Score : ZAdd(s, m)
  \/ Set \/ Drop

Spec == Init /\ [][Next]_vars

-----------------------------------------------------------------------------
(* Properties.                                                             *)

\* The nodes of a level in the order of its forward pointers.
LevelNodes(z, i) ==
  LET at[k \in 0 .. Cardinality(DOMAIN z.nodes)] ==
        IF k = 0 THEN head
        ELSE IF at[k - 1] = NULL_NODE THEN NULL_NODE ELSE Forward(z, at[k - 1], i)
      IsNode(n) == n # NULL_NODE
  IN  SelectSeq([k \in 1 .. Cardinality(DOMAIN z.nodes) |-> at[k]], IsNode)

Less(a, b) == a.score < b.score \/ (a.score = b.score /\ a.member < b.member)

\* The reference: the dictionary, sorted by score and then by member.
Sorted(set) ==
  SetToSortSeq({[member |-> m, score |-> set.dict[m]] : m \in DOMAIN set.dict}, Less)

IsZSet == entry # Other

\* On every level the forward pointers visit a subsequence of the elements,
\* ending at NULL; each span counts the elements from its node to the next
\* one of the level, or to the end of the list; level 1 visits them all and
\* is doubly linked; the level count is that of the tallest node.
SpansExact ==
  IsZSet =>
    LET z == entry.zsl
        all == LevelNodes(z, 1)
        Position(n) == IF n = head THEN 0 ELSE CHOOSE k \in 1 .. Len(all) : all[k] = n
    IN  /\ z.length = Len(all)
        /\ z.tail = IF all = << >> THEN NULL_NODE ELSE Last(all)
        /\ \A k \in 1 .. Len(all) :
             z.nodes[all[k]].backward = IF k = 1 THEN NULL_NODE ELSE all[k - 1]
        /\ \A i \in 1 .. z.max_level :
             LET row == <<head>> \o LevelNodes(z, i)
             IN  /\ Range(row) = {head} \cup {n \in Range(all) : Len(z.nodes[n].level) >= i}
                 /\ \A k \in 1 .. Len(row) :
                      Span(z, row[k], i) = (IF k = Len(row) THEN Len(all) ELSE Position(row[k + 1]))
                                             - Position(row[k])
        /\ \A i \in 2 .. ZSKIPLIST_MAXLEVEL :
             i <= z.max_level <=> Forward(z, head, i) # NULL_NODE

\* Every slot of the slab is the header, an element of the list, or on the
\* free list, and on the free list once: no slot leaks or is handed out twice.
SlabAccounted ==
  IsZSet =>
    LET z == entry.zsl
        listed == Range(LevelNodes(z, 1))
        free == Range(z.free_list)
    IN  /\ Len(z.free_list) = Cardinality(free)
        /\ listed \cap free = {}
        /\ {head} \cup listed \cup free = DOMAIN z.nodes

\* The elements of sequence ref between two indices, an index below 0 counting
\* from the end: a definition that does not clamp.
Slice(ref, start, stop) ==
  LET n == Len(ref)
      From(i, k) == IF i < 0 THEN k - n ELSE k
      positions == SelectSeq([k \in 1 .. n |-> k - 1],
                             LAMBDA k : start <= From(start, k) /\ From(stop, k) <= stop)
  IN  [j \in DOMAIN positions |-> ref[positions[j] + 1]]

\* ZRANGE from any index up to any of the stops.
RangeFrom(set, stops) ==
  \A start \in - (len(set) + 2) .. len(set) + 1, stop \in stops :
    range(set, start, stop) = Slice(Sorted(set), start, stop)

\* ZRANK is the position of a member in the sorted dictionary, and ZRANGE is the
\* slice of it between the two indices, in or out of the list, but for a stop more
\* than the length before the end, which the code reads as 0.
ReadsExact ==
  IsZSet =>
    LET ref == Sorted(entry)
        n == Len(ref)
    IN  /\ \A m \in Member :
             zset_rank(entry, m) = IF Has(entry, m) THEN (CHOOSE k \in 1 .. n : ref[k].member = m) - 1
                                   ELSE -1
        /\ RangeFrom(entry, - n .. n + 1)

\* Without the exception: a stop before the beginning gives nothing.
RangeIsSlice == IsZSet => RangeFrom(entry, - (len(entry) + 2) .. len(entry) + 1)

Abstract == INSTANCE SortedSet WITH
  value <- IF entry = Other THEN Other
           ELSE {[member |-> entry.zsl.nodes[n].member, score |-> entry.zsl.nodes[n].score] :
                   n \in Range(LevelNodes(entry.zsl, 1))}

\* The elements of the skip list behave as the promised set of members with
\* scores, one score each, and the replies count what was added and removed.
ImplementsSortedSet == Abstract!Spec
=============================================================================

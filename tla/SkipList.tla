------------------------------ MODULE SkipList ------------------------------
(***************************************************************************)
(* The skip list of src/db/zset/skip_list.rs: nodes live in a slab and     *)
(* point at each other by index, every forward pointer carries the number  *)
(* of elements it skips.  A level i of the code is level i + 1 here.       *)
(* Spans, ranks and indices are machine words: all arithmetic wraps, as in *)
(* a release build (Cargo.toml sets no overflow-checks).                   *)
(***************************************************************************)
EXTENDS Integers, SequencesExt, FiniteSetsExt

CONSTANTS
  Member,               \* members: small integers, so that < is their order
  Score,                \* scores: integers, one of them 0
  ZSKIPLIST_MAXLEVEL,
  Width                 \* bits of a word

Word == 2 ^ Width
NULL_NODE == Word - 1   \* usize::MAX
NoMember == -1          \* Bytes::new()
head == 0

wrapping_add(a, b) == (a + b) % Word
wrapping_sub(a, b) == (a - b) % Word

NewLevels(n) == [i \in 1 .. n |-> [forward |-> NULL_NODE, span |-> 0]]
NewNode(score, member, n) ==
  [score |-> score, member |-> member, backward |-> NULL_NODE, level |-> NewLevels(n)]

new ==
  [nodes |-> (0 :> NewNode(0, NoMember, ZSKIPLIST_MAXLEVEL)), free_list |-> << >>,
   tail |-> NULL_NODE, max_level |-> 1, length |-> 0]

-----------------------------------------------------------------------------
(* Searches descend the levels from the top, walking each one as long as   *)
(* the next node and the rank reached there qualify: goes[node, rank].     *)

Forward(z, n, i) == z.nodes[n].level[i].forward
Span(z, n, i) == z.nodes[n].level[i].span

Rank == 0 .. Word - 1

RECURSIVE Walk(_, _, _, _)
Walk(z, i, goes, pos) ==
  LET next == Forward(z, pos.at, i)
      step == [at |-> next, rank |-> wrapping_add(pos.rank, Span(z, pos.at, i))]
  IN  IF next # NULL_NODE /\ goes[next, step.rank] THEN Walk(z, i, goes, step) ELSE pos

\* Where the search leaves each level, with the rank walked so far.
Search(z, goes) ==
  LET path[i \in 1 .. z.max_level] ==
        Walk(z, i, goes, IF i = z.max_level THEN [at |-> head, rank |-> 0] ELSE path[i + 1])
  IN  path

Precedes(z, n, score, member) ==
  \/ z.nodes[n].score < score
  \/ z.nodes[n].score = score /\ z.nodes[n].member < member

SearchBefore(z, score, member) ==
  Search(z, [n \in DOMAIN z.nodes, r \in Rank |-> Precedes(z, n, score, member)])

-----------------------------------------------------------------------------
(* Insertion.                                                              *)

\* allocate_node: the freed slot last pushed, else a new one at the end.
allocate_node_unpopped(z) ==
  IF z.free_list # << >>
  THEN [idx |-> Last(z.free_list), free_list |-> z.free_list]
  ELSE [idx |-> Cardinality(DOMAIN z.nodes), free_list |-> << >>]
allocate_node(z) ==
  IF z.free_list # << >>
  THEN [idx |-> Last(z.free_list), free_list |-> Front(z.free_list)]
  ELSE [idx |-> Cardinality(DOMAIN z.nodes), free_list |-> << >>]

\* A span after an insertion that does not reach the level: one more element.
GrownSpan_kept(s) == s
GrownSpan(s) == wrapping_add(s, 1)

\* The span of the header at a level that did not exist yet.
HeadSpan(z, i) == z.length

insert(z, score, member, level) ==
  LET path == SearchBefore(z, score, member)
      top == Max({level, z.max_level})
      update == [i \in 1 .. top |-> IF i <= z.max_level THEN path[i].at ELSE head]
      rank == [i \in 1 .. top |-> IF i <= z.max_level THEN path[i].rank ELSE 0]
      span == [i \in 1 .. top |-> IF i <= z.max_level THEN Span(z, update[i], i) ELSE HeadSpan(z, i)]
      span_diff == [i \in 1 .. top |-> wrapping_sub(rank[1], rank[i])]
      slot == allocate_node(z)
      idx == slot.idx
      next == Forward(z, update[1], 1)
      Levels(n) == [i \in DOMAIN z.nodes[n].level |->
                      IF i > top \/ n # update[i] THEN z.nodes[n].level[i]
                      ELSE IF i <= level THEN [forward |-> idx, span |-> wrapping_add(span_diff[i], 1)]
                      ELSE [forward |-> Forward(z, n, i), span |-> GrownSpan(span[i])]]
      fresh == [NewNode(score, member, level) EXCEPT
                  !.level = [i \in 1 .. level |->
                               [forward |-> Forward(z, update[i], i),
                                span |-> wrapping_sub(span[i], span_diff[i])]],
                  !.backward = IF update[1] = head THEN NULL_NODE ELSE update[1]]
      Kept(n) == [z.nodes[n] EXCEPT !.level = Levels(n),
                                    !.backward = IF n = next THEN idx ELSE @]
  IN  [nodes |-> [n \in DOMAIN z.nodes \cup {idx} |-> IF n = idx THEN fresh ELSE Kept(n)],
       free_list |-> slot.free_list,
       tail |-> IF next = NULL_NODE THEN idx ELSE z.tail,
       max_level |-> top,
       length |-> wrapping_add(z.length, 1)]

-----------------------------------------------------------------------------
(* Deletion.                                                               *)

\* The top levels that have become empty are given up.
Shrunk(nodes, max_level) ==
  Max({1} \cup {i \in 1 .. max_level : nodes[head].level[i].forward # NULL_NODE})

\* span += target.span - 1 when the pointer led to the target.
JoinedSpan(s, t) == wrapping_add(s, wrapping_sub(t, 1))

\* A freed slot.  The code leaves its old pointers in it until allocate_node
\* overwrites the whole slot; nothing points at it, so they are forgotten here.
Freed == NewNode(0, NoMember, 0)

delete_node(z, target, update) ==
  LET t == z.nodes[target]
      next == t.level[1].forward
      Levels(n) == [i \in DOMAIN z.nodes[n].level |->
                      IF i > z.max_level \/ n # update[i] THEN z.nodes[n].level[i]
                      ELSE IF Forward(z, n, i) = target
                      THEN [forward |-> t.level[i].forward,
                            span |-> JoinedSpan(Span(z, n, i), t.level[i].span)]
                      ELSE [forward |-> Forward(z, n, i), span |-> wrapping_sub(Span(z, n, i), 1)]]
      nodes == [n \in DOMAIN z.nodes |->
                  IF n = target THEN Freed
                  ELSE [z.nodes[n] EXCEPT !.level = Levels(n),
                                          !.backward = IF n = next THEN t.backward ELSE @]]
  IN  [nodes |-> nodes,
       free_list |-> Append(z.free_list, target),
       tail |-> IF next = NULL_NODE THEN t.backward ELSE z.tail,
       max_level |-> Shrunk(nodes, z.max_level),
       length |-> wrapping_sub(z.length, 1)]

delete(z, score, member) ==
  LET path == SearchBefore(z, score, member)
      target == Forward(z, path[1].at, 1)
  IN  IF target # NULL_NODE /\ z.nodes[target].score = score /\ z.nodes[target].member = member
      THEN delete_node(z, target, [i \in DOMAIN path |-> path[i].at])
      ELSE z

-----------------------------------------------------------------------------
(* Queries.                                                                *)

\* The 0-based rank of an element, -1 for None.
get_rank(z, score, member) ==
  LET goes == [n \in DOMAIN z.nodes, r \in Rank |->
                 \/ z.nodes[n].score < score
                 \/ z.nodes[n].score = score /\ z.nodes[n].member <= member]
      end == Search(z, goes)[1]
  IN  IF end.at # head /\ z.nodes[end.at].member = member THEN wrapping_sub(end.rank, 1) ELSE -1

\* The element of a 0-based rank as a one-element sequence, << >> for None.
get_element_by_rank(z, rank) ==
  LET path == Search(z, [n \in DOMAIN z.nodes, r \in Rank |-> r <= rank + 1])
      hits == {i \in DOMAIN path : path[i].rank = rank + 1}
      n == z.nodes[path[Max(hits)].at]
  IN  IF rank >= z.length \/ hits = {} THEN << >> ELSE <<[member |-> n.member, score |-> n.score]>>
=============================================================================

------------------------------ MODULE LfuNode ------------------------------
(***************************************************************************)
(* The LFU eviction policy of one shard (lfu_struct.rs): one list per use  *)
(* count, an index over them and the cached lowest count, min_freq.        *)
(*                                                                         *)
(* The buckets are LruLists, whose pointers LruNode models; here a bucket  *)
(* is the sequence of its keys.  As in LruNode every trait method is one   *)
(* step, and a definition whose name extends the name of the one below it  *)
(* is a deliberately wrong variant.                                        *)
(***************************************************************************)
EXTENDS EvictionPolicy

CONSTANT Key

VARIABLES buckets,      \* LfuNode::buckets, indexed by frequency
          sample_keys,  \* LfuNode::sample_keys
          map_key,      \* LfuNode::map_key: key -> [freq, sample_idx]
          min_freq,     \* LfuNode::min_freq
          promise       \* history: what EvictionPolicy says of the same calls

vars == <<buckets, sample_keys, map_key, min_freq, promise>>

Tracked == DOMAIN map_key

Init ==
  /\ buckets = [f \in 0 .. MaxFreq |-> <<>>]
  /\ sample_keys = <<>>
  /\ map_key = [k \in {} |-> k]
  /\ min_freq = 1
  /\ promise = EmptyPolicy

-----------------------------------------------------------------------------
update_min_freq_next_only(b, from) == IF from < MaxFreq /\ b[from] = <<>> THEN from + 1 ELSE from

\* update_min_freq: walk up to a bucket that is not empty; 1 if there is none.
update_min_freq(b, from) ==
  LET filled == {f \in from .. MaxFreq : b[f] # <<>>}
  IN  IF filled = {} THEN 1 ELSE CHOOSE f \in filled : \A g \in filled : f <= g

\* The last step of on_read and on_delete, when bucket f lost a key.
MinFreqAfter(b, f) == IF min_freq = f /\ b[f] = <<>> THEN update_min_freq(b, min_freq) ELSE min_freq

\* on_write of a key that is not tracked: it enters bucket 1.
PushNew(k) ==
  /\ buckets' = [buckets EXCEPT ![1] = Append(@, k)]
  /\ map_key' = [x \in Tracked \cup {k} |->
                   IF x = k THEN [freq |-> 1, sample_idx |-> Len(sample_keys)] ELSE map_key[x]]
  /\ sample_keys' = Append(sample_keys, k)
  /\ min_freq' = 1

\* The next frequency, at most 255.
CappedFreq(f) == IF f + 1 > MaxFreq THEN MaxFreq ELSE f + 1

MovedUp_in_place(k, old, new) ==
  IF new = old THEN buckets
  ELSE [[buckets EXCEPT ![old] = Without(@, k)] EXCEPT ![new] = Append(@, k)]

\* k leaves bucket old and enters bucket new at the end; push_mid_back does the
\* same in one bucket.
MovedUp(k, old, new) ==
  [[buckets EXCEPT ![old] = Without(@, k)] EXCEPT ![new] = Append(@, k)]

\* on_read of a tracked key: one bucket up, or to the end of the last one.
Promote(k) ==
  LET old == map_key[k].freq
      new == CappedFreq(old)
      b   == MovedUp(k, old, new)
  IN  /\ buckets' = b
      /\ map_key' = [map_key EXCEPT ![k].freq = new]
      /\ min_freq' = IF new # old THEN MinFreqAfter(b, old) ELSE min_freq
      /\ UNCHANGED sample_keys

on_write(k) ==
  /\ \/ k \notin Tracked /\ PushNew(k)
     \/ k \in Tracked /\ Promote(k)
  /\ promise' = PolicyOnWrite(promise, k)

on_read(k) ==
  /\ k \in Tracked
  /\ Promote(k)
  /\ promise' = PolicyOnRead(promise, k)

MovedIndex_kept(k, i, s) == [x \in Tracked \ {k} |-> map_key[x]]

\* The map without k; the key that swap_remove moved gets index i.
MovedIndex(k, i, s) ==
  [x \in Tracked \ {k} |->
     IF i < Len(s) /\ x = s[i + 1] THEN [map_key[x] EXCEPT !.sample_idx = i] ELSE map_key[x]]

on_delete(k) ==
  /\ k \in Tracked
  /\ LET f == map_key[k].freq
         i == map_key[k].sample_idx
         b == [buckets EXCEPT ![f] = Without(@, k)]
         s == SwapRemoved(sample_keys, i)
     IN  /\ buckets' = b
         /\ sample_keys' = s
         /\ map_key' = MovedIndex(k, i, s)
         /\ min_freq' = MinFreqAfter(b, f)
  /\ promise' = PolicyOnDelete(promise, k)

\* pop_victim checks min_freq again, then looks at the front of its bucket.
pop_victim ==
  /\ min_freq' = IF buckets[min_freq] = <<>> THEN update_min_freq(buckets, min_freq) ELSE min_freq
  /\ UNCHANGED <<buckets, sample_keys, map_key, promise>>

Next ==
  \/ \E k \in Key : on_write(k) \/ on_read(k) \/ on_delete(k)
  \/ pop_victim

Spec == Init /\ [][Next]_vars

-----------------------------------------------------------------------------
(* Properties *)

\* The buckets hold the tracked keys by their use count, each in the order of
\* last use: on_read and on_delete move keys between the right lists.
BucketsKeepPromise ==
  /\ Tracked = TrackedBy(promise)
  /\ \A k \in Tracked : map_key[k].freq = promise.freq[k]
  /\ \A f \in 1 .. MaxFreq :
       buckets[f] = SelectSeq(promise.order, LAMBDA k : promise.freq[k] = f)

\* The victim is the key that was used least recently among those that were
\* used least often.
VictimIsLeastFrequentlyUsed ==
  Tracked # {} => buckets[min_freq] # <<>> /\ Head(buckets[min_freq]) = LfuVictim(promise)

\* The sample array and the index stay inverse to each other over the
\* swap_remove of on_delete.
SampleIndex ==
  /\ \A k \in Tracked : /\ map_key[k].sample_idx < Len(sample_keys)
                        /\ sample_keys[map_key[k].sample_idx + 1] = k
  /\ Len(sample_keys) = Cardinality(Tracked)
=============================================================================

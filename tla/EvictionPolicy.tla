--------------------------- MODULE EvictionPolicy ---------------------------
(***************************************************************************)
(* What the EvictionPolicy trait (traits.rs) promises of its two           *)
(* implementations, as operators on a value                                *)
(*                                                                         *)
(*   [order |-> the tracked keys, from the least to the most recently used,*)
(*    freq  |-> how often each of them was used, up to MaxFreq]            *)
(*                                                                         *)
(* LRU reads only the order, LFU picks the oldest key of the lowest        *)
(* frequency.  LruNode and LfuNode are checked to implement this value,    *)
(* and ShardStore is built on it.                                          *)
(***************************************************************************)
EXTENDS Integers, Sequences, FiniteSets

CONSTANTS MaxFreq   \* the cap of the LFU counter: 255 in the code

ASSUME MaxFreqAssumption == MaxFreq \in Nat \ {0}

EmptyPolicy == [order |-> <<>>, freq |-> [k \in {} |-> 0]]

TrackedBy(p) == DOMAIN p.freq

Without(seq, k) == SelectSeq(seq, LAMBDA x : x # k)

\* A tracked key is used: it becomes the most recent one, its count goes up.
PolicyOnRead(p, k) ==
  IF k \notin TrackedBy(p) THEN p
  ELSE [order |-> Append(Without(p.order, k), k),
        freq  |-> [p.freq EXCEPT ![k] = IF @ = MaxFreq THEN MaxFreq ELSE @ + 1]]

\* A write starts tracking a new key with count 1 and counts as a use otherwise.
PolicyOnWrite(p, k) ==
  IF k \in TrackedBy(p) THEN PolicyOnRead(p, k)
  ELSE [order |-> Append(p.order, k),
        freq  |-> [x \in TrackedBy(p) \cup {k} |-> IF x = k THEN 1 ELSE p.freq[x]]]

PolicyOnDelete(p, k) ==
  [order |-> Without(p.order, k),
   freq  |-> [x \in TrackedBy(p) \ {k} |-> p.freq[x]]]

\* Vec::swap_remove(i), i counted from 0: the last element takes the place of
\* the one removed.
SwapRemoved(s, i) == [j \in 1 .. Len(s) - 1 |-> IF j = i + 1 THEN s[Len(s)] ELSE s[j]]

\* The keys of the lowest frequency, oldest first.
LeastFrequent(p) ==
  SelectSeq(p.order, LAMBDA k : \A x \in TrackedBy(p) : p.freq[k] <= p.freq[x])

\* pop_victim of LRU and of LFU, for a policy that tracks some key.
LruVictim(p) == Head(p.order)

LfuVictim(p) == Head(LeastFrequent(p))
=============================================================================

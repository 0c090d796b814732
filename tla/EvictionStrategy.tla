-------------------------- MODULE EvictionStrategy --------------------------
(***************************************************************************)
(* The eviction policy of a shard as MemoryCacheNode holds it              *)
(* (strategy.rs): an enum that is an LruNode or an LfuNode from the start  *)
(* and passes every call of the EvictionPolicy trait on to it.             *)
(*                                                                         *)
(* LruNode is extended and LfuNode instantiated; the node the enum does    *)
(* not hold keeps its initial state.                                       *)
(***************************************************************************)
EXTENDS MCLruNode

CONSTANT MaxFreq   \* the cap of the LFU counter

VARIABLES strategy,   \* the variant of the enum, from the configuration
          buckets, lfu_sample_keys, lfu_map_key, min_freq, promise

lfuVars == <<buckets, lfu_sample_keys, lfu_map_key, min_freq, promise>>

Lfu == INSTANCE LfuNode WITH sample_keys <- lfu_sample_keys, map_key <- lfu_map_key

StrategyInit ==
  /\ strategy \in {"Lru", "Lfu"}
  /\ Init
  /\ Lfu!Init

strategy_on_write(k) ==
  \/ strategy = "Lru" /\ on_write(k) /\ UNCHANGED lfuVars
  \/ strategy = "Lfu" /\ Lfu!on_write(k) /\ UNCHANGED vars

strategy_on_read(k) ==
  \/ strategy = "Lru" /\ on_read(k) /\ UNCHANGED lfuVars
  \/ strategy = "Lfu" /\ Lfu!on_read(k) /\ UNCHANGED vars

strategy_on_delete(k) ==
  \/ strategy = "Lru" /\ on_delete(k) /\ UNCHANGED lfuVars
  \/ strategy = "Lfu" /\ Lfu!on_delete(k) /\ UNCHANGED vars

\* pop_victim of the LRU node changes nothing.
strategy_pop_victim == strategy = "Lfu" /\ Lfu!pop_victim /\ UNCHANGED vars

\* The shard is dropped.  Only the drop of the LRU list is code of its own.
strategy_drop == strategy = "Lru" /\ drop /\ UNCHANGED lfuVars

StrategyNext ==
  /\ \/ \E k \in Key : strategy_on_write(k) \/ strategy_on_read(k) \/ strategy_on_delete(k)
     \/ strategy_pop_victim
     \/ strategy_drop
  /\ UNCHANGED strategy

StrategySpec == StrategyInit /\ [][StrategyNext]_<<strategy, vars, lfuVars>>

-----------------------------------------------------------------------------
(* Properties of the LFU node; those of the LRU node are in LruNode. *)

\* The buckets hold the tracked keys by their use count, each in the order of
\* last use, whatever on_read, on_write and on_delete moved between them, and
\* map_key knows the bucket of every key.
BucketsKeepPromise == Lfu!BucketsKeepPromise

\* pop_victim of the LFU node gives the key used least recently among those
\* used least often.
VictimIsLeastFrequentlyUsed == Lfu!VictimIsLeastFrequentlyUsed

\* The sample array of the LFU node and its map stay inverse to each other over
\* the swap_remove of on_delete.
LfuSampleIndex == Lfu!SampleIndex
=============================================================================

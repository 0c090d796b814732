------------------------ MODULE MemoryEvictorProofs ------------------------
(***************************************************************************)
(* The policy of every shard tracks what the shard stores, for any number  *)
(* of shards, keys and eviction tasks, under LRU and under LFU.            *)
(***************************************************************************)
EXTENDS MemoryEvictor, ShardStoreProofs

\* Of the evictor's steps only task_evict touches a shard; it need not know that
\* the victim is a key of the shard it has locked.
LEMMA EvictorKeepsInv ==
  ASSUME StoreInv, EvictorNext
  PROVE  StoreInv'
<1>1. CASE mem_patrol
  BY <1>1, SameKeepsInv DEF mem_patrol, storeVars
<1>2. CASE mem_scan
  BY <1>2, SameKeepsInv DEF mem_scan, storeVars
<1>3. CASE mem_spawn
  BY <1>3, SameKeepsInv DEF mem_spawn, storeVars
<1>4. CASE mem_join
  BY <1>4, SameKeepsInv DEF mem_join, storeVars
<1>5. ASSUME NEW s \in Shard, task_healthy(s)
      PROVE  StoreInv'
  BY <1>5, SameKeepsInv DEF task_healthy, storeVars
<1>6. ASSUME NEW s \in Shard, task_lock(s)
      PROVE  StoreInv'
  BY <1>6, SameKeepsInv DEF task_lock, shardVars
<1>7. ASSUME NEW s \in Shard, task_evict(s)
      PROVE  StoreInv'
  <2>1. remove_entry(Victim(policy[s]))
    BY <1>7 DEF task_evict
  <2> QED BY <2>1, RemoveKeepsInv
<1>8. ASSUME NEW s \in Shard, task_release(s)
      PROVE  StoreInv'
  BY <1>8, SameKeepsInv DEF task_release, shardVars
<1>9. ASSUME NEW s \in Shard, task_over(s)
      PROVE  StoreInv'
  BY <1>9, SameKeepsInv DEF task_over, storeVars
<1>10. ASSUME NEW s \in Shard, task_load(s)
       PROVE  StoreInv'
  BY <1>10, SameKeepsInv DEF task_load, storeVars
<1> QED
  BY <1>1, <1>2, <1>3, <1>4, <1>5, <1>6, <1>7, <1>8, <1>9, <1>10 DEF EvictorNext

\* Whatever the clients and the eviction tasks do, pop_victim and
\* get_random_sample_key give keys that are stored, and no stored key escapes
\* them: insert_entry and remove_entry change the map and the policy together.
THEOREM PolicyTracksStore == Spec => []PolicyMatchesStore
<1>1. Init => StoreInv
  BY StoreInitInv DEF Init
<1>2. StoreInv /\ [Next]_vars => StoreInv'
  <2> SUFFICES ASSUME StoreInv, [Next]_vars
               PROVE  StoreInv'
    OBVIOUS
  <2>1. CASE EvictorNext
    BY <2>1, EvictorKeepsInv
  <2>2. CASE StoreNext /\ Beside
    BY <2>2, StoreNextKeepsInv
  <2>3. CASE UNCHANGED vars
    BY <2>3, SameKeepsInv DEF vars, storeVars
  <2> QED BY <2>1, <2>2, <2>3 DEF Next
<1>3. StoreInv => PolicyMatchesStore
  BY DEF StoreInv
<1> QED BY <1>1, <1>2, <1>3, PTL DEF Spec
=============================================================================

-------------------------- MODULE TtlSamplerProofs --------------------------
(***************************************************************************)
(* The TTL sampler removes nothing that has not expired, for any number of *)
(* shards and keys and whatever the clients do between its steps; and the  *)
(* policy of every shard tracks what the shard stores.                     *)
(***************************************************************************)
EXTENDS TtlSampler, ShardStoreProofs

LEMMA TtlKeepsInv ==
  ASSUME StoreInv, TtlNext
  PROVE  StoreInv'
<1>1. CASE ttl_wake
  BY <1>1, SameKeepsInv DEF ttl_wake, storeVars
<1>2. CASE ttl_collect
  BY <1>2, SameKeepsInv DEF ttl_collect, storeVars
<1>3. CASE ttl_collected
  BY <1>3, SameKeepsInv DEF ttl_collected, storeVars
<1>4. ASSUME NEW s \in Shard, ttl_pick(s)
      PROVE  StoreInv'
  BY <1>4, SameKeepsInv DEF ttl_pick, storeVars
<1>5. CASE ttl_lock
  BY <1>5, SameKeepsInv DEF ttl_lock, shardVars
<1>6. ASSUME NEW k \in Key, ttl_sample(k)
      PROVE  StoreInv'
  BY <1>6, SelectKeepsInv DEF ttl_sample
<1>7. CASE ttl_recheck
  <2>1. CASE Expired(at) /\ remove_entry(at)
    BY <2>1, RemoveKeepsInv
  <2>2. CASE UNCHANGED shardVars
    BY <2>2, SameKeepsInv DEF shardVars
  <2> QED BY <1>7, <2>1, <2>2 DEF ttl_recheck
<1>8. CASE ttl_release
  BY <1>8, SameKeepsInv DEF ttl_release, shardVars
<1>9. CASE ttl_batch_done
  BY <1>9, SameKeepsInv DEF ttl_batch_done, storeVars
<1>10. CASE ttl_rest
  BY <1>10, SameKeepsInv DEF ttl_rest, storeVars
<1> QED BY <1>1, <1>2, <1>3, <1>4, <1>5, <1>6, <1>7, <1>8, <1>9, <1>10 DEF TtlNext

LEMMA InvAlways == Spec => []StoreInv
<1>1. Init => StoreInv
  BY StoreInitInv DEF Init
<1>2. StoreInv /\ [Next]_vars => StoreInv'
  <2> SUFFICES ASSUME StoreInv, [Next]_vars
               PROVE  StoreInv'
    OBVIOUS
  <2>1. CASE TtlNext
    BY <2>1, TtlKeepsInv
  <2>2. CASE StoreNext /\ UNCHANGED ttlVars
    BY <2>2, StoreNextKeepsInv
  <2>3. CASE UNCHANGED vars
    BY <2>3, SameKeepsInv DEF vars, storeVars
  <2> QED BY <2>1, <2>2, <2>3 DEF Next
<1> QED BY <1>1, <1>2, PTL DEF Spec

\* remove_entry(x) takes no other key out of any shard.
LEMMA RemovesOnlyItsKey ==
  ASSUME StoreInv, NEW x, remove_entry(x), NEW k \in Key, Stored(k), ~Stored(k)'
  PROVE  k = x
<1>1. ShardOf[k] \in Shard
  BY ShardAssumption
<1>2. CASE ~Stored(x)
  BY <1>2 DEF remove_entry, shardVars, Stored
<1>3. CASE Stored(x)
  <2>1. db_store' = [db_store EXCEPT ![ShardOf[x]] =
                       [y \in DOMAIN db_store[ShardOf[x]] \ {x} |-> db_store[ShardOf[x]][y]]]
    BY <1>3 DEF remove_entry
  <2>2. CASE ShardOf[k] = ShardOf[x]
    <3>1. DOMAIN db_store'[ShardOf[k]] = DOMAIN db_store[ShardOf[k]] \ {x}
      BY <1>1, <2>1, <2>2 DEF StoreInv
    <3> QED BY <3>1 DEF Stored
  <2>3. CASE ShardOf[k] # ShardOf[x]
    <3>1. db_store'[ShardOf[k]] = db_store[ShardOf[k]]
      BY <1>1, <2>1, <2>3 DEF StoreInv
    <3> QED BY <3>1 DEF Stored
  <2> QED BY <2>2, <2>3
<1> QED BY <1>2, <1>3

\* The task removes a key only if it has expired at that moment: the sample's
\* select and the second look at the expiry both read the clock under the lock.
THEOREM OnlyExpiredRemoved == Spec => RemovesOnlyExpired
<1>1. ASSUME StoreInv, TtlNext, NEW k \in Key, Stored(k), ~Stored(k)'
      PROVE  Expired(k)
  <2>0. ASSUME UNCHANGED db_store
        PROVE  FALSE
    BY <1>1, <2>0 DEF Stored
  <2>1. CASE ttl_wake
    BY <2>0, <2>1 DEF ttl_wake, storeVars
  <2>2. CASE ttl_collect
    BY <2>0, <2>2 DEF ttl_collect, storeVars
  <2>3. CASE ttl_collected
    BY <2>0, <2>3 DEF ttl_collected, storeVars
  <2>4. ASSUME NEW s \in Shard, ttl_pick(s)
        PROVE  FALSE
    BY <2>0, <2>4 DEF ttl_pick, storeVars
  <2>5. CASE ttl_lock
    BY <2>0, <2>5 DEF ttl_lock, shardVars
  <2>6. ASSUME NEW x \in Key, ttl_sample(x)
        PROVE  Expired(k)
    <3>1. select(x)
      BY <2>6 DEF ttl_sample
    <3>2. CASE Expired(x)
      <4>1. remove_entry(x)
        BY <3>1, <3>2 DEF select
      <4> QED BY <1>1, <3>2, <4>1, RemovesOnlyItsKey
    <3>3. CASE ~Expired(x)
      BY <2>0, <3>1, <3>3 DEF select, get_entry, shardVars
    <3> QED BY <3>2, <3>3
  <2>7. CASE ttl_recheck
    <3>1. CASE Expired(at) /\ remove_entry(at)
      BY <1>1, <3>1, RemovesOnlyItsKey
    <3>2. CASE UNCHANGED shardVars
      BY <2>0, <3>2 DEF shardVars
    <3> QED BY <2>7, <3>1, <3>2 DEF ttl_recheck
  <2>8. CASE ttl_release
    BY <2>0, <2>8 DEF ttl_release, shardVars
  <2>9. CASE ttl_batch_done
    BY <2>0, <2>9 DEF ttl_batch_done, storeVars
  <2>10. CASE ttl_rest
    BY <2>0, <2>10 DEF ttl_rest, storeVars
  <2> QED BY <1>1, <2>1, <2>2, <2>3, <2>4, <2>5, <2>6, <2>7, <2>8, <2>9, <2>10 DEF TtlNext
<1>2. StoreInv /\ [Next]_vars
        => [\A k \in Key : (TtlNext /\ Stored(k) /\ ~Stored(k)') => Expired(k)]_vars
  BY <1>1
<1> QED BY <1>2, InvAlways, PTL DEF Spec, RemovesOnlyExpired
=============================================================================

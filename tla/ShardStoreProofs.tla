-------------------------- MODULE ShardStoreProofs --------------------------
(***************************************************************************)
(* What every operation of ShardStore keeps, whoever calls it: the         *)
(* functions are over all shards, and the policy of a shard tracks the     *)
(* keys its map holds.  MemoryEvictorProofs and TtlSamplerProofs build on  *)
(* these lemmas.                                                           *)
(***************************************************************************)
EXTENDS ShardStore, TLAPS

\* The inductive invariant of the store.
StoreInv ==
  /\ DOMAIN db_store = Shard /\ DOMAIN policy = Shard
  /\ PolicyMatchesStore

\* What the calls of the EvictionPolicy trait do to the tracked keys.
LEMMA TrackedOnRead ==
  ASSUME NEW p, NEW k
  PROVE  TrackedBy(PolicyOnRead(p, k)) = TrackedBy(p)
  BY DEF PolicyOnRead, TrackedBy

LEMMA TrackedOnWrite ==
  ASSUME NEW p, NEW k
  PROVE  TrackedBy(PolicyOnWrite(p, k)) = TrackedBy(p) \cup {k}
<1>1. CASE k \in TrackedBy(p)
  BY <1>1, TrackedOnRead DEF PolicyOnWrite
<1>2. CASE k \notin TrackedBy(p)
  BY <1>2 DEF PolicyOnWrite, TrackedBy
<1> QED BY <1>1, <1>2

LEMMA TrackedOnDelete ==
  ASSUME NEW p, NEW k
  PROVE  TrackedBy(PolicyOnDelete(p, k)) = TrackedBy(p) \ {k}
  BY DEF PolicyOnDelete, TrackedBy

\* insert_entry adds the key to the map and to the policy of the same shard.
LEMMA InsertKeepsInv ==
  ASSUME StoreInv, NEW k, NEW v, insert_entry(k, v)
  PROVE  StoreInv'
<1> USE DEF StoreInv, PolicyMatchesStore
<1>1. DOMAIN db_store' = Shard /\ DOMAIN policy' = Shard
  BY DEF insert_entry
<1>2. ASSUME NEW s \in Shard
      PROVE  TrackedBy(policy'[s]) = DOMAIN db_store'[s]
  <2>1. CASE s = ShardOf[k]
    <3>1. policy'[s] = PolicyOnWrite(policy[s], k)
      BY <2>1 DEF insert_entry
    <3>2. DOMAIN db_store'[s] = DOMAIN db_store[s] \cup {k}
      BY <2>1 DEF insert_entry
    <3> QED BY <3>1, <3>2, TrackedOnWrite
  <2>2. CASE s # ShardOf[k]
    <3>1. policy'[s] = policy[s] /\ db_store'[s] = db_store[s]
      BY <2>2 DEF insert_entry
    <3> QED BY <3>1
  <2> QED BY <2>1, <2>2
<1> QED BY <1>1, <1>2 DEF TrackedBy

\* remove_entry takes it out of both.
LEMMA RemoveKeepsInv ==
  ASSUME StoreInv, NEW k, remove_entry(k)
  PROVE  StoreInv'
<1> USE DEF StoreInv, PolicyMatchesStore
<1>1. CASE ~Stored(k)
  BY <1>1 DEF remove_entry, shardVars, TrackedBy
<1>2. CASE Stored(k)
  <2>1. DOMAIN db_store' = Shard /\ DOMAIN policy' = Shard
    BY <1>2 DEF remove_entry
  <2>2. ASSUME NEW s \in Shard
        PROVE  TrackedBy(policy'[s]) = DOMAIN db_store'[s]
    <3>1. CASE s = ShardOf[k]
      <4>1. policy'[s] = PolicyOnDelete(policy[s], k)
        BY <1>2, <3>1 DEF remove_entry, PolicyWithout
      <4>2. DOMAIN db_store'[s] = DOMAIN db_store[s] \ {k}
        BY <1>2, <3>1 DEF remove_entry
      <4> QED BY <4>1, <4>2, TrackedOnDelete
    <3>2. CASE s # ShardOf[k]
      <4>1. policy'[s] = policy[s] /\ db_store'[s] = db_store[s]
        BY <1>2, <3>2 DEF remove_entry
      <4> QED BY <4>1
    <3> QED BY <3>1, <3>2
  <2> QED BY <2>1, <2>2 DEF TrackedBy
<1> QED BY <1>1, <1>2

\* A read changes the order and the counts only.
LEMMA GetKeepsInv ==
  ASSUME StoreInv, NEW k, get_entry(k)
  PROVE  StoreInv'
<1> USE DEF StoreInv, PolicyMatchesStore
<1>1. DOMAIN db_store' = Shard /\ DOMAIN policy' = Shard
  BY DEF get_entry
<1>2. ASSUME NEW s \in Shard
      PROVE  TrackedBy(policy'[s]) = DOMAIN db_store'[s]
  <2>1. CASE s = ShardOf[k]
    <3>1. policy'[s] = PolicyOnRead(policy[s], k) /\ db_store'[s] = db_store[s]
      BY <2>1 DEF get_entry
    <3> QED BY <3>1, TrackedOnRead
  <2>2. CASE s # ShardOf[k]
    <3>1. policy'[s] = policy[s] /\ db_store'[s] = db_store[s]
      BY <2>2 DEF get_entry
    <3> QED BY <3>1
  <2> QED BY <2>1, <2>2
<1> QED BY <1>1, <1>2 DEF TrackedBy

LEMMA SelectKeepsInv ==
  ASSUME StoreInv, NEW k, select(k)
  PROVE  StoreInv'
<1>1. CASE Expired(k)
  BY <1>1, RemoveKeepsInv DEF select
<1>2. CASE ~Expired(k) /\ Stored(k)
  BY <1>2, GetKeepsInv DEF select
<1>3. CASE ~Expired(k) /\ ~Stored(k)
  BY <1>3 DEF select, shardVars, StoreInv, PolicyMatchesStore, TrackedBy
<1> QED BY <1>1, <1>2, <1>3

LEMMA SameKeepsInv ==
  ASSUME StoreInv, UNCHANGED <<db_store, policy>>
  PROVE  StoreInv'
  BY DEF StoreInv, PolicyMatchesStore, TrackedBy

LEMMA StoreInitInv ==
  ASSUME StoreInit
  PROVE  StoreInv
  BY DEF StoreInit, StoreInv, PolicyMatchesStore, TrackedBy, EmptyPolicy

\* No step of the clients, of an account or of the clock breaks the invariant.
LEMMA StoreNextKeepsInv ==
  ASSUME StoreInv, StoreNext
  PROVE  StoreInv'
<1>1. ASSUME NEW s \in Shard, client_lock(s)
      PROVE  StoreInv'
  BY <1>1, SameKeepsInv DEF client_lock, shardVars
<1>2. ASSUME NEW s \in Shard, client_unlock(s)
      PROVE  StoreInv'
  BY <1>2, SameKeepsInv DEF client_unlock, shardVars
<1>3. ASSUME NEW s \in Shard, settle(s)
      PROVE  StoreInv'
  BY <1>3, SameKeepsInv DEF settle
<1>4. ASSUME NEW k \in Key, client_remove(k)
      PROVE  StoreInv'
  BY <1>4, RemoveKeepsInv DEF client_remove
<1>5. ASSUME NEW k \in Key, client_select(k)
      PROVE  StoreInv'
  BY <1>5, SelectKeepsInv DEF client_select
<1>6. ASSUME NEW k \in Key, client_read(k)
      PROVE  StoreInv'
  BY <1>6, GetKeepsInv DEF client_read
<1>7. ASSUME NEW k \in Key, NEW v \in ValueEntry, client_insert(k, v)
      PROVE  StoreInv'
  BY <1>7, InsertKeepsInv DEF client_insert
<1>8. CASE tick
  BY <1>8, SameKeepsInv DEF tick, shardVars
<1> QED BY <1>1, <1>2, <1>3, <1>4, <1>5, <1>6, <1>7, <1>8 DEF StoreNext
=============================================================================

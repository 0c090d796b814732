----------------------------- MODULE ShardStore -----------------------------
(***************************************************************************)
(* The sharded key space: MemoryCacheNode (cache_store.rs) behind its      *)
(* RwLock, as DirectCacheNode (direct_node.rs) lets commands use it, with  *)
(* the eviction policy and the two memory accounts.                        *)
(*                                                                         *)
(* A command holds the write lock of a shard while it calls insert, delete,*)
(* take or select any number of times.  Such a call is one step, but for   *)
(* the second of its two memory accounts: GLOBAL_MEMORY is a static that   *)
(* every shard updates and that is read without a lock, so its update is a *)
(* step of its own (settle).                                               *)
(***************************************************************************)
EXTENDS EvictionPolicy, Functions, FiniteSetsExt

CONSTANTS NumShards,    \* CONFIG.num_shards, times the 16 databases
          Key, ShardOf, \* the keys, and get_shard_index: [Key -> Shard]
          Size,         \* the values of ValueEntry::data_size
          Expiry,       \* the values of ValueEntry::expires_at, NoExpiry included
          NoExpiry,
          PolicyKind,   \* EvictionType: "LRU" or "LFU"
          MaxTime,      \* bound: the clock stops here
          MaxWrites     \* bound: how many inserts the clients make

Shard == 0 .. NumShards - 1

ASSUME ShardAssumption ==
  /\ NumShards \in Nat \ {0}
  /\ ShardOf \in [Key -> Shard]
  /\ Size \subseteq Nat \ {0}
  /\ Expiry \subseteq Nat \cup {NoExpiry}
  /\ PolicyKind \in {"LRU", "LFU"}

VARIABLES db_store,        \* per shard: key -> ValueEntry
          policy,          \* per shard: MemoryCacheNode::evicition
          approx_memory,   \* per shard
          GLOBAL_MEMORY,
          owed,            \* per shard: what its writer has still to add to GLOBAL_MEMORY
          guard,           \* per shard: who holds the write lock
          CACHED_TIME_MS,
          writes           \* how many inserts the clients have made

shardVars == <<db_store, policy, approx_memory, owed>>
storeVars == <<db_store, policy, approx_memory, GLOBAL_MEMORY, owed, guard, CACHED_TIME_MS, writes>>

ValueEntry == [data_size : Size, expires_at : Expiry]
StoreInit ==
  /\ db_store = [s \in Shard |-> [k \in {} |-> k]]
  /\ policy = [s \in Shard |-> EmptyPolicy]
  /\ approx_memory = [s \in Shard |-> 0]
  /\ GLOBAL_MEMORY = 0
  /\ owed = [s \in Shard |-> 0]
  /\ guard = [s \in Shard |-> "free"]
  /\ CACHED_TIME_MS = 0
  /\ writes = 0

-----------------------------------------------------------------------------
(* MemoryCacheNode *)

Stored(k) == k \in DOMAIN db_store[ShardOf[k]]
Entry(k) == db_store[ShardOf[k]][k]
Expired(k) == Stored(k) /\ Entry(k).expires_at # NoExpiry /\ CACHED_TIME_MS > Entry(k).expires_at

SizeBefore_ignored(k) == 0

\* size_before of insert_entry.
SizeBefore(k) == IF Stored(k) THEN Entry(k).data_size ELSE 0

\* insert_entry: the policy first, then the entry and the shard's account; the
\* global account is owed.
insert_entry(k, v) ==
  LET s == ShardOf[k]
      memory_differ == v.data_size - SizeBefore(k)
  IN  /\ policy' = [policy EXCEPT ![s] = PolicyOnWrite(@, k)]
      /\ db_store' = [db_store EXCEPT ![s] =
                        [x \in DOMAIN @ \cup {k} |-> IF x = k THEN v ELSE @[x]]]
      /\ approx_memory' = [approx_memory EXCEPT ![s] = @ + memory_differ]
      /\ owed' = [owed EXCEPT ![s] = memory_differ]

PolicyWithout_kept(p, k) == p

\* The call of on_delete in remove_entry.
PolicyWithout(p, k) == PolicyOnDelete(p, k)

\* remove_entry: nothing happens for a key that is not stored.
remove_entry(k) ==
  LET s == ShardOf[k]
  IN  IF ~Stored(k) THEN UNCHANGED shardVars
      ELSE /\ db_store' = [db_store EXCEPT ![s] = [x \in DOMAIN @ \ {k} |-> @[x]]]
           /\ policy' = [policy EXCEPT ![s] = PolicyWithout(@, k)]
           /\ approx_memory' = [approx_memory EXCEPT ![s] = @ - Entry(k).data_size]
           /\ owed' = [owed EXCEPT ![s] = 0 - Entry(k).data_size]

\* get_entry, and on_read of the read path.
get_entry(k) ==
  /\ policy' = [policy EXCEPT ![ShardOf[k]] = PolicyOnRead(@, k)]
  /\ UNCHANGED <<db_store, approx_memory, owed>>

\* select under the write lock: an expired entry is removed, another one used.
select(k) ==
  IF Expired(k) THEN remove_entry(k)
  ELSE IF Stored(k) THEN get_entry(k)
  ELSE UNCHANGED shardVars

settle_twice(s) ==
  /\ owed[s] # 0
  /\ GLOBAL_MEMORY' = GLOBAL_MEMORY + owed[s]
  /\ UNCHANGED <<db_store, policy, approx_memory, owed, guard, CACHED_TIME_MS, writes>>

\* The second account of insert_entry and remove_entry.
settle(s) ==
  /\ owed[s] # 0
  /\ GLOBAL_MEMORY' = GLOBAL_MEMORY + owed[s]
  /\ owed' = [owed EXCEPT ![s] = 0]
  /\ UNCHANGED <<db_store, policy, approx_memory, guard, CACHED_TIME_MS, writes>>

-----------------------------------------------------------------------------
(* Locks, commands and the clock *)

\* The RwLock of the shard, for a writer.
lock(s, who) == guard[s] = "free" /\ guard' = [guard EXCEPT ![s] = who]
unlock(s, who) == guard[s] = who /\ owed[s] = 0 /\ guard' = [guard EXCEPT ![s] = "free"]

\* who is between two calls under the lock of k's shard.
Holds(k, who) == guard[ShardOf[k]] = who /\ owed[ShardOf[k]] = 0

client_lock(s) ==
  lock(s, "client") /\ UNCHANGED <<shardVars, GLOBAL_MEMORY, CACHED_TIME_MS, writes>>

client_unlock(s) ==
  unlock(s, "client") /\ UNCHANGED <<shardVars, GLOBAL_MEMORY, CACHED_TIME_MS, writes>>

\* DirectCacheNode::insert
client_insert(k, v) ==
  /\ Holds(k, "client") /\ writes < MaxWrites
  /\ insert_entry(k, v)
  /\ writes' = writes + 1
  /\ UNCHANGED <<GLOBAL_MEMORY, guard, CACHED_TIME_MS>>

\* DirectCacheNode::delete and ::take
client_remove(k) ==
  /\ Holds(k, "client")
  /\ remove_entry(k)
  /\ UNCHANGED <<GLOBAL_MEMORY, guard, CACHED_TIME_MS, writes>>

\* DirectCacheNode::select under the write lock
client_select(k) ==
  /\ Holds(k, "client")
  /\ select(k)
  /\ UNCHANGED <<GLOBAL_MEMORY, guard, CACHED_TIME_MS, writes>>

\* DirectCacheNode::select under the read lock: nothing is removed.
client_read(k) ==
  /\ guard[ShardOf[k]] = "free"
  /\ Stored(k) /\ ~Expired(k)
  /\ get_entry(k)
  /\ UNCHANGED <<GLOBAL_MEMORY, guard, CACHED_TIME_MS, writes>>

\* The time task stores a later time.
tick ==
  /\ CACHED_TIME_MS < MaxTime
  /\ CACHED_TIME_MS' = CACHED_TIME_MS + 1
  /\ UNCHANGED <<shardVars, GLOBAL_MEMORY, guard, writes>>

StoreNext ==
  \/ \E s \in Shard : client_lock(s) \/ client_unlock(s) \/ settle(s)
  \/ \E k \in Key : client_remove(k) \/ client_select(k) \/ client_read(k)
  \/ \E k \in Key, v \in ValueEntry : client_insert(k, v)
  \/ tick

-----------------------------------------------------------------------------
(* Properties of the store, whoever works on it *)

Total(f) == FoldFunction(LAMBDA a, b : a + b, 0, f)
EntrySizes(s) == [k \in DOMAIN db_store[s] |-> db_store[s][k].data_size]

\* A shard's policy tracks exactly the stored keys: what pop_victim and the
\* sampling give can be deleted, and no entry escapes eviction.
PolicyMatchesStore == \A s \in Shard : TrackedBy(policy[s]) = DOMAIN db_store[s]

\* approx_memory is the size of what the shard stores, and GLOBAL_MEMORY the sum
\* of the shards up to the updates under way: no difference is lost or counted
\* twice, and none of the concurrent fetch_sub calls takes an unsigned counter
\* below zero.
AccountsExact ==
  /\ \A s \in Shard : approx_memory[s] = Total(EntrySizes(s))
  /\ GLOBAL_MEMORY >= 0 /\ GLOBAL_MEMORY + Total(owed) = Total(approx_memory)
=============================================================================

----------------------------- MODULE TtlSampler -----------------------------
(***************************************************************************)
(* eviction_ttl (eviction_alo.rs) beside the clients of ShardStore: the    *)
(* task that samples random keys and removes the expired ones.             *)
(***************************************************************************)
EXTENDS ShardStore

CONSTANTS KeysCheck,    \* samples of a batch: 20 in the code
          Threshold     \* expired samples that call for another batch: 5 in the code

VARIABLES ttl_pc,         \* where the task is
          collect_at,     \* the shard that is read next
          active_shards,  \* a Vec whose order is of no importance
          at,             \* what the sample is about: a shard, then a key
          keys_check, expired_count,
          removed         \* history: expired keys the batch removed

ttlVars == <<ttl_pc, collect_at, active_shards, at, keys_check, expired_count, removed>>
vars == <<storeVars, ttlVars>>

Init ==
  /\ StoreInit
  /\ ttl_pc = "sleep" /\ collect_at = 0 /\ active_shards = {} /\ at = 0
  /\ keys_check = 0 /\ expired_count = 0 /\ removed = 0

NewBatch ==
  /\ ttl_pc' = "pick" /\ keys_check' = KeysCheck /\ expired_count' = 0 /\ removed' = 0

ttl_wake ==
  /\ ttl_pc = "sleep"
  /\ ttl_pc' = "collect" /\ collect_at' = 0 /\ active_shards' = {}
  /\ UNCHANGED <<storeVars, at, keys_check, expired_count, removed>>

\* get_memory_usage of one shard, under its read lock.
ttl_collect ==
  /\ ttl_pc = "collect" /\ collect_at < NumShards
  /\ guard[collect_at] = "free"
  /\ active_shards' = IF approx_memory[collect_at] > 0 THEN active_shards \cup {collect_at}
                      ELSE active_shards
  /\ collect_at' = collect_at + 1
  /\ UNCHANGED <<storeVars, ttl_pc, at, keys_check, expired_count, removed>>

\* Wrong: the last shard is never read.
ttl_collected_early ==
  /\ ttl_pc = "collect" /\ collect_at = NumShards - 1
  /\ \/ /\ active_shards = {} /\ ttl_pc' = "sleep"
        /\ UNCHANGED <<keys_check, expired_count, removed>>
     \/ active_shards # {} /\ NewBatch
  /\ UNCHANGED <<storeVars, collect_at, active_shards, at>>

\* All shards are read: sleep again if none is active, else start a batch.
ttl_collected ==
  /\ ttl_pc = "collect" /\ collect_at = NumShards
  /\ \/ /\ active_shards = {} /\ ttl_pc' = "sleep"
        /\ UNCHANGED <<keys_check, expired_count, removed>>
     \/ active_shards # {} /\ NewBatch
  /\ UNCHANGED <<storeVars, collect_at, active_shards, at>>

\* A random active shard ...
ttl_pick(s) ==
  /\ ttl_pc = "pick" /\ keys_check > 0
  /\ s \in active_shards
  /\ at' = s
  /\ ttl_pc' = "lock"
  /\ UNCHANGED <<storeVars, collect_at, active_shards, keys_check, expired_count, removed>>

\* ... is locked; if it is empty by now it leaves the list, and the lock is
\* released at once.
ttl_lock ==
  /\ ttl_pc = "lock"
  /\ \/ /\ guard[at] = "free" /\ approx_memory[at] = 0
        /\ active_shards' = active_shards \ {at}
        /\ ttl_pc' = "pick"
        /\ UNCHANGED guard
     \/ /\ lock(at, "ttl") /\ approx_memory[at] > 0
        /\ ttl_pc' = "sample"
        /\ UNCHANGED active_shards
  /\ UNCHANGED <<shardVars, GLOBAL_MEMORY, CACHED_TIME_MS, writes, collect_at, at, keys_check,
                 expired_count, removed>>

\* A random key of the policy, and select: this already removes an expired key.
ttl_sample(k) ==
  /\ ttl_pc = "sample" /\ at \in Shard
  /\ k \in TrackedBy(policy[at])
  /\ select(k)
  /\ removed' = IF Expired(k) THEN removed + 1 ELSE removed
  /\ ttl_pc' = IF Expired(k) \/ ~Stored(k) THEN "release" ELSE "recheck"
  /\ at' = k
  /\ UNCHANGED <<GLOBAL_MEMORY, guard, CACHED_TIME_MS, writes, collect_at, active_shards,
                 keys_check, expired_count>>

\* Wrong: what was sampled is removed, whatever its expiry.
ttl_recheck_unconditional ==
  /\ ttl_pc = "recheck"
  /\ remove_entry(at)
  /\ expired_count' = expired_count + 1 /\ removed' = removed + 1
  /\ ttl_pc' = "release"
  /\ UNCHANGED <<GLOBAL_MEMORY, guard, CACHED_TIME_MS, writes, collect_at, active_shards, at,
                 keys_check>>

\* The expiry is compared with the clock once more, which may have gone on.
ttl_recheck ==
  /\ ttl_pc = "recheck"
  /\ \/ /\ Expired(at) /\ remove_entry(at)
        /\ expired_count' = expired_count + 1 /\ removed' = removed + 1
     \/ ~Expired(at) /\ UNCHANGED <<shardVars, expired_count, removed>>
  /\ ttl_pc' = "release"
  /\ UNCHANGED <<GLOBAL_MEMORY, guard, CACHED_TIME_MS, writes, collect_at, active_shards, at,
                 keys_check>>

ttl_release ==
  /\ ttl_pc = "release"
  /\ unlock(ShardOf[at], "ttl")
  /\ keys_check' = keys_check - 1
  /\ ttl_pc' = "pick"
  /\ UNCHANGED <<shardVars, GLOBAL_MEMORY, CACHED_TIME_MS, writes, collect_at, active_shards, at,
                 expired_count, removed>>

ttl_batch_done ==
  /\ ttl_pc = "pick" /\ (keys_check = 0 \/ active_shards = {})
  /\ ttl_pc' = "batch_done"
  /\ UNCHANGED <<storeVars, collect_at, active_shards, at, keys_check, expired_count, removed>>

\* Few samples had expired: rest for 100 ms.  Many had: another batch, unless
\* the time budget is used up.
ttl_rest ==
  /\ ttl_pc = "batch_done"
  /\ \/ ttl_pc' = "sleep" /\ UNCHANGED <<keys_check, expired_count, removed>>
     \/ expired_count >= Threshold /\ NewBatch
  /\ UNCHANGED <<storeVars, collect_at, active_shards, at>>

TtlNext ==
  \/ ttl_wake \/ ttl_collect \/ ttl_collected
  \/ \E s \in Shard : ttl_pick(s)
  \/ ttl_lock
  \/ \E k \in Key : ttl_sample(k)
  \/ ttl_recheck \/ ttl_release \/ ttl_batch_done \/ ttl_rest

Next == TtlNext \/ (StoreNext /\ UNCHANGED ttlVars)

\* The task runs whenever it can, clients release their locks, the RwLock is
\* fair to who waits, and the random draws leave no shard and no key out for
\* ever (they are uniform and independent).  The task is at one place at a time,
\* so that one condition covers the steps that need no lock and one those that do.
Fairness ==
  /\ WF_vars(ttl_wake \/ ttl_collected \/ ttl_recheck \/ ttl_release \/ ttl_batch_done \/ ttl_rest)
  /\ SF_vars(ttl_collect \/ ttl_lock)
  /\ \A s \in Shard : SF_vars(ttl_pick(s))
  /\ \A k \in Key : SF_vars(ttl_sample(k))
  /\ \A s \in Shard : /\ WF_vars(settle(s) /\ UNCHANGED ttlVars)
                      /\ SF_vars(client_unlock(s) /\ UNCHANGED ttlVars)

Spec == Init /\ [][Next]_vars /\ Fairness

-----------------------------------------------------------------------------
(* Properties *)

\* The task removes a key only if the key has expired when it is removed,
\* although the clients may have replaced the entry since the shard was chosen.
RemovesOnlyExpired ==
  [][\A k \in Key : (TtlNext /\ Stored(k) /\ ~Stored(k)') => Expired(k)]_vars

\* An expired entry does not stay: the sampling gets to it although the clients
\* keep the shard busy and other keys are drawn again and again.
ExpiredEntriesGo == \A k \in Key : Expired(k) ~> ~Expired(k)

\* "If this batch finds many expired keys, do not sleep, go on": a batch that
\* removed Threshold expired keys counts as many.
ManyExpiredKeepSampling ==
  ttl_pc = "batch_done" /\ removed >= Threshold => expired_count >= Threshold
=============================================================================

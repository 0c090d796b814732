--------------------------- MODULE MemoryEvictor ---------------------------
(***************************************************************************)
(* eviction_memory (eviction_alo.rs) beside the clients of ShardStore: it  *)
(* reads GLOBAL_MEMORY without a lock, reads the shards one after another, *)
(* and starts one deleting task for each of the largest ones.              *)
(***************************************************************************)
EXTENDS ShardStore

CONSTANTS target_memory,
          MaxShards,    \* EVICTION_MAX_NUMBER: 5 in the code
          Batch         \* deletions under one lock: 200 in the code

VARIABLES mem_pc,     \* "patrol", "scan" or "wait"
          scan_at,    \* the shard that is read next
          largest,    \* the BinaryHeap: a set of <<memory, shard>>
          task,       \* per shard: "none", "loop", "lock", "batch" or "victim"
          deleted,    \* per shard: deleted_in_batch
          freed       \* history: what the clients have freed unseen by the last load

evictorVars == <<mem_pc, scan_at, largest, task, deleted>>
vars == <<storeVars, evictorVars, freed>>

Init ==
  /\ StoreInit
  /\ mem_pc = "patrol" /\ scan_at = 0 /\ largest = {}
  /\ task = [s \in Shard |-> "none"]
  /\ deleted = [s \in Shard |-> 0]
  /\ freed = 0

Victim(p) == IF PolicyKind = "LRU" THEN LruVictim(p) ELSE LfuVictim(p)

Smaller(a, b) == a[1] < b[1] \/ (a[1] = b[1] /\ a[2] < b[2])

\* push and, above EVICTION_MAX_NUMBER, pop of the heap of Reverse tuples.
Pushed(heap, x) ==
  LET h == heap \cup {x}
  IN  IF Cardinality(h) <= MaxShards THEN h
      ELSE h \ {CHOOSE m \in h : \A y \in h : y = m \/ Smaller(m, y)}

\* The loop finds the memory above the target and starts to read the shards.
mem_patrol ==
  /\ mem_pc = "patrol" /\ GLOBAL_MEMORY > target_memory
  /\ mem_pc' = "scan" /\ scan_at' = 0 /\ largest' = {}
  /\ UNCHANGED <<storeVars, task, deleted, freed>>

\* Wrong: the loop starts one shard too late.
mem_scan_first_left_out ==
  /\ mem_pc = "scan" /\ scan_at < NumShards
  /\ guard[scan_at] = "free"
  /\ largest' = IF approx_memory[scan_at] = 0 \/ scan_at = 0 THEN largest
                ELSE Pushed(largest, <<approx_memory[scan_at], scan_at>>)
  /\ scan_at' = scan_at + 1
  /\ UNCHANGED <<storeVars, mem_pc, task, deleted, freed>>

\* get_memory_usage of one shard, under its read lock.
mem_scan ==
  /\ mem_pc = "scan" /\ scan_at < NumShards
  /\ guard[scan_at] = "free"
  /\ largest' = IF approx_memory[scan_at] = 0 THEN largest
                ELSE Pushed(largest, <<approx_memory[scan_at], scan_at>>)
  /\ scan_at' = scan_at + 1
  /\ UNCHANGED <<storeVars, mem_pc, task, deleted, freed>>

\* One task for each shard of the heap.
mem_spawn ==
  /\ mem_pc = "scan" /\ scan_at = NumShards
  /\ task' = [s \in Shard |-> IF \E m \in largest : m[2] = s THEN "loop" ELSE "none"]
  /\ mem_pc' = "wait"
  /\ UNCHANGED <<storeVars, scan_at, largest, deleted, freed>>

\* Every handle was awaited.
mem_join ==
  /\ mem_pc = "wait" /\ \A s \in Shard : task[s] = "none"
  /\ mem_pc' = "patrol" /\ freed' = 0
  /\ UNCHANGED <<storeVars, scan_at, largest, task, deleted>>

\* The task reads GLOBAL_MEMORY, without a lock: it ends because the memory is
\* back at the target, ...
task_healthy(s) ==
  /\ task[s] = "loop" /\ GLOBAL_MEMORY <= target_memory
  /\ task' = [task EXCEPT ![s] = "none"]
  /\ UNCHANGED <<storeVars, mem_pc, scan_at, largest, deleted, freed>>

\* ... or goes for the write lock, ...
task_over(s) ==
  /\ task[s] = "loop" /\ GLOBAL_MEMORY > target_memory
  /\ task' = [task EXCEPT ![s] = "lock"]
  /\ UNCHANGED <<storeVars, mem_pc, scan_at, largest, deleted, freed>>

\* ... and waits for it, whatever the memory does meanwhile.
task_lock(s) ==
  /\ task[s] = "lock"
  /\ lock(s, "memory")
  /\ task' = [task EXCEPT ![s] = "batch"]
  /\ deleted' = [deleted EXCEPT ![s] = 0]
  /\ UNCHANGED <<shardVars, GLOBAL_MEMORY, CACHED_TIME_MS, writes, mem_pc, scan_at, largest, freed>>

\* What the clients have taken out of their shards and GLOBAL_MEMORY still counts.
Unshown ==
  Total([s \in Shard |-> IF guard[s] = "client" /\ owed[s] < 0 THEN 0 - owed[s] ELSE 0])


\* The condition of the batch: another read of GLOBAL_MEMORY, which the tasks of
\* the other shards go on to change.
task_load(s) ==
  /\ task[s] = "batch" /\ owed[s] = 0
  /\ deleted[s] < Batch /\ GLOBAL_MEMORY > target_memory
  /\ task' = [task EXCEPT ![s] = "victim"]
  /\ freed' = Unshown
  /\ UNCHANGED <<storeVars, mem_pc, scan_at, largest, deleted>>

\* pop_victim and delete, on the strength of that read.
task_evict(s) ==
  /\ task[s] = "victim" /\ policy[s].order # <<>>
  /\ remove_entry(Victim(policy[s]))
  /\ task' = [task EXCEPT ![s] = "batch"]
  /\ deleted' = [deleted EXCEPT ![s] = @ + 1]
  /\ UNCHANGED <<GLOBAL_MEMORY, guard, CACHED_TIME_MS, writes, mem_pc, scan_at, largest, freed>>

\* The batch ends; the task goes on unless it deleted nothing or its time
\* budget is used up.
task_release(s) ==
  /\ \/ task[s] = "batch" /\ (deleted[s] = Batch \/ GLOBAL_MEMORY <= target_memory)
     \/ task[s] = "victim" /\ policy[s].order = <<>>
  /\ unlock(s, "memory")
  /\ \E next \in {"loop", "none"} :
       /\ deleted[s] = 0 => next = "none"
       /\ task' = [task EXCEPT ![s] = next]
  /\ UNCHANGED <<shardVars, GLOBAL_MEMORY, CACHED_TIME_MS, writes, mem_pc, scan_at, largest, deleted,
                 freed>>

EvictorNext ==
  \/ mem_patrol \/ mem_scan \/ mem_spawn \/ mem_join
  \/ \E s \in Shard : \/ task_healthy(s) \/ task_over(s) \/ task_lock(s)
                      \/ task_load(s) \/ task_evict(s) \/ task_release(s)

\* The clients beside the evictor.
Beside ==
  /\ UNCHANGED evictorVars
  /\ LET gone == Total(approx_memory) - Total(approx_memory')
     IN  freed' = IF mem_pc = "wait" /\ gone > 0 THEN freed + gone ELSE freed

Next == EvictorNext \/ (StoreNext /\ Beside)

\* The runtime runs every task that can go on, a client does not keep a lock
\* for ever, and the RwLock of tokio is fair to who waits for it.
Fairness ==
  /\ WF_vars(mem_patrol \/ mem_spawn \/ mem_join) /\ SF_vars(mem_scan)
  /\ \A s \in Shard :
       /\ SF_vars(task_lock(s))
       /\ WF_vars(task_healthy(s) \/ task_over(s) \/ task_load(s) \/ task_evict(s) \/ task_release(s))
       /\ WF_vars(settle(s) /\ Beside)
       /\ SF_vars(client_unlock(s) /\ Beside)

Spec == Init /\ [][Next]_vars /\ Fairness

-----------------------------------------------------------------------------
(* Properties *)

\* Once the clients stop to insert, the evictor brings the memory to the target
\* and it stays there: no task spins on a key it cannot delete, none gives up
\* while a shard has something to evict.
MemoryIsReclaimed == <>[](GLOBAL_MEMORY <= target_memory)

=============================================================================

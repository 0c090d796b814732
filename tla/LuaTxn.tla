------------------------------- MODULE LuaTxn -------------------------------
(***************************************************************************)
(* EVAL on the Lua workers (lua_work.rs, lua_vm.rs, lua_node.rs): lock the *)
(* shards of the declared keys in ascending order, run the calls against   *)
(* LuaCacheNode with its differ_map, send the AOF group, commit shard by   *)
(* shard and release the locks; or release them and forget the differ_map. *)
(* Other connections SET single keys under the lock of one shard.          *)
(*                                                                         *)
(* Expiry and eviction are left out here (ShardStore has them), and so is  *)
(* the choice of a worker by the free capacity of its queue: any idle      *)
(* worker may get the next script.                                         *)
(***************************************************************************)
EXTENDS Integers, Sequences, FiniteSets, SequencesExt, FiniteSetsExt

CONSTANTS Worker, Key, ShardOf, Value, Absent,
          Size,        \* data_size of a value: [Value -> Nat]
          Script, NoScript,
          Free,        \* nobody holds the lock
          Untouched,   \* differ_map has no entry for the key
          MaxTasks     \* bound on the scripts and SETs

Shard == {ShardOf[k] : k \in Key}

ASSUME LuaAssumption ==
  /\ Shard \subseteq Nat /\ Absent \notin Value /\ Untouched \notin Value \cup {Absent}
  /\ NoScript \notin Script /\ Free \notin Worker
  /\ \A v \in Value : Size[v] \in Nat

VARIABLES db_store, lock, log, tasks,
          pc, task,
          shard_indices,     \* the shards that are still to be locked
          at,                \* calls made
          differ_map, local_memory_diff,
          lua_aof_buffer, out,
          uncommitted,       \* the guards commit has not been called on
          drift              \* history: keys the log is wrong about, by a refused SET NX
                             \* or an MSET that failed on the way

sharedVars == <<db_store, lock, log, tasks, drift>>
workerVars == <<pc, task, shard_indices, at, differ_map, local_memory_diff, lua_aof_buffer, out,
                uncommitted>>
vars == <<sharedVars, workerVars>>

Entry == Value \cup {Absent}
KeysOf(s) == {k \in Key : ShardOf[k] = s}
Sized(e) == IF e = Absent THEN 0 ELSE Size[e]
NoChange == [k \in Key |-> Untouched]

Init ==
  /\ db_store = [k \in Key |-> Absent] /\ lock = [s \in Shard |-> Free]
  /\ log = <<>> /\ tasks = 0 /\ drift = {}
  /\ pc = [w \in Worker |-> "idle"] /\ task = [w \in Worker |-> NoScript]
  /\ shard_indices = [w \in Worker |-> <<>>] /\ at = [w \in Worker |-> 0]
  /\ differ_map = [w \in Worker |-> NoChange]
  /\ local_memory_diff = [w \in Worker |-> [s \in Shard |-> 0]]
  /\ lua_aof_buffer = [w \in Worker |-> <<>>] /\ out = [w \in Worker |-> <<>>]
  /\ uncommitted = [w \in Worker |-> {}]

Sessions(w) == {s \in Shard : lock[s] = w}

-----------------------------------------------------------------------------
(* init_lua_pre *)

\* Wrong: the shards in the order of KEYS.
LockOrder_as_given(script) == [i \in DOMAIN script.keys |-> ShardOf[script.keys[i]]]

\* get_shard_index of each key, sort_unstable, dedup.
LockOrder(script) ==
  SetToSortSeq({ShardOf[k] : k \in Range(script.keys)}, LAMBDA a, b : a < b)

eval(w, script) ==
  /\ pc[w] = "idle" /\ tasks < MaxTasks
  /\ tasks' = tasks + 1
  /\ task' = [task EXCEPT ![w] = script]
  /\ shard_indices' = [shard_indices EXCEPT ![w] = LockOrder(script)]
  /\ pc' = [pc EXCEPT ![w] = "lock"]
  /\ UNCHANGED <<db_store, lock, log, drift, at, differ_map, local_memory_diff, lua_aof_buffer, out,
                 uncommitted>>

\* lock_write_lua: wait for the next shard.
lock_shard(w) ==
  /\ pc[w] = "lock" /\ shard_indices[w] # <<>>
  /\ LET s == Head(shard_indices[w])
     IN  lock[s] = Free /\ lock' = [lock EXCEPT ![s] = w]
  /\ shard_indices' = [shard_indices EXCEPT ![w] = Tail(@)]
  /\ UNCHANGED <<db_store, log, tasks, drift, pc, task, at, differ_map, local_memory_diff,
                 lua_aof_buffer, out, uncommitted>>

locked(w) ==
  /\ pc[w] = "lock" /\ shard_indices[w] = <<>>
  /\ pc' = [pc EXCEPT ![w] = "call"]
  /\ UNCHANGED <<sharedVars, task, shard_indices, at, differ_map, local_memory_diff,
                 lua_aof_buffer, out, uncommitted>>

-----------------------------------------------------------------------------
(* LuaCacheNode: a node is the differ_map and local_memory_diff *)

\* select
View(diff, k) == IF diff[k] = Untouched THEN db_store[k] ELSE diff[k]

\* Wrong: the size of what a script wrote before is not taken off.
node_insert_blind(n, k, v) ==
  [diff  |-> [n.diff EXCEPT ![k] = v],
   delta |-> [n.delta EXCEPT ![ShardOf[k]] = @ + Sized(v) - Sized(db_store[k])]]

\* insert; take and delete are an insert of nothing, except that a take of
\* what is not there makes no entry.
node_insert(n, k, v) ==
  [diff  |-> [n.diff EXCEPT ![k] = v],
   delta |-> [n.delta EXCEPT ![ShardOf[k]] = @ + Sized(v) - Sized(View(n.diff, k))]]

node_take(n, k) == IF View(n.diff, k) = Absent THEN n ELSE node_insert(n, k, Absent)

\* Wrong: any shard will do.
Session_unchecked(w, k) == TRUE

\* get_write_lock! and get_read_lock!: the session of the key's shard, or the
\* error that the key was not declared.
Session(w, k) == ShardOf[k] \in Sessions(w)

\* SET, GET, TAKE, MSET up to the first undeclared key, and
\* an error of the script itself: [ok, reply, the node].
Call(w, cmd, n) ==
  LET undeclared == [ok |-> FALSE, reply |-> "error", node |-> n]
      bad == IF cmd.op = "MSET" THEN SelectInSeq(cmd.pairs, LAMBDA p : ~Session(w, p[1])) ELSE 0
  IN  CASE cmd.op = "ERROR" -> undeclared
        [] cmd.op = "MSET" ->
             [ok |-> bad = 0, reply |-> IF bad = 0 THEN "OK" ELSE "error",
              node |-> FoldLeft(LAMBDA m, p : node_insert(m, p[1], p[2]), n,
                                SubSeq(cmd.pairs, 1, IF bad = 0 THEN Len(cmd.pairs) ELSE bad - 1))]
        [] OTHER ->
             IF ~Session(w, cmd.key) THEN undeclared
             ELSE CASE cmd.op = "GET" -> [ok |-> TRUE, reply |-> View(n.diff, cmd.key), node |-> n]
                    [] cmd.op = "TAKE" ->
                         [ok |-> TRUE, reply |-> View(n.diff, cmd.key), node |-> node_take(n, cmd.key)]
                    [] cmd.op = "SET" ->
                         IF cmd.nx /\ View(n.diff, cmd.key) # Absent
                         THEN [ok |-> TRUE, reply |-> Absent, node |-> n]
                         ELSE [ok |-> TRUE, reply |-> "OK", node |-> node_insert(n, cmd.key, cmd.value)]

\* redis.call: a call that returns goes to lua_aof_buffer; an error ends the
\* script unless the script catches it.
redis_call(w) ==
  /\ pc[w] = "call" /\ at[w] < Len(task[w].calls)
  /\ LET cmd == task[w].calls[at[w] + 1]
         c == Call(w, cmd, [diff |-> differ_map[w], delta |-> local_memory_diff[w]])
     IN  \/ /\ c.ok \/ (task[w].guarded /\ cmd.op # "ERROR")
            /\ at' = [at EXCEPT ![w] = @ + 1]
            /\ differ_map' = [differ_map EXCEPT ![w] = c.node.diff]
            /\ local_memory_diff' = [local_memory_diff EXCEPT ![w] = c.node.delta]
            /\ out' = [out EXCEPT ![w] = Append(@, c.reply)]
            /\ lua_aof_buffer' = IF c.ok THEN [lua_aof_buffer EXCEPT ![w] = Append(@, cmd)]
                                 ELSE lua_aof_buffer
            /\ UNCHANGED pc
         \/ /\ ~c.ok /\ ~(task[w].guarded /\ cmd.op # "ERROR")
            /\ pc' = [pc EXCEPT ![w] = "drop"]
            /\ out' = [out EXCEPT ![w] = <<"failed">>]
            /\ UNCHANGED <<at, differ_map, local_memory_diff, lua_aof_buffer>>
  /\ UNCHANGED <<sharedVars, task, shard_indices, uncommitted>>

-----------------------------------------------------------------------------
(* lua_vm_redis_call after the script *)

\* The store as others will see it: a script that has sent its group counts as
\* committed in all of its shards, of which it holds the locks.
StoreSeen ==
  [k \in Key |-> LET committing == {w \in Worker : ShardOf[k] \in uncommitted[w]}
                 IN  IF committing = {} THEN db_store[k]
                     ELSE View(differ_map[CHOOSE w \in committing : TRUE], k)]

A == INSTANCE AtomicScripts WITH
       store  <- StoreSeen,
       result <- [w \in Worker |->
                    IF pc[w] \notin {"commit", "drop"} THEN [ok |-> FALSE, out |-> <<"none">>]
                    ELSE IF out[w] = <<"failed">> THEN [ok |-> FALSE, out |-> <<>>]
                    ELSE [ok |-> TRUE, out |-> out[w]]]

\* Wrong: a group without the last call.
Sent_short(w) == A!Group(Front(lua_aof_buffer[w]))

\* Command::MultiGroup of what was called, encoded.
Sent(w) == A!Group(lua_aof_buffer[w])

\* The keys the log is wrong about once the group of w is in it.  A SET NX that
\* was refused is logged as a SET; what an MSET did before it failed is not
\* logged; a later write of the key sets it right.
Drifted(w) ==
  FoldLeft(LAMBDA keys, i :
             LET cmd == task[w].calls[i]
                 reply == out[w][i]
                 some(n) == {cmd.pairs[j][1] : j \in 1 .. n}
             IN  CASE cmd.op = "SET" /\ reply = Absent -> keys \cup {cmd.key}
                   [] cmd.op = "SET" /\ reply = "OK" -> keys \ {cmd.key}
                   [] cmd.op = "TAKE" /\ reply # "error" -> keys \ {cmd.key}
                   [] cmd.op = "MSET" /\ reply = "OK" -> keys \ some(Len(cmd.pairs))
                   [] cmd.op = "MSET" /\ reply = "error" ->
                        keys \cup some(A!Reachable(cmd.pairs, Sessions(w)))
                   [] OTHER -> keys,
           drift, [i \in 1 .. Len(out[w]) |-> i])

\* The script returned: its group goes to the AOF while all locks are held.
send_group(w) ==
  /\ pc[w] = "call" /\ at[w] = Len(task[w].calls)
  /\ log' = IF lua_aof_buffer[w] = <<>> THEN log ELSE Append(log, Sent(w))
  /\ drift' = Drifted(w)
  /\ uncommitted' = [uncommitted EXCEPT ![w] = Sessions(w)]
  /\ pc' = [pc EXCEPT ![w] = "commit"]
  /\ UNCHANGED <<db_store, lock, tasks, task, shard_indices, at, differ_map, local_memory_diff,
                 lua_aof_buffer, out>>

\* The changes of one shard go to the store.
Committed(w, s) == [k \in Key |-> IF k \in KeysOf(s) THEN View(differ_map[w], k) ELSE db_store[k]]

\* LockedDb::commit of one guard; the guards come in no particular order.
commit(w, s) ==
  /\ pc[w] = "commit" /\ s \in uncommitted[w]
  /\ db_store' = Committed(w, s)
  /\ uncommitted' = [uncommitted EXCEPT ![w] = @ \ {s}]
  /\ UNCHANGED <<lock, log, tasks, drift, pc, task, shard_indices, at, differ_map, local_memory_diff,
                 lua_aof_buffer, out>>

committed(w) ==
  /\ pc[w] = "commit" /\ uncommitted[w] = {}
  /\ pc' = [pc EXCEPT ![w] = "drop"]
  /\ UNCHANGED <<sharedVars, task, shard_indices, at, differ_map, local_memory_diff,
                 lua_aof_buffer, out, uncommitted>>

\* A guard is dropped, with its differ_map: after the commit, or to roll back.
release(w, s) ==
  /\ pc[w] = "drop" /\ s \in Sessions(w)
  /\ lock' = [lock EXCEPT ![s] = Free]
  /\ UNCHANGED <<db_store, log, tasks, drift, workerVars>>

\* CURRENT_ENV is cleared and the result sent to the connection.
answer(w) ==
  /\ pc[w] = "drop" /\ Sessions(w) = {}
  /\ pc' = [pc EXCEPT ![w] = "idle"] /\ task' = [task EXCEPT ![w] = NoScript]
  /\ at' = [at EXCEPT ![w] = 0]
  /\ differ_map' = [differ_map EXCEPT ![w] = NoChange]
  /\ local_memory_diff' = [local_memory_diff EXCEPT ![w] = [s \in Shard |-> 0]]
  /\ lua_aof_buffer' = [lua_aof_buffer EXCEPT ![w] = <<>>] /\ out' = [out EXCEPT ![w] = <<>>]
  /\ UNCHANGED <<sharedVars, shard_indices, uncommitted>>

\* SET of another connection: lock, insert, AOF, unlock.
client_set(k, v) ==
  /\ tasks < MaxTasks /\ lock[ShardOf[k]] = Free
  /\ db_store' = [db_store EXCEPT ![k] = v]
  /\ log' = Append(log, <<[op |-> "SET", key |-> k, value |-> v, nx |-> FALSE]>>)
  /\ tasks' = tasks + 1
  /\ drift' = drift \ {k}
  /\ UNCHANGED <<lock, workerVars>>

Working(w) ==
  \/ locked(w) \/ redis_call(w) \/ send_group(w) \/ committed(w) \/ answer(w)
  \/ \E s \in Shard : commit(w, s) \/ release(w, s)

Next ==
  \/ \E w \in Worker : Working(w) \/ lock_shard(w) \/ \E script \in Script : eval(w, script)
  \/ \E k \in Key, v \in Value : client_set(k, v)

\* A worker goes on whenever it can, and the RwLock serves who waits in turn.
Fairness == \A w \in Worker : WF_vars(Working(w)) /\ SF_vars(lock_shard(w))

Spec == Init /\ [][Next]_vars /\ Fairness

-----------------------------------------------------------------------------
(* Properties *)

\* Scripts are atomic and isolated: every run of the workers is one of
\* AtomicScripts, where a script runs alone, in one step, or not at all.
ImplementsAtomicScripts == A!Spec

\* Locking in ascending order: no set of scripts ends up waiting in a circle,
\* and every script is answered.
ScriptsFinish == \A w \in Worker : (pc[w] # "idle") ~> (pc[w] = "idle")

\* local_memory_diff, which the code keeps for the memory accounting and does not
\* read yet, is what the commit will add to the memory of the shard,
\* through any sequence of inserts and takes of the same key.
DiffIsExact ==
  \A w \in Worker, s \in Shard :
    pc[w] = "call" =>
      local_memory_diff[w][s] =
        MapThenSumSet(LAMBDA k : Sized(View(differ_map[w], k)) - Sized(db_store[k]), KeysOf(s))

\* The log restores the store, between any two commits: the group of a script
\* has the effect of the script, on every key but those of two calls the code logs
\* wrongly, until they are written again: a SET NX that was refused (it is logged
\* without its condition), and an MSET that met an undeclared key, in a script that
\* catches the error (what it wrote stays and is not logged).
LogRestoresStore == \A k \in Key \ drift : A!Replayed[k] = StoreSeen[k]

\* Without the exceptions: the log restores the whole store.
LogRestoresAll == A!Replayed = StoreSeen
=============================================================================

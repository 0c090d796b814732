# rust-kv in TLA+

A verification development for rust-kv, the sharded in-memory key-value server
in `src/`. It has models of the parts where concurrency, crashes or pointer
surgery make the code hard to test, TLC instances that check them, and machine
proofs for the pointer list, for the store under its background tasks, and for
the stream a replica gets.

`PROJECT.json` lists the runs, the source lines behind each definition, the
hazards and the findings.

## The system and its parts

A connection (`server.rs`) parses RESP frames into commands and executes them
one after another. A command locks the shard of its key (a tokio `RwLock` for
each of the `num_shards` parts of the key space), changes the shard's
`HashMap`, and sends its encoding to the AOF channel (`CommandContext::send_aof`),
which also feeds the replicas. Each shard has an eviction policy, LRU or LFU,
and an account of its memory; a global account adds these up. In the background
run the clock, a TTL sampler that removes expired keys, a memory evictor that
spawns one task for each of the largest shards, the AOF writer, and the election
timer. EVAL goes to one of several Lua workers, which locks all shards of the
declared keys, collects the script's changes in a `differ_map`, and commits them
at the end. BLPOP registers a oneshot sender in a queue that LPUSH serves. At the
start the AOF is replayed before the first connection is accepted.

| Part | Source | Module | State |
|---|---|---|---|
| LRU policy | `db/eviction/lru/*` | `LruNode`, `RecencyOrder`, `LruNodeUnlink`, `LruNodeMove`, `LruNodeProofs` | modelled, proved |
| LFU policy, policy enum | `db/eviction/lfu/*`, `strategy.rs` | `LfuNode`, `EvictionPolicy`, `EvictionStrategy` | modelled |
| Shard store, locks, accounts, clock | `cache_store.rs`, `direct_node.rs`, `db/mod.rs`, `core_time.rs` | `ShardStore`, `ShardStoreProofs` | partly |
| Memory evictor | `eviction_alo.rs` | `MemoryEvictor`, `MemoryEvictorProofs` (with `ShardStore`) | modelled, partly proved |
| TTL sampler | `eviction_alo.rs` | `TtlSampler`, `TtlSamplerProofs` (with `ShardStore`) | modelled, partly proved |
| LPUSH, LPOP, BLPOP | `executor/list.rs` | `BlockingList` | partly |
| Append-only file | `core_aof.rs`, `aof_encoder/mod.rs` | `Aof` | partly |
| Lua scripts, SET/GET/MSET in scripts | `lua/*`, `lua_node.rs`, `executor/string.rs` | `LuaTxn`, `AtomicScripts` | partly |
| Commands, their log entries and the replay | `executor/*`, `aof_encoder/*` | `CommandLog` | partly |
| Sorted sets and the skip list | `db/zset/*`, `executor/zset.rs` | `SkipList`, `ZSet`, `SortedSet` | modelled |
| Accept loop, connections, shutdown | `lib.rs`, `server.rs`, `shutdown.rs` | `Server` | modelled, the commands reduced to how they end |
| Replication | `replication/*`, `executor/mod.rs` | `Replication`, `ReplicationMaster`, `ReplicationProofs` | modelled, proved |
| RESP grammar and command parsers | `core_explain.rs`, `parser/*` | | their outcome on cut input is in `Aof`, `Server`, `Replication` |
| Election, configuration, metrics, Lua value conversion | `election.rs`, `config.rs`, `main.rs`, `lua_exchange.rs` | | not modelled, see below |

## The modules

A definition called `name_something` that stands just before `name` is a
deliberately wrong variant, used to show that a property notices it.

**`LruNode`**. The list of `lru_linklist.rs` on an explicit heap: an address is
allocated or not, the allocator may reuse any free address, and a pointer is an
address. `push_back`, `push_mid_back`, `pop_node` and `pop_front` are the methods
of the list; `on_write`, `on_read` and `on_delete` are those of `LruNode`; `drop`
frees the list node by node. Each policy call runs under a mutex, so it is one
step. `older` is a history variable with the order of the last uses.
`RecencyOrder` is the abstract specification, a sequence of keys;
`MCLruNode` maps the pointer chain to it.

**`LfuNode`**. Frequency buckets, `min_freq` and its search when a bucket runs
empty, the cap of the counter (255 in the code, `MaxFreq` here), the sample
vector. Next to the code's state it carries the value of `EvictionPolicy`,
the policy as pure operators, and is checked to agree with it.

**`EvictionStrategy`**. The enum of `strategy.rs`: which node a shard has is
chosen once, and every call of the trait goes to it. It composes the two modules
above, and its run checks both.

**`ShardStore`**. The shards with `db_store`, policy (the value of
`EvictionPolicy`) and `approx_memory`, `GLOBAL_MEMORY`, write guards and the
cached time. An entry is its size and its expiry. `insert_entry` and
`remove_entry` change the shard and its account; `settle` is the second atomic,
`GLOBAL_MEMORY`, a step of its own that other shards' tasks can come before.
Client steps run under a guard. The module has no specification of its own;
`MemoryEvictor` and `TtlSampler` compose it with a background task.

**`MemoryEvictor`**. The patrol, the scan that keeps the largest shards in a heap,
the spawned tasks, each of which evicts in batches under the write lock, and the
join. A task reads `GLOBAL_MEMORY` (`task_load`) and deletes in a later step
(`task_evict`), so that others delete in between; the history variable `freed`
is what clients have freed since the last such read. **`TtlSampler`**. Collecting the shards in use, drawing shard and key,
`select` (which removes an expired key), the second comparison with the clock,
the rest after a batch.

**`BlockingList`**. One step for each part of a command between two awaits: LPUSH
first serves the queue, then locks and stores, then logs; BLPOP tries under the
lock and registers there, then waits for its channel or its timer. A receiver
still exists for a moment after its timer has fired.

**`Aof`**. The channel, the batches, the page cache (`file`) and the synced part
of it (`synced`), the fsync policy, chosen at the start, and the drain at the
shutdown. A crash keeps the synced part and any part of the rest. The recovery
reads the file in chunks of `BufLen`, parses frame by frame and collects
transactions. A frame is as many units as its size, so it can be cut anywhere.
Crashes and restarts may come in any order. `spoiled` remembers that a recovery
went on with the `tail_file_length` of an earlier chunk after one that was parsed
to its end.

**`LuaTxn`**. Two workers lock shard after shard, call, send their group, commit
and release shard by shard; other connections SET keys between any two steps.
**`AtomicScripts`** says what that is worth: a script is one step. The refinement
maps a script that has sent its group to one that has executed; its shards are
locked, so the store as others can see it (`StoreSeen`) is the committed one. The
pairs of an MSET are listed in the order of the keys, in which the code sorts
them. A removal in a script (`TAKE`) stands for LPOP, HDEL and ZREM of a last
element. `drift` has the keys the log is wrong about, by a refused SET NX or a
caught MSET error, until they are written again. The code only writes
`local_memory_diff`; nothing reads it yet.

**`CommandLog`**. SET with its condition and its expiry option, MSET, HSET, HDEL,
ZADD, ZREM and JSON.SET as functions from the entry of a key to the new entry,
whether the command is logged, and whether it returns an error. `Recovered` folds
the same functions over the log, as `explain_execute_aofcommand` does, with the
clock at 0. SET computes its expiry before it has the lock (`SetBegin`) and is
logged under it (`SetRun`); MSET writes key by key (`MSetKey`) and logs at the
end. The TTL sampler and the evictor remove entries and log nothing; `drift`
remembers for which keys store and log went apart that way, `misdated` which were
last set with EX.

**`SkipList`**, **`ZSet`**. `SkipList` has the slab with its free list, the levels
and the spans as words of `Width` bits that wrap, and `insert`, `delete`,
`get_rank` and `get_element_by_rank` as operators that walk the levels the way
the loops do. `ZSet` keeps the dictionary beside it and has the commands. The
random level is any level. **`SortedSet`** is what they promise: a set of members
with one score each, and replies that count.

**`Server`**. The accept loop takes a new receiver of the shutdown broadcast on
every turn; a connection takes one when its task first runs. A receiver is
`open`, holds the `signal`, or is `deaf` because the signal was sent before it
subscribed. A read brings any frames and perhaps half of one more; the frames are
executed one by one and their replies collected in a batch. An error drops the
batch, the rest of the buffer and the half frame, after which the other half
reads as garbage (`torn`). PSYNC turns the connection into a stream. Writing to a
socket takes as long as the client likes (`Writing`). The TTL task keeps one
receiver; the memory task takes one on every turn and looks at it once, so it can
miss the signal. `shutdown`
awaits the groups of tasks in the order of `Stages`. An execution that returns an
error and a frame that is no command end in the same way (`fail`), so the run has
only the latter. PSYNC is recognised in whole frames, although `is_psync_request`
searches the bytes.

**`Replication`**. A command stores its value, logs it and broadcasts it in three
steps, with the write lock kept (`held`) or not. The hub keeps `Cap` messages; a
handler that has fallen behind gets `Lagged` and goes on with the oldest one
left. A connection can break at any step, and the replica opens a new one. The
replica's loop takes frames from the front of its buffer as long as they parse.
The replica executes a command with a log channel of its own that nobody reads,
so what it replays is not logged there and not in the model.

## The runs

Passing runs:

| Run | Instance | What it shows |
|---|---|---|
| `policies` | 4 keys, 4 addresses, frequency cap 3 | LRU: no dangling pointer, links agree both ways, the sample index is exact, the victim is least recently used, the list implements `RecencyOrder`. LFU: buckets, victim and sample index agree with `EvictionPolicy` |
| `memory_evictor` | 3 keys, 2 shards, sizes 1 and 2, LFU, two tasks at once | the policy tracks exactly what is stored, the accounts are exact and never below zero, memory gets back to the target, the overshoot of parallel evictions is bounded |
| `ttl` | 3 keys, 2 shards, batches of 2 | the sampler removes only expired keys, and an expired key goes |
| `blocking` | 2 LPUSH (1 and 2 values), LPOP, 2 BLPOP (one with a timeout), SET | no double delivery, no loss but at a timeout, service in order |
| `aof` | 3 messages, each fsync policy, 1 crash and 2 orderly restarts, a buffer of 8 units | a prefix of whole transactions comes back with all that was synced, but for single commands behind a torn transaction; the file has whole frames, an orderly shutdown keeps everything, a recovery that fails in its first buffer has lost nothing, every message is synced; `spoiled` recoveries are left out |
| `lua` | 2 workers, 3 keys, 2 shards, 8 scripts | atomicity and isolation, exact memory difference, the log restores every key outside `drift`, scripts that cross finish |
| `zset` | 3 members, 2 scores, 3 levels, words of 3 bits | pointers, spans and slab are exact, ranks and ranges are those of the sorted dictionary (`stop >= -n`), the list implements `SortedSet` |
| `recovery` | 2 keys, 2 fields, 2 values, 2 clients, 2 log entries, time up to 3 | the log rebuilds every key whose changes were all logged, with its expiry (after EX, with a later one); the replay fails only on a key that was dropped without a log entry and reused |
| `server` | a client with 2 good or bad frames, one with a BLPOP or PSYNC | replies in the order of the commands, an error in the place of every reply that is dropped, no logged write lost at the exit, the shutdown completes unless a task cannot hear it for good |
| `replication` | 1 key, 2 writers, 3 commands, 2 connections, a hub of 1 | the stream follows the log, and is complete unless a lag was reported |

In the runs whose configuration turns the deadlock check off the modelled system
may really stop: the list was dropped (`policies`), the process ended (`aof`,
`server`, `replication`), or the bounded commands are all issued (`blocking`,
`lua`).

Two runs show a disagreement between the code and what the repository says of
it (the quotations are in `PROJECT.json`, under findings):

| Run | What happens |
|---|---|
| `recovery_conflict` | SET k; k is evicted, which is not logged; ZADD k is logged. The replay runs ZADD on the string, fails, and the process does not start |
| `replica_replay` | the replica's loop never gets past the `+FULLRESYNC` line, and executes nothing |

The models show further disagreements that have no run of their own. Each is
reproduced by a copy of the configuration named here with the constants given
and this property alone:

| Configuration | Property | What happens |
|---|---|---|
| `MCTtlSampler.cfg` | `ManyExpiredKeepSampling` | `select` removes the expired key before the sampler can count it, so a batch that found many expired keys rests all the same (`eviction_alo.rs:49`) |
| `MCBlockingList.cfg`, `Pusher = {p1}`, `Pushes <- OnePush`, `Blocker = {b1}`, no Popper, Setter, Impatient | `BlockedIsServed` | a BLPOP that registers between LPUSH's look at the queue and its store stays blocked beside the element (`README.md:98`: "支持客户端在列表为空时安全阻塞等待，直到有新元素被 push 或超时") |
| `MCBlockingList.cfg`, `Pusher = {p1}`, `Pushes <- OnePush`, no Blocker, Setter, Impatient | `LogRestoresList` | LPUSH logs after it released the shard; the LPOP of its value may be logged first (`executor/mod.rs:82` demands the lock) |
| `MCBlockingList.cfg`, no Popper, Setter, Impatient | `LogRestoresList` | an LPUSH that was delivered in full is not logged, the LPOPs of the receivers are |
| `MCBlockingList.cfg` | `NoValueLost` | a value sent between the timer of a BLPOP and the drop of its receiver is lost |
| `MCAof.cfg`, `BufLen = 40` | `RollbackIsPerfect` | the MULTI of a torn transaction stays in the file and swallows later commands at the second restart (`core_aof.rs:242`: "完成完美回滚") |
| `MCAof.cfg`, `MaxCrashes = 0` | `AcknowledgedSurvives` | `tail_file_length` survives a fully parsed chunk and cuts off good data: files larger than the buffer lose commands at the second start (with `BufLen = 40` the property holds) |
| `MCAof.cfg` | `NothingDurableIsLost` | the same, seen from the disk: commands that were synced are cut off by one recovery, and a crash right after it leaves the next one without them |
| `MCAof.cfg`, `Policies = {"Always"}`, `BufLen = 40`, `MaxRestarts = 0` | `AcknowledgedSurvives` | under Always a command is answered before it is synced (`.env:23` calls it "绝对安全") |
| `MCAof.cfg`, `BufLen = 40` | `RecoveryNeverFails` | a torn frame at the start of a chunk makes the start fail |
| `MCLuaTxn.cfg` | `LogRestoresAll` | a SET NX that did nothing is logged without NX (`lua_work.rs:26`); a caught MSET error leaves writes that are committed and not logged |
| `MCCommandLog.cfg` | `EveryExpirySurvives` | EX is logged as EXAT with milliseconds, which the replay multiplies by 1000 again (`domain/command.rs:173`: EXAT is in seconds) |
| `MCZSet.cfg` | `RangeIsSlice` | `ZRANGE 0 -(n+1)` on n elements returns the first one; the slice is empty (`db/zset/mod.rs:69`) |
| `MCServer.cfg` | `ShutdownAlwaysCompletes` | a task that subscribes after the broadcast, a BLPOP, a client that does not read, or the memory task, whose receiver of the last turn had the signal (`eviction_alo.rs:108`), keeps the shutdown waiting |

All of these bound what the passing runs say. The behaviours are in the models
and in the instances; the properties of the passing runs leave out exactly the
cases named in their comments: `spoiled` recoveries and commands behind a torn
transaction (`Aof`), keys in `drift` (`LuaTxn`, `CommandLog`) or `misdated`
(`CommandLog`), a stop before the beginning (`ZSet`), and `Deaf` tasks (`Server`).

Two further observations. A release build of the skip list wraps at
`skip_list.rs:195` when the last element of a level is deleted (`0 - 1`) and comes
right in the same statement; a build with overflow checks would panic there.
And `ARCHITECTURE.md` says that a protocol error skips one command, while
`server.rs` clears the whole buffer, as `fail` in `Server` does.

### Bounds

Every bound is a constant. Four keys give a list with a head, a tail and two
inner nodes, so that neighbours of every kind are removed and moved. A frequency
cap of 3 leaves a bucket below, at and above the one that runs empty. Two shards
are the least for which a task can read an account that another one is
changing, and two keys on one of them make the policy choose. With two shards
and a heap of two the evictor never has to drop a shard from its heap; instances
with three shards and four keys pass too, but take TLC nine minutes with two
sizes. In `Aof` a command is two units and a transaction has two commands, so a crash can fall inside a
frame, between the frames of a transaction and between messages; a buffer of 8
units holds some of the files and cuts others. Two workers and two shards are the
least for a circle of waiting scripts. Three members on three levels give nodes
that are first, between and last on a level that others lack, and words of 3 bits
wrap where `usize` does, at zero. Two log entries are enough for a command to
meet what another one left in the log; two frames for an error behind a reply and
a torn frame, and two connections for one that hears the signal while the other
cannot (with three frames the run passes too, in ten minutes). A hub of one message lags as soon as two are sent.
`MaxWrites`, `MaxTime`, `MaxSent`, `MaxTasks`, `MaxLog`, `MaxFrames`,
`MaxCommands`, `MaxSessions`, `MaxCrashes` and `MaxRestarts` bound how often the
environment acts. `recovery` and `recovery_conflict` use the symmetry of the clients,
`replication` that of the writers; neither checks liveness, and no definition
tells these values apart.

### Fairness

Weak fairness of a task's own steps: tokio runs every task that is ready. Strong
fairness of taking a lock: tokio's `RwLock` and `Mutex` queue who waits, so
nobody who waits is overtaken for ever. Strong fairness of a client's unlock: a
command ends and its guard is dropped. In `TtlSampler`, strong fairness of each
random draw: the draws are uniform and independent, and leave out no shard and
no key for ever (with probability one). Timers fire. In `Server` the tasks are
weakly fair, and nothing is assumed of the clients: `ShutdownCompletes` must hold
although they neither close nor push nor read their replies, and a BLPOP need not
end. A connection that has the signal again and again at its `select!` takes it
(strong fairness): the branches that are ready are tried in random order. For the
memory task this is not assumed, since its receiver does not last. Nothing is
assumed of clients that issue commands, of crashes, or of the clock.
`CommandLog`, `ZSet` and `Replication` have no fairness; only safety is checked
of them.

## The proofs

Every theorem holds for all values of the constants that satisfy the named
assumptions, and for any number of steps. Eight modules hold proofs.

### The LRU list

`LruNodeProofs`, with the lemmas of `LruNodeUnlink` and `LruNodeMove`:

- `MemorySafety`: `Spec => [](TypeOK /\ NoDanglingPointer /\ Linked)`;
- `SampleIndexCorrect`: `Spec => []SampleIndex`;
- `VictimCorrect`: `Spec => []VictimIsLeastRecentlyUsed`.

The only assumption is that `NoNode` is not an address (`NoNodeAssumption`).

None of these is inductive alone. That a removal leaves no dangling pointer needs
links that agree in both directions, and that the map names the one node of its
key. That the head is the oldest key needs the whole list to be sorted. The
inductive invariant `IInv` therefore adds to the properties: `LenCounts` (`len`
is the number of allocated nodes), `NodeIndex` (map and nodes are inverse),
`OlderOrder` (`older` is a total, asymmetric relation on the listed keys) and
`ListOrdered` (a `next` pointer steps over no key of that order, the head is
the least and the tail the greatest). `ListOrdered` describes the order locally,
by one equation per pointer, so no induction along the list is needed.

`InitInv` and `NextInv` say that `IInv` is inductive; `NextInv` has one lemma for
each kind of step (`NewKeyInv`, `MoveInv`, `DeleteInv`, `DropInv`). Moving and
deleting both take a node out of the chain, which `Unlink` and `UnlinkOrder`
state once; `SwapRemove` is the arithmetic of the sample vector.

### The store under its background tasks

- `PolicyTracksStore` (`MemoryEvictorProofs`): `Spec => []PolicyMatchesStore`, for
  any number of shards, keys and eviction tasks, under LRU and LFU;
- `OnlyExpiredRemoved` (`TtlSamplerProofs`): `Spec => RemovesOnlyExpired`.

Both rest on `StoreInv` of `ShardStoreProofs`, `PolicyMatchesStore` with the fact
that every shard has a map and a policy, which is inductive. The lemmas there
show that every operation of the store keeps it, whoever calls it, so that each
of the two compositions has only the steps of its own task left to prove.
`OnlyExpiredRemoved` needs in addition that a step of the sampler removes at most
the key it has drawn (`RemovesOnlyItsKey`). The assumption is `ShardAssumption`,
on the values of the constants.

### The replication stream

- `StreamsFollowLog` (`ReplicationProofs`): `Spec => []StreamFollowsLog`;
- `StreamsAreComplete` (`ReplicationProofs`): `Spec => []StreamIsComplete`,

for any number of keys, writers, replicas and connections and every capacity of
the hub, from `ReplicationAssumption`. A stream is filled from the hub long after
the log was written, so neither is inductive. `IInv` of `ReplicationMaster`
follows a command on its way: it is new to the log until its writer logs it
(`LogUnique`, `TasksOK`); one that logs under its lock still holds the lock until
it is in the hub, which puts hub and log in the same order (`HubOK`); a stream is
an ordered selection of what its handler has received (`StreamOK`); and what the
stream lacks since `+FULLRESYNC` is in the hub ahead of the handler, or with a
writer that is about to send it (`Complete`). That such a writer does send it
needs `PushListens`: while a handler pushes, the hub has a receiver. TLC checked
`IInv` as an invariant of the instance with two commands before it was proved.

### Only model-checked

All liveness, which the prover does not handle. The refinements (`RecencyOrder`,
`AtomicScripts`, `SortedSet`) and whatever is defined by recursion along a list, a
log or a file (`LogRestoresStore`, `RecoversPrefix`, `SpansExact`, `AccountsExact`
with its sums): facts about what a recursive function or a fold computes need an
induction that the prover cannot instantiate. The remaining invariants of
`BlockingList`, `LuaTxn` and `Server`.

## Not modelled

- The grammar of RESP and of the commands (`core_explain.rs`, `core_exchange.rs`,
  `parser/*`): pure functions of bytes. Their outcome on whole, cut and wrong input
  is what the other models use.
- The election (`election.rs`): a timeout makes the node a candidate and raises
  the term. It sends no message, counts no vote, and nothing else reads the
  result, so there is no agreement to state.
- Lua value conversion, configuration, metrics, `main.rs`: no state of their own.
- Of the modelled parts: read guards that overlap (several readers of one shard
  are modelled one after the other; the policy's mutex makes their updates
  sequential); errors of the disk (the writer logs them and goes on); expiry in
  `LuaTxn` and `BlockingList`; the choice of a Lua worker by queue depth (any idle
  worker may get the script); the sixteen databases (they share no key, and are
  further shards to the evictor); scores that are NaN and the memory estimate of a
  sorted set; the sizes of hashes and documents (JSON.SET keeps the `data_size` of
  the old value, `json.rs:53`, which the accounts then follow); the surviving part
  of the log after a crash in `CommandLog`, which is the subject of `Aof`.
- The time task is told to end last; its handle is done long before, since the
  task spawns the clock and returns, so the process does not wait for the clock.

----------------------------- MODULE CommandLog -----------------------------
(***************************************************************************)
(* The commands that write a key, what each of them puts in the log, and   *)
(* what the recovery makes of that log (src/executor, src/aof_encoder,     *)
(* explain_execute_aofcommand).  A log entry is appended while the command *)
(* holds the write lock of its key, MSET's after it has released all of    *)
(* its locks.  Which part of the log survives a crash is the subject of    *)
(* Aof; here all of it does.                                               *)
(*                                                                         *)
(* An entry is a map from fields to values: the fields of a hash, the      *)
(* members of a sorted set, the paths of a JSON document; a string has the *)
(* one field Whole.                                                        *)
(***************************************************************************)
EXTENDS Integers, SequencesExt, FiniteSetsExt

CONSTANTS
  Key,                  \* integers, so that MSET can sort them
  Field, Val, Client,
  Units,                \* expiry options of SET: a subset of {"none", "EX", "PX", "EXAT", "PXAT"}
  Second,               \* clock units in a second
  MaxTime, MaxLog       \* bounds

VARIABLES
  now,                  \* the cached clock
  store,                \* the entries of the keys
  pc,                   \* the SET or MSET each client is in
  log,                  \* the commands in the append-only file
  up,                   \* the process runs
  drift,                \* history: keys whose entry changed and the log does not say so
  reused,               \* history: a command that can fail was logged for such a key
  misdated              \* history: keys last set with EX, whose time the log keeps in the wrong unit

vars == <<now, store, pc, log, up, drift, reused, misdated>>

Whole == "whole"
Never == -1             \* expires_at: None
Idle == [op |-> "none"]
NoEntry == [kind |-> "none", data |-> << >>, expires |-> Never]
Simple(v, at) == [kind |-> "string", data |-> (Whole :> v), expires |-> at]

Expired(e, clock) == e.expires # Never /\ clock > e.expires

-----------------------------------------------------------------------------
(* Expiry options.  The log keeps absolute times.                          *)

calculate_expiration_timestamp_ms(opt, clock) ==
  CASE opt.unit = "none" -> Never
    [] opt.unit = "PX"   -> clock + opt.n
    [] opt.unit = "EX"   -> clock + opt.n * Second
    [] opt.unit = "EXAT" -> opt.n * Second
    [] opt.unit = "PXAT" -> opt.n

exchange_absolute_time(n, clock) == clock + n

EncodedOption_relative(opt, clock) == opt
EncodedOption(opt, clock) ==
  CASE opt.unit = "EX" -> [unit |-> "EXAT", n |-> exchange_absolute_time(opt.n * Second, clock)]
    [] opt.unit = "PX" -> [unit |-> "PXAT", n |-> exchange_absolute_time(opt.n, clock)]
    [] OTHER -> opt

-----------------------------------------------------------------------------
(* What each command makes of the entry of its key.  "take" hands out an   *)
(* expired entry like any other; only the condition of a SET looks at the  *)
(* clock, and drops an expired entry.                                      *)

Done(e) == [entry |-> e, logged |-> TRUE, err |-> FALSE]
Unlogged(e) == [entry |-> e, logged |-> FALSE, err |-> FALSE]
Failed(e) == [entry |-> e, logged |-> FALSE, err |-> TRUE]

With(e, kind, f, v) == [e EXCEPT !.kind = kind, !.data = (f :> v) @@ @]
Without(e, f) ==
  IF DOMAIN e.data \subseteq {f} THEN NoEntry
  ELSE [e EXCEPT !.data = [x \in DOMAIN e.data \ {f} |-> e.data[x]]]

set(e, cmd, expires, clock) ==
  LET found == IF cmd.cond # "none" /\ Expired(e, clock) THEN NoEntry ELSE e
  IN  IF \/ cmd.cond = "NX" /\ found # NoEntry
         \/ cmd.cond = "XX" /\ found = NoEntry
      THEN Unlogged(found) ELSE Done(Simple(cmd.val, expires))

hset(e, cmd) ==
  IF e.kind \in {"none", "hash"} THEN Done(With(e, "hash", cmd.field, cmd.val)) ELSE Unlogged(e)

hdel_unlogged(e, cmd) == IF e.kind = "hash" THEN Unlogged(Without(e, cmd.field)) ELSE Unlogged(e)
hdel(e, cmd) == IF e.kind = "hash" THEN Done(Without(e, cmd.field)) ELSE Unlogged(e)

zadd(e, cmd) ==
  IF e.kind \in {"none", "zset"} THEN Done(With(e, "zset", cmd.field, cmd.val)) ELSE Failed(e)

zrem(e, cmd) ==
  IF e.kind \notin {"none", "zset"} THEN Failed(e)
  ELSE IF cmd.field \in DOMAIN e.data THEN Done(Without(e, cmd.field)) ELSE Unlogged(e)

\* JSON.SET of the root makes a document with the one path cmd.field.
json_set_root(e, cmd) ==
  IF e.kind \in {"none", "json"}
  THEN Done([e EXCEPT !.kind = "json", !.data = (cmd.field :> cmd.val)]) ELSE Failed(e)

json_set_path_logs_first(e, cmd) ==
  IF e.kind = "json" /\ cmd.field \in DOMAIN e.data
  THEN Done(With(e, "json", cmd.field, cmd.val)) ELSE [Failed(e) EXCEPT !.logged = TRUE]
json_set_path(e, cmd) ==
  IF e.kind = "json" /\ cmd.field \in DOMAIN e.data
  THEN Done(With(e, "json", cmd.field, cmd.val)) ELSE Failed(e)

execute_command(e, cmd, clock) ==
  CASE cmd.op = "SET" -> set(e, cmd, calculate_expiration_timestamp_ms(cmd.opt, clock), clock)
    [] cmd.op = "MSET" -> Done(Simple(cmd.val, Never))
    [] cmd.op = "HSET" -> hset(e, cmd)
    [] cmd.op = "HDEL" -> hdel(e, cmd)
    [] cmd.op = "ZADD" -> zadd(e, cmd)
    [] cmd.op = "ZREM" -> zrem(e, cmd)
    [] cmd.op = "JSON.SET /" -> json_set_root(e, cmd)
    [] cmd.op = "JSON.SET" -> json_set_path(e, cmd)

-----------------------------------------------------------------------------
(* The recovery: it executes the commands of the log before the clock is   *)
(* started, and stops at the first one that returns Err.                   *)

Empty == [k \in Key |-> NoEntry]

Replayed(state, cmd) ==
  IF state.failed THEN state
  ELSE LET r == [k \in cmd.keys |-> execute_command(state.store[k], cmd, 0)]
       IN  [store |-> [k \in Key |-> IF k \in cmd.keys THEN r[k].entry ELSE state.store[k]],
            failed |-> \E k \in cmd.keys : r[k].err]

Recovered == FoldLeft(Replayed, [store |-> Empty, failed |-> FALSE], log)

-----------------------------------------------------------------------------
(* Actions.                                                                *)

Init ==
  /\ now = 1
  /\ store = Empty
  /\ pc = [c \in Client |-> Idle]
  /\ log = << >>
  /\ up = TRUE
  /\ drift = {}
  /\ reused = FALSE
  /\ misdated = {}

Room == up /\ Len(log) + Cardinality({c \in Client : pc[c] # Idle}) < MaxLog

\* A command on key k ends: its entry is stored, and the command is logged.
Finish(k, r, encoded) ==
  /\ store' = [store EXCEPT ![k] = r.entry]
  /\ log' = IF r.logged THEN Append(log, encoded) ELSE log
  /\ drift' = (IF r.logged /\ encoded.op = "SET" THEN drift \ {k} ELSE drift)
                \cup (IF ~ r.logged /\ Expired(store[k], now) /\ r.entry = NoEntry THEN {k} ELSE {})
  /\ reused' = (reused \/ (r.logged /\ k \in drift /\ encoded.op \notin {"SET", "HSET", "HDEL"}))
  /\ UNCHANGED <<now, up>>

\* SET computes its expiry before it waits for the lock, and the log's after.
SetBegin(c, k, v, u, cond) ==
  /\ Room /\ pc[c] = Idle
  /\ LET opt == [unit |-> u, n |-> 1]
     IN  pc' = [pc EXCEPT ![c] = [op |-> "SET", keys |-> {k}, val |-> v, cond |-> cond, opt |-> opt,
                                  expires |-> calculate_expiration_timestamp_ms(opt, now)]]
  /\ UNCHANGED <<now, store, log, up, drift, reused, misdated>>

SetRun(c) ==
  /\ up /\ pc[c].op = "SET"
  /\ \E k \in pc[c].keys :
       LET r == set(store[k], pc[c], pc[c].expires, now)
       IN  /\ Finish(k, r, [op |-> "SET", keys |-> {k}, val |-> pc[c].val, cond |-> "none",
                            opt |-> EncodedOption(pc[c].opt, now)])
           /\ misdated' = IF ~ r.logged THEN misdated
                          ELSE IF pc[c].opt.unit = "EX" THEN misdated \cup {k} ELSE misdated \ {k}
  /\ pc' = [pc EXCEPT ![c] = Idle]

\* MSET locks, writes and unlocks one key after the other, in their order.
MSetBegin(c, keys, v) ==
  /\ Room /\ pc[c] = Idle
  /\ pc' = [pc EXCEPT ![c] = [op |-> "MSET", keys |-> keys, val |-> v,
                              sorted |-> SetToSortSeq(keys, <)]]
  /\ UNCHANGED <<now, store, log, up, drift, reused, misdated>>

MSetKey(c) ==
  /\ up /\ pc[c].op = "MSET" /\ pc[c].sorted # << >>
  /\ store' = [store EXCEPT ![Head(pc[c].sorted)] = Simple(pc[c].val, Never)]
  /\ pc' = [pc EXCEPT ![c].sorted = Tail(@)]
  /\ UNCHANGED <<now, log, up, drift, reused, misdated>>

MSetLog(c) ==
  /\ up /\ pc[c].op = "MSET" /\ pc[c].sorted = << >>
  /\ log' = Append(log, [op |-> "MSET", keys |-> pc[c].keys, val |-> pc[c].val])
  /\ drift' = (drift \ pc[c].keys)
                \cup {k \in pc[c].keys : store[k] # Simple(pc[c].val, Never)}
  /\ misdated' = misdated \ pc[c].keys
  /\ pc' = [pc EXCEPT ![c] = Idle]
  /\ UNCHANGED <<now, store, up, reused>>

\* The commands on hashes, sorted sets and documents run under the lock.
Puts == [op : {"HSET", "ZADD", "JSON.SET /", "JSON.SET"}, keys : {{k} : k \in Key},
         field : Field, val : Val]
Removals == [op : {"HDEL", "ZREM"}, keys : {{k} : k \in Key}, field : Field]

Run(cmd) ==
  /\ Room
  /\ \E k \in cmd.keys : Finish(k, execute_command(store[k], cmd, now), cmd)
  /\ UNCHANGED <<pc, misdated>>

Tick ==
  /\ up /\ now < MaxTime
  /\ now' = now + 1
  /\ UNCHANGED <<store, pc, log, up, drift, reused, misdated>>

Drop(k) ==
  /\ up /\ store[k] # NoEntry
  /\ store' = [store EXCEPT ![k] = NoEntry]
  /\ drift' = drift \cup {k}
  /\ UNCHANGED <<now, pc, log, up, reused, misdated>>

\* The TTL sampler removes an expired entry, the evictor any; neither logs.
eviction_ttl(k) == Expired(store[k], now) /\ Drop(k)
eviction_memory(k) == Drop(k)

\* The process stops anywhere and starts again; it panics when the recovery
\* fails, and leaves the file as it was.
Restart ==
  /\ store' = IF Recovered.failed THEN Empty ELSE Recovered.store
  /\ up' = ~ Recovered.failed
  /\ pc' = [c \in Client |-> Idle]
  /\ drift' = {} /\ misdated' = {}
  /\ reused' = (reused /\ Recovered.failed)
  /\ UNCHANGED <<now, log>>

Next ==
  \/ \E c \in Client, k \in Key, v \in Val, u \in Units, cond \in {"none", "NX", "XX"} :
       SetBegin(c, k, v, u, cond)
  \/ \E c \in Client, keys \in SUBSET Key \ {{}}, v \in Val : MSetBegin(c, keys, v)
  \/ \E c \in Client : SetRun(c) \/ MSetKey(c) \/ MSetLog(c)
  \/ \E cmd \in Puts : Run(cmd)
  \/ \E cmd \in Removals : Run(cmd)
  \/ \E k \in Key : eviction_ttl(k) \/ eviction_memory(k)
  \/ Tick \/ Restart

Spec == Init /\ [][Next]_vars
-----------------------------------------------------------------------------
(* Properties.                                                             *)

\* An MSET has written k, or will, and has not logged it yet.
InFlight(k) == \E c \in Client : pc[c].op = "MSET" /\ k \in pc[c].keys

\* Keys for which every change is in the log.
Logged == {k \in Key : up /\ ~ Recovered.failed /\ k \notin drift /\ ~ InFlight(k)}

\* The recovery rebuilds the type and the contents of every key, but for the
\* keys that lost an entry to expiry or eviction, which nobody logs, and the
\* ones another command wrote between the write and the log entry of an MSET.
LogRestoresStore ==
  \A k \in Logged : /\ Recovered.store[k].kind = store[k].kind
                    /\ Recovered.store[k].data = store[k].data

\* The entry of k expires when it would have without the restart: at the same
\* time, or, since SET reads the clock once for the entry and once for the log, no
\* later than if it had been set now.
SameExpiry(k) ==
  LET before == store[k].expires
      after == Recovered.store[k].expires
  IN  after = before \/ (before # Never /\ before <= after /\ after <= now + Second)

\* An entry that is recovered expires when it would have without the restart.  One
\* that was set with EX is logged as EXAT with milliseconds, which the recovery
\* reads as seconds: it expires, and never too early, but far too late.
ExpirySurvives ==
  \A k \in Logged :
    IF k \in misdated THEN store[k].expires # Never /\ store[k].expires <= Recovered.store[k].expires
    ELSE SameExpiry(k)

\* Without the exception: every expiry survives.
EveryExpirySurvives == \A k \in Logged : SameExpiry(k)

\* The recovery fails only if a ZADD, ZREM or JSON.SET was logged for a key
\* that had lost its entry without a log entry.  (Of the types of this module;
\* lists, whose log entries may come in another order, are outside.)
FailsOnlyByReuse == Recovered.failed => reused

\* What DEVELOPMENT.md promises of the log: the process can restart from it.
LogIsReplayable == ~ Recovered.failed
=============================================================================

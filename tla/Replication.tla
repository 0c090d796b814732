---------------------------- MODULE Replication ----------------------------
(***************************************************************************)
(* Replication: the commands of a master reach its log and the broadcast   *)
(* hub (executor/mod.rs, master.rs), one handler for each replica's        *)
(* connection pushes the hub into the socket (replication/mod.rs), and the *)
(* replica reads and replays the stream (slave.rs).                        *)
(*                                                                         *)
(* A command is a number with its key.  SET, HSET, HDEL, ZADD, ZREM,       *)
(* JSON.SET and LPOP log while they hold the write lock of the key         *)
(* (held), MSET and LPUSH after they have released it.                     *)
(***************************************************************************)
EXTENDS Integers, Sequences, FiniteSets, SequencesExt

CONSTANTS Key, Writer, Replica,
          None,
          Cap,           \* messages the hub keeps: 10000 in master.rs
          MaxCommands,   \* bound on the commands of the master
          MaxSessions    \* bound on the connections of the replicas

ASSUME ReplicationAssumption ==
  /\ Cap \in Nat \ {0} /\ MaxCommands \in Nat /\ MaxSessions \in Nat
  /\ None \notin Writer \cup Key

VARIABLES lock,       \* the holder of the write lock of each key
          task,       \* of each writer: its command and what is left to do with it
          issued,     \* commands so far
          log,        \* what was sent to the AOF channel
          hub,        \* all that was sent to REPLICATION_HUB; it keeps the last Cap
          session,    \* the handlers of PSYNC on the master, by connection
          replica,    \* the replication task of each replica
          stopping    \* whether the master is being shut down

vars == <<lock, task, issued, log, hub, session, replica, stopping>>

Idle == [at |-> "idle", cmd |-> None]
FULLRESYNC == [id |-> 0, key |-> None, held |-> FALSE]
Command == [id : 1 .. MaxCommands, key : Key, held : BOOLEAN]

Init ==
  /\ lock = [k \in Key |-> None]
  /\ task = [w \in Writer |-> Idle]
  /\ issued = 0 /\ log = <<>> /\ hub = <<>>
  /\ session = <<>>
  /\ replica = [r \in Replica |-> [conn |-> 0, read |-> 0, buf |-> <<>>, applied |-> <<>>, up |-> TRUE]]
  /\ stopping = FALSE

-----------------------------------------------------------------------------
(* Commands of the master *)

\* Wrong: the lock is released before the command is logged.
HolderAfter_none(w, held) == None

\* Who holds the lock once the value is stored.
HolderAfter(w, held) == IF held THEN w ELSE None

\* A command stores its value under the write lock.
store(w, k, held) ==
  /\ task[w] = Idle /\ lock[k] = None /\ issued < MaxCommands /\ ~stopping
  /\ issued' = issued + 1
  /\ lock' = [lock EXCEPT ![k] = HolderAfter(w, held)]
  /\ task' = [task EXCEPT ![w] = [at |-> "log", cmd |-> [id |-> issued + 1, key |-> k, held |-> held]]]
  /\ UNCHANGED <<log, hub, session, replica, stopping>>

\* send_aof: first the AOF channel ...
send_aof(w) ==
  /\ task[w].at = "log"
  /\ log' = Append(log, task[w].cmd)
  /\ task' = [task EXCEPT ![w].at = "broadcast"]
  /\ UNCHANGED <<lock, issued, hub, session, replica, stopping>>

Receivers == {s \in DOMAIN session : session[s].at \in {"hello", "push"}}

\* Wrong: the hub is thought to have a receiver of its own.
Listened_beyond_first == Cardinality(Receivers) > 1

\* REPLICATION_HUB.receiver_count() > 0
Listened == Cardinality(Receivers) > 0

\* ... then the hub, if anyone listens; the lock is released with the guard.
broadcast_bytes_to_slaves(w) ==
  /\ task[w].at = "broadcast"
  /\ hub' = IF Listened THEN Append(hub, task[w].cmd) ELSE hub
  /\ lock' = [k \in Key |-> IF lock[k] = w THEN None ELSE lock[k]]
  /\ task' = [task EXCEPT ![w] = Idle]
  /\ UNCHANGED <<issued, log, session, replica, stopping>>

-----------------------------------------------------------------------------
(* handle_slave_psync *)

Started == [at |-> "psync", next |-> 0, stream |-> <<>>, since |-> 0, lagged |-> FALSE, linked |-> TRUE]
Gone == [at |-> "gone", next |-> 0, stream |-> <<>>, since |-> 0, lagged |-> FALSE, linked |-> FALSE]

Step(s, new) == session' = [session EXCEPT ![s] = new]
MasterUnchanged == UNCHANGED <<lock, task, issued, log, hub, replica, stopping>>

\* The handler counts its replica and subscribes to the hub.
subscribe(s) ==
  /\ session[s].at = "psync"
  /\ Step(s, [session[s] EXCEPT !.at = "hello", !.next = Len(hub) + 1])
  /\ MasterUnchanged

\* "+FULLRESYNC"; a failed write is ignored.  since: history, how much was
\* logged when the replica was told that it is in sync.
fullresync(s) ==
  /\ session[s].at = "hello"
  /\ Step(s, [session[s] EXCEPT !.at = "push", !.since = Len(log),
                                !.stream = IF session[s].linked THEN <<FULLRESYNC>> ELSE <<>>])
  /\ MasterUnchanged

Oldest == IF Len(hub) > Cap THEN Len(hub) - Cap + 1 ELSE 1

\* rx.recv gives the next message: it goes to the socket, or the write fails and
\* the handler ends.
push(s) ==
  /\ session[s].at = "push" /\ session[s].next \in Oldest .. Len(hub)
  /\ Step(s, IF session[s].linked
             THEN [session[s] EXCEPT !.next = @ + 1, !.stream = Append(@, hub[session[s].next])]
             ELSE Gone)
  /\ MasterUnchanged

\* RecvError::Lagged: what the hub no longer has is skipped.
lagged(s) ==
  /\ session[s].at = "push" /\ session[s].next < Oldest
  /\ Step(s, [session[s] EXCEPT !.next = Oldest, !.lagged = TRUE])
  /\ MasterUnchanged

\* The signal of the shutdown.
push_stops(s) ==
  /\ session[s].at = "push" /\ stopping
  /\ Step(s, IF session[s].linked THEN [session[s] EXCEPT !.at = "gone"] ELSE Gone)
  /\ MasterUnchanged

-----------------------------------------------------------------------------
(* start_slave_replication *)

\* A new connection with PSYNC and an empty buffer.
connect(r) ==
  /\ replica[r].up /\ replica[r].conn = 0 /\ ~stopping /\ Len(session) < MaxSessions
  /\ session' = Append(session, Started)
  /\ replica' = [replica EXCEPT ![r].conn = Len(session) + 1, ![r].read = 0, ![r].buf = <<>>]
  /\ UNCHANGED <<lock, task, issued, log, hub, stopping>>

\* while let Ok(Some(..)) = parse_frame(&buf): only '*' and '$' start a frame.
\* How many frames of b the loop takes from the front.
Parsed(b) ==
  LET i == SelectInSeq(b, LAMBDA f : f = FULLRESYNC) IN IF i = 0 THEN Len(b) ELSE i - 1

\* read_buf gives what the stream has (a part of it makes no difference to the
\* loop); the frames that parse are executed like the commands of a client.
replay(r) ==
  /\ replica[r].up /\ replica[r].conn # 0
  /\ LET str == session[replica[r].conn].stream
         b   == replica[r].buf \o SubSeq(str, replica[r].read + 1, Len(str))
         p   == Parsed(b)
     IN  /\ replica[r].read < Len(str)
         /\ replica' = [replica EXCEPT ![r].read = Len(str),
                                       ![r].buf = SubSeq(b, p + 1, Len(b)),
                                       ![r].applied = @ \o SubSeq(b, 1, p)]
  /\ UNCHANGED <<lock, task, issued, log, hub, session, stopping>>

\* The replica's end of connection s is closed.
Unlinked(s) ==
  [session EXCEPT ![s] = IF session[s].at = "gone" THEN Gone ELSE [session[s] EXCEPT !.linked = FALSE]]

\* The connection breaks, or the master closed it: the replica waits a second
\* and connects again.
disconnect(r) ==
  /\ replica[r].up /\ replica[r].conn # 0
  /\ session' = Unlinked(replica[r].conn)
  /\ replica' = [replica EXCEPT ![r].conn = 0, ![r].read = 0, ![r].buf = <<>>]
  /\ UNCHANGED <<lock, task, issued, log, hub, stopping>>

\* The replica is shut down; every wait of the task hears the signal.
replica_stops(r) ==
  /\ replica[r].up
  /\ session' = IF replica[r].conn = 0 THEN session
                ELSE Unlinked(replica[r].conn)
  /\ replica' = [replica EXCEPT ![r].up = FALSE, ![r].conn = 0, ![r].read = 0, ![r].buf = <<>>]
  /\ UNCHANGED <<lock, task, issued, log, hub, stopping>>

shutdown ==
  /\ ~stopping /\ stopping' = TRUE
  /\ UNCHANGED <<lock, task, issued, log, hub, session, replica>>

Next ==
  \/ \E w \in Writer : \/ \E k \in Key, held \in BOOLEAN : store(w, k, held)
                       \/ send_aof(w) \/ broadcast_bytes_to_slaves(w)
  \/ \E s \in DOMAIN session :
       subscribe(s) \/ fullresync(s) \/ push(s) \/ lagged(s) \/ push_stops(s)
  \/ \E r \in Replica : connect(r) \/ replay(r) \/ disconnect(r) \/ replica_stops(r)
  \/ shutdown

Spec == Init /\ [][Next]_vars

-----------------------------------------------------------------------------
(* Properties *)

Before(s, c, d) == \E i, j \in DOMAIN s : i < j /\ s[i] = c /\ s[j] = d

\* A replica gets the commands on a key in the order of the log, each once, as
\* far as they log under the lock of the key (the comment on send_aof demands
\* it), whatever messages the hub dropped for it: a replica that has fallen
\* behind ends with the value of the last such command it got.
StreamFollowsLog ==
  \A s \in DOMAIN session :
    \A i, j \in DOMAIN session[s].stream :
      LET c == session[s].stream[i]
          d == session[s].stream[j]
      IN  i < j /\ c.key = d.key /\ c.held /\ d.held => Before(log, c, d) /\ ~Before(log, d, c)

\* From "+FULLRESYNC" on nothing is left out that the log has, unless the hub
\* reported a lag: a stream that has caught up holds every command logged
\* since then but those still on their way into the hub.
StreamIsComplete ==
  \A s \in DOMAIN session :
    session[s].at = "push" /\ ~session[s].lagged /\ session[s].next = Len(hub) + 1
      => \A i \in session[s].since + 1 .. Len(log) :
           \/ Contains(session[s].stream, log[i]) \/ ~session[s].linked
           \/ \E w \in Writer : task[w] = [at |-> "broadcast", cmd |-> log[i]]

\* A replica that stays connected replays what it was sent: no command stays in
\* its buffer when the parse loop has ended (the comment on
\* start_slave_replication).
ReplicaReplays == \A r \in Replica : \A i \in DOMAIN replica[r].buf : replica[r].buf[i] = FULLRESYNC
=============================================================================

------------------------------- MODULE Server -------------------------------
(***************************************************************************)
(* The accept loop (src/lib.rs), the connections (src/server.rs) and the   *)
(* orderly shutdown (src/shutdown.rs), with the log writer reduced to a    *)
(* queue that drains (its own steps are in Aof).                           *)
(*                                                                         *)
(* A read brings any number of frames, and perhaps half of one more.       *)
(* A broadcast reaches the tasks that have subscribed before it is sent.   *)
(***************************************************************************)
EXTENDS Integers, SequencesExt, FiniteSetsExt

CONSTANTS
  Conn,                 \* connections
  Sends,                \* the kinds of frames each client sends, of the ones below
  MaxFrames             \* the number of frames each client sends

\* A write command, one whose execution returns Err, a frame that is no
\* command or no frame, a BLPOP that waits, and the handshake of a replica.
Kinds == {"write", "fails", "bad", "blocks", "PSYNC"}

VARIABLES
  sent,                 \* the shutdown signal has been broadcast
  accept,               \* the accept loop: its step and its receiver
  conn,                 \* the connections
  pending,              \* log entries sent to the writer and not yet written
  background,           \* the TTL task and the log writer, while they run
  memory,               \* the memory task: its step and its receiver
  stage                 \* the step of ShutDown::shutdown

vars == <<sent, accept, conn, pending, background, memory, stage>>

Stages == <<"listen", "accept", "connections", "eviction", "aof", "infra", "exited">>
Exited == Stages[stage] = "exited"

\* A receiver: subscribed and empty, holding the signal, or too late for it.
Subscribed == IF sent THEN "deaf" ELSE "open"
Hears(rx) == IF rx = "open" THEN "signal" ELSE rx

ASSUME ServerAssumption == Sends \in [Conn -> SUBSET Kinds] /\ MaxFrames \in [Conn -> Nat]

\* A connection: step, receiver, number of frames that have come, frames in
\* the buffer, whether it ends in half a frame, whether the first half of the
\* next frame was thrown away, and the replies of the batch; and, for the
\* properties, the commands executed and what the client has been sent.
NewConn == [pc |-> "backlog", rx |-> "none", count |-> 0, buf |-> << >>, half |-> FALSE,
            torn |-> FALSE, batch |-> << >>, executed |-> << >>, out |-> << >>]
Closed == [NewConn EXCEPT !.pc = "closed"]

Init ==
  /\ sent = FALSE
  /\ accept = [pc |-> "top", rx |-> "none"]
  /\ conn = [c \in Conn |-> NewConn]
  /\ pending = 0
  /\ background = {"ttl", "aof"}
  /\ memory = [pc |-> "top", rx |-> "none"]
  /\ stage = 1

-----------------------------------------------------------------------------
(* The accept loop: a new receiver on every turn.                          *)

accept_top ==
  /\ accept.pc = "top"
  /\ accept' = [pc |-> "select", rx |-> Subscribed]
  /\ UNCHANGED <<sent, conn, pending, background, memory, stage>>

accept_connection(c) ==
  /\ accept.pc = "select"
  /\ conn[c].pc = "backlog"
  /\ conn' = [conn EXCEPT ![c].pc = "spawned"]
  /\ accept' = [accept EXCEPT !.pc = "top"]
  /\ UNCHANGED <<sent, pending, background, memory, stage>>

\* listener.accept returns Err: the loop ends, and the process goes on without it.
accept_error ==
  /\ accept.pc = "select"
  /\ accept' = [accept EXCEPT !.pc = "done"]
  /\ UNCHANGED <<sent, conn, pending, background, memory, stage>>

accept_shutdown ==
  /\ accept.pc = "select" /\ accept.rx = "signal"
  /\ accept' = [accept EXCEPT !.pc = "done"]
  /\ UNCHANGED <<sent, conn, pending, background, memory, stage>>

-----------------------------------------------------------------------------
(* A connection.                                                           *)

Alive(c) == conn[c].pc \notin {"backlog", "closed"}

\* A step of c that executes n write commands.
Step(c, state, n) ==
  /\ conn' = [conn EXCEPT ![c] = state]
  /\ pending' = pending + n
  /\ UNCHANGED <<sent, accept, background, memory, stage>>

subscribe(c) ==
  conn[c].pc = "spawned" /\ Step(c, [conn[c] EXCEPT !.pc = "select", !.rx = Subscribed], 0)

\* The frames of a read.  Half of a frame whose beginning is gone is none.
Arrived(c, kinds) ==
  [i \in DOMAIN kinds |-> [id |-> conn[c].count + i,
                          kind |-> IF i = 1 /\ conn[c].torn THEN "bad" ELSE kinds[i]]]

\* A buffer with PSYNC anywhere in it turns the connection into the stream of
\* a replica, which subscribes to the shutdown anew and is greeted; nothing else
\* in the buffer is executed.
HasPsync(frames) == \E i \in DOMAIN frames : frames[i].kind = "PSYNC"

Reads(c) == BoundedSeq(Sends[c], MaxFrames[c])

read_buf(c, kinds, half) ==
  LET frames == Arrived(c, kinds)
      got == [conn[c] EXCEPT !.pc = "execute", !.buf = frames, !.half = half,
                             !.count = @ + Len(kinds), !.torn = @ /\ kinds = << >>]
  IN  /\ conn[c].pc = "select"
      /\ conn[c].count + Len(kinds) + (IF half THEN 1 ELSE 0) <= MaxFrames[c]
      /\ kinds # << >> \/ (half /\ ~ conn[c].half)
      /\ Step(c, IF HasPsync(frames) THEN [Closed EXCEPT !.pc = "greet", !.rx = Subscribed] ELSE got, 0)

\* The client hangs up, or the read fails.
client_closed(c) == conn[c].pc = "select" /\ Step(c, Closed, 0)

\* handle_slave_psync: the greeting, whose failure is ignored, and then one
\* message of the hub after the other, until one cannot be written.
greeted(c) == conn[c].pc = "greet" /\ Step(c, [conn[c] EXCEPT !.pc = "push"], 0)
push_recv(c) == conn[c].pc = "push" /\ Step(c, [conn[c] EXCEPT !.pc = "pushing"], 0)
pushed(c) ==
  /\ conn[c].pc = "pushing"
  /\ Step(c, [conn[c] EXCEPT !.pc = "push"], 0) \/ Step(c, Closed, 0)

shutdown_heard_not_streaming(c) ==
  conn[c].pc = "select" /\ conn[c].rx = "signal" /\ Step(c, Closed, 0)
shutdown_heard(c) ==
  conn[c].pc \in {"select", "push"} /\ conn[c].rx = "signal" /\ Step(c, Closed, 0)

Executes(c, kinds) ==
  conn[c].pc = "execute" /\ conn[c].buf # << >> /\ Head(conn[c].buf).kind \in kinds

\* The frame at the head of the buffer has been executed.
Popped(c) == [conn[c] EXCEPT !.pc = "execute", !.buf = Tail(@),
                             !.batch = Append(@, Head(conn[c].buf).id),
                             !.executed = Append(@, Head(conn[c].buf).id)]

execute(c) == Executes(c, {"write"}) /\ Step(c, Popped(c), 1)

\* A BLPOP waits until another client pushes or it times out.
block(c) == Executes(c, {"blocks"}) /\ Step(c, [conn[c] EXCEPT !.pc = "blocked"], 0)
unblock(c) == conn[c].pc = "blocked" /\ Step(c, Popped(c), 0)

\* An error drops the batch: its replies, the rest of the buffer, and half a
\* frame at its end.  A reply that cannot be written ends the connection.
fail(c) ==
  /\ Executes(c, {"fails", "bad"})
  /\ \/ Step(c, [conn[c] EXCEPT !.pc = "select", !.buf = << >>, !.batch = << >>, !.half = FALSE,
                                !.torn = conn[c].half, !.out = Append(@, 0)], 0)
     \/ Step(c, Closed, 0)

Replied_reversed(c) == conn[c].out \o Reverse(conn[c].batch)
Replied(c) == conn[c].out \o conn[c].batch

write_replies(c) ==
  /\ conn[c].pc = "execute" /\ conn[c].buf = << >> /\ conn[c].batch # << >>
  /\ \/ Step(c, [conn[c] EXCEPT !.pc = "select", !.batch = << >>, !.out = Replied(c)], 0)
     \/ Step(c, Closed, 0)

\* A read that brought no whole frame: there is nothing to write.
no_replies(c) ==
  /\ conn[c].pc = "execute" /\ conn[c].buf = << >> /\ conn[c].batch = << >>
  /\ Step(c, [conn[c] EXCEPT !.pc = "select"], 0)

\* c waits until its client takes what is written to the socket, without a timeout.
Writing(c) ==
  \/ conn[c].pc \in {"greet", "pushing"}
  \/ conn[c].pc = "execute" /\ conn[c].buf = << >> /\ conn[c].batch # << >>
  \/ Executes(c, {"fails", "bad"})

-----------------------------------------------------------------------------
(* Background tasks and the shutdown.                                      *)

Hear(c) == [conn[c] EXCEPT !.rx = Hears(@)]

shutdown_listener ==
  /\ stage = 1
  /\ sent' = TRUE
  /\ accept' = [accept EXCEPT !.rx = Hears(@)]
  /\ conn' = [c \in Conn |-> Hear(c)]
  /\ memory' = [memory EXCEPT !.rx = Hears(@)]
  /\ stage' = 2
  /\ UNCHANGED <<pending, background>>

\* The TTL task subscribes once, before its loop, and leaves the loop at the signal.
ttl_ends ==
  /\ "ttl" \in background /\ sent
  /\ background' = background \ {"ttl"}
  /\ UNCHANGED <<sent, accept, conn, pending, memory, stage>>

MemoryStep(state) ==
  memory' = state /\ UNCHANGED <<sent, accept, conn, pending, background, stage>>

\* The memory task subscribes anew on every turn, and looks at the memory, which
\* is the subject of MemoryEvictor: it may be over the target or not.
memory_top ==
  /\ memory.pc = "top"
  /\ \E pc \in {"patrol", "over"} : MemoryStep([pc |-> pc, rx |-> Subscribed])

\* The sleep is over; select! may take it although the signal is there too.
memory_slept == memory.pc = "patrol" /\ MemoryStep([pc |-> "top", rx |-> "none"])

\* recv of the patrol, or try_recv of a turn over the target.
memory_ends ==
  /\ memory.pc \in {"patrol", "over"} /\ memory.rx = "signal"
  /\ MemoryStep([pc |-> "done", rx |-> "none"])

\* try_recv found nothing: the shards are scanned and the deleting tasks awaited,
\* and nobody looks at the receiver again.  The next turn begins when they have
\* ended, which is some time later.
memory_evicts ==
  memory.pc = "over" /\ memory.rx # "signal" /\ MemoryStep([pc |-> "top", rx |-> "none"])

aof_write ==
  /\ "aof" \in background /\ pending > 0
  /\ pending' = pending - 1
  /\ UNCHANGED <<sent, accept, conn, background, memory, stage>>

\* recv returns None when every sender is gone and the queue is empty: the
\* accept loop owns one, and every connection.
SendersGone_accept_only == accept.pc = "done"
SendersGone == accept.pc = "done" /\ \A c \in Conn : ~ Alive(c)

aof_ends ==
  /\ "aof" \in background /\ SendersGone /\ pending = 0
  /\ background' = background \ {"aof"}
  /\ UNCHANGED <<sent, accept, conn, pending, memory, stage>>

\* ShutDown::shutdown awaits one group of tasks after the other.
Joined(s) ==
  CASE s = "accept" -> accept.pc = "done"
    [] s = "connections" -> \A c \in Conn : ~ Alive(c)
    [] s = "eviction" -> "ttl" \notin background /\ memory.pc = "done"
    [] s = "aof" -> "aof" \notin background
    [] s = "infra" -> TRUE      \* the time task is told, its handle is long done
    [] OTHER -> FALSE

shutdown ==
  /\ Joined(Stages[stage])
  /\ stage' = stage + 1
  /\ UNCHANGED <<sent, accept, conn, pending, background, memory>>

-----------------------------------------------------------------------------
(* Specification.  The runtime schedules every task that can go on, and    *)
(* the select! of a connection does not overlook a signal for ever.  What  *)
(* the clients do is up to them: when they send, whether they read what    *)
(* they are sent, and when a BLPOP ends.                                   *)

AcceptTask == accept_top \/ accept_shutdown \/ \E c \in Conn : accept_connection(c)
ConnTask(c) == subscribe(c) \/ execute(c) \/ block(c) \/ no_replies(c)
ClientOf(c) ==
  \/ client_closed(c) \/ unblock(c) \/ write_replies(c) \/ fail(c)
  \/ greeted(c) \/ push_recv(c) \/ pushed(c)
  \/ \E kinds \in Reads(c), half \in BOOLEAN : read_buf(c, kinds, half)
AofTask == aof_write \/ aof_ends
MemoryTask == memory_top \/ memory_slept \/ memory_ends \/ memory_evicts

Next ==
  \/ AcceptTask \/ accept_error \/ AofTask \/ ttl_ends \/ MemoryTask
  \/ shutdown_listener \/ shutdown
  \/ \E c \in Conn : ConnTask(c) \/ shutdown_heard(c) \/ ClientOf(c)

Fairness ==
  /\ WF_vars(AcceptTask) /\ WF_vars(AofTask) /\ WF_vars(ttl_ends) /\ WF_vars(MemoryTask)
  /\ WF_vars(shutdown)
  /\ \A c \in Conn : WF_vars(ConnTask(c)) /\ SF_vars(shutdown_heard(c))

Spec == Init /\ [][Next]_vars /\ Fairness

-----------------------------------------------------------------------------
(* Properties.                                                             *)

Increasing(s) == \A i, j \in DOMAIN s : i < j => s[i] < s[j]

Replies(c) == SelectSeq(conn[c].out \o conn[c].batch, LAMBDA id : id # 0)

\* A pipeline is executed in order and no command twice, however the reads cut
\* it, and the replies come in the same order.  An error drops the replies of its
\* batch: a command that was executed and will get no reply has an error sent in
\* the place of it, behind the replies to what came before and ahead of the
\* others.  No reply is lost in any other way.
PipelineReplies ==
  \A c \in Conn :
    LET out == conn[c].out
    IN  /\ Increasing(conn[c].executed) /\ Increasing(Replies(c))
        /\ Range(Replies(c)) \subseteq Range(conn[c].executed)
        /\ \A id \in Range(conn[c].executed) \ Range(Replies(c)) :
             \E e \in DOMAIN out :
               /\ out[e] = 0
               /\ \A i \in DOMAIN out : out[i] # 0 => (i < e <=> out[i] < id)

\* When the process exits, every write that a connection has executed is in
\* the log, and no connection can execute another.
ExitLosesNothing == Exited => pending = 0 /\ \A c \in Conn : ~ Alive(c)

\* A task that will not hear the signal: it subscribed after the broadcast; or it
\* waits in a BLPOP or for a client to read, and does not listen meanwhile; or it
\* is the memory task, and the receiver of the turn the signal came in is gone.
Deaf ==
  \/ accept.pc # "done" /\ accept.rx = "deaf"
  \/ \E c \in Conn : Alive(c) /\ (conn[c].rx = "deaf" \/ conn[c].pc = "blocked" \/ Writing(c))
  \/ sent /\ memory.pc # "done" /\ memory.rx # "signal"

\* After the signal the process exits, or from some moment on there is always a
\* task that cannot hear it: no task that listens keeps the shutdown waiting, and
\* no two of the tasks it joins wait for each other.
ShutdownCompletes == sent ~> (Exited \/ []Deaf)

\* Without the exceptions: after the signal the process exits.
ShutdownAlwaysCompletes == sent ~> Exited
=============================================================================

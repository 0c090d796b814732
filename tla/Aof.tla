-------------------------------- MODULE Aof --------------------------------
(***************************************************************************)
(* The append-only file (core_aof.rs): commands send messages into a       *)
(* bounded channel, aof_writer_task writes them in batches and syncs them  *)
(* by the configured policy, and explain_execute_aofcommand replays the    *)
(* file at the next start, through a buffer of limited size.  The process  *)
(* may crash at any step; the file then keeps what was synced and any      *)
(* part of what was written after it.                                      *)
(*                                                                         *)
(* The file is a sequence of units: a frame of size n is n units, so that  *)
(* a crash and the end of the buffer can cut it anywhere.  A command is    *)
(* <<n, j>>, the jth of the nth message; the state of the database is the  *)
(* sequence of commands applied to it.                                     *)
(***************************************************************************)
EXTENDS Integers, Sequences, FiniteSets, SequencesExt

CONSTANTS Policies,     \* the values of CONFIG.aof_fsync: "Always", "EverySec", "No"
          ChannelCap,   \* capacity of the channel: 1,000,000 in lib.rs
          BatchMax,     \* messages of a batch: 5000 in the code
          BufLen,       \* units of file_data: 512 MB in the code
          CommandSize,  \* units of a command's frame
          MaxSent,      \* bound on the messages sent
          MaxCrashes, MaxRestarts

ASSUME AofAssumption ==
  /\ Policies \subseteq {"Always", "EverySec", "No"}
  /\ {ChannelCap, BatchMax, BufLen, CommandSize} \subseteq Nat \ {0}
  /\ {MaxSent, MaxCrashes, MaxRestarts} \subseteq Nat

VARIABLES fsync,      \* CONFIG.aof_fsync, read once from the environment
          phase,      \* of the process
          sent,       \* messages sent so far
          applied,    \* the database
          channel, batch, writer,
          file,       \* what was written ...
          synced,     \* ... and how much of it a crash cannot take away
          pos, data, tail_file_length, tail_size, exec_time, transaction_buffer,
          before, durable,    \* history: applied, and what of it was synced, at the last end
          spoiled,            \* history: some recovery used a length that was out of date
          crashes, restarts

writerVars == <<fsync, channel, batch, writer, file, synced>>
readerVars == <<pos, data, tail_file_length, tail_size, exec_time, transaction_buffer>>
history == <<before, durable, spoiled, crashes, restarts>>
vars == <<phase, sent, applied, writerVars, readerVars, history>>

-----------------------------------------------------------------------------
(* Frames and messages *)

Frame(n, j, kind, last) ==
  [id |-> <<n, j>>, kind |-> kind, last |-> last, size |-> IF kind = "cmd" THEN CommandSize ELSE 1]

\* The message of one command, and Command::MultiGroup of a script with two.
Single(n) == <<Frame(n, 1, "cmd", TRUE)>>
MultiGroup(n) ==
  <<Frame(n, 0, "MULTI", FALSE), Frame(n, 1, "cmd", FALSE), Frame(n, 2, "cmd", FALSE),
    Frame(n, 3, "EXEC", TRUE)>>

Units(f) == [i \in 1 .. f.size |-> [frame |-> f, part |-> i]]
Bytes(message) == FlattenSeq([i \in DOMAIN message |-> Units(message[i])])
Commands(message) ==
  LET cmds == SelectSeq(message, LAMBDA f : f.kind = "cmd")
  IN  [i \in DOMAIN cmds |-> cmds[i].id]

\* parse_frame: the frame at the front, or that it is incomplete, or an error.
parse_frame(d) ==
  LET f == d[1].frame
  IN  IF d[1].part # 1 THEN "error"
      ELSE IF Len(d) < f.size /\ \A i \in DOMAIN d : d[i] = Units(f)[i] THEN "incomplete"
      ELSE IF Len(d) >= f.size /\ SubSeq(d, 1, f.size) = Units(f) THEN "frame"
      ELSE "error"

\* The last unit of message n is in the first k units of the file.
Whole(n, k) ==
  \E i \in 1 .. k : LET u == file[i]
                    IN  u.frame.id[1] = n /\ u.frame.last /\ u.part = u.frame.size

\* The commands in the database that no crash can take out of the file.
Synced == SelectSeq(applied, LAMBDA c : Whole(c[1], synced))

-----------------------------------------------------------------------------
StartReading ==
  /\ phase' = "read"
  /\ applied' = <<>>
  /\ channel' = <<>> /\ batch' = <<>> /\ writer' = "idle"
  /\ pos' = 0 /\ data' = <<>> /\ tail_file_length' = 0 /\ tail_size' = 0
  /\ exec_time' = 0 /\ transaction_buffer' = <<>>

Init ==
  /\ fsync \in Policies
  /\ phase = "run" /\ sent = 0 /\ applied = <<>>
  /\ channel = <<>> /\ batch = <<>> /\ writer = "idle" /\ file = <<>> /\ synced = 0
  /\ pos = 0 /\ data = <<>> /\ tail_file_length = 0 /\ tail_size = 0
  /\ exec_time = 0 /\ transaction_buffer = <<>>
  /\ before = <<>> /\ durable = <<>> /\ spoiled = FALSE /\ crashes = 0 /\ restarts = 0

-----------------------------------------------------------------------------
(* The running server *)

\* A command or a script changes the database and sends its message
\* (CommandContext::send_aof); the client gets its reply.
execute(message) ==
  /\ phase = "run" /\ sent < MaxSent /\ Len(channel) < ChannelCap
  /\ sent' = sent + 1
  /\ applied' = applied \o Commands(message)
  /\ channel' = Append(channel, message)
  /\ UNCHANGED <<fsync, phase, batch, writer, file, synced, readerVars, history>>

\* recv and then try_recv: the oldest messages, n of them.
Taken(ch, n) == SubSeq(ch, 1, n)

aof_recv ==
  /\ phase \in {"run", "closed"} /\ writer = "idle" /\ channel # <<>>
  /\ LET n == IF Len(channel) < BatchMax THEN Len(channel) ELSE BatchMax
     IN  /\ batch' = Taken(channel, n)
         /\ channel' = SubSeq(channel, n + 1, Len(channel))
  /\ writer' = "write"
  /\ UNCHANGED <<fsync, phase, sent, applied, file, synced, readerVars, history>>

\* write_all of every message and flush; the page cache has them now.
aof_write ==
  /\ writer = "write"
  /\ file' = file \o FlattenSeq([i \in DOMAIN batch |-> Bytes(batch[i])])
  /\ batch' = <<>>
  /\ writer' = IF fsync = "Always" THEN "sync" ELSE "idle"
  /\ UNCHANGED <<fsync, phase, sent, applied, channel, synced, readerVars, history>>

\* sync_data of the Always policy.
aof_sync ==
  /\ writer = "sync"
  /\ synced' = Len(file) /\ writer' = "idle"
  /\ UNCHANGED <<fsync, phase, sent, applied, channel, batch, file, readerVars, history>>

\* Wrong: the timer's branch syncs nothing.
aof_tick_idle == FALSE /\ UNCHANGED vars

\* The branch of the timer: sync_data of the EverySec policy.
aof_tick ==
  /\ fsync = "EverySec" /\ phase \in {"run", "closed"} /\ writer = "idle" /\ synced < Len(file)
  /\ synced' = Len(file)
  /\ UNCHANGED <<fsync, phase, sent, applied, channel, batch, writer, file, readerVars, history>>

\* Shutdown: the senders are dropped once the connections have ended.
close ==
  /\ phase = "run"
  /\ phase' = "closed"
  /\ UNCHANGED <<sent, applied, writerVars, readerVars, history>>

\* Wrong: the loop is left although the channel still holds messages.
aof_closed_at_once ==
  /\ phase = "closed" /\ writer = "idle"
  /\ writer' = "final"
  /\ UNCHANGED <<fsync, phase, sent, applied, channel, batch, file, synced, readerVars, history>>

\* recv gives None: the channel is closed and empty, so the drain finds nothing.
aof_closed ==
  /\ phase = "closed" /\ writer = "idle" /\ channel = <<>>
  /\ writer' = "final"
  /\ UNCHANGED <<fsync, phase, sent, applied, channel, batch, file, synced, readerVars, history>>

\* The last flush and sync_data, whatever the policy; the process ends.
aof_final ==
  /\ writer = "final"
  /\ synced' = Len(file) /\ writer' = "idle"
  /\ phase' = "stopped"
  /\ UNCHANGED <<fsync, sent, applied, channel, batch, file, readerVars, history>>

-----------------------------------------------------------------------------
(* The end of a process and the next start *)

\* The history of an end: a process that was still reading changed nothing.
Ended ==
  IF phase \in {"read", "parse", "recovered"} THEN UNCHANGED <<before, durable>>
  ELSE before' = applied /\ durable' = Synced

\* The first n units survive.
crash(n) ==
  /\ phase \in {"read", "parse", "recovered", "run", "closed"} /\ crashes < MaxCrashes
  /\ n \in synced .. Len(file)
  /\ file' = SubSeq(file, 1, n) /\ synced' = n
  /\ Ended
  /\ StartReading
  /\ crashes' = crashes + 1
  /\ UNCHANGED <<fsync, sent, spoiled, restarts>>

restart ==
  /\ phase = "stopped" /\ restarts < MaxRestarts
  /\ Ended
  /\ StartReading
  /\ restarts' = restarts + 1
  /\ UNCHANGED <<fsync, sent, file, synced, spoiled, crashes>>

Rest == SubSeq(data, tail_size + 1, Len(data))

\* The chunk was parsed to its end, and tail_file_length is that of an earlier one.
Stale == Rest = <<>> /\ tail_file_length > 0

\* file.read into file_data behind what was left over.
recovery_read ==
  /\ phase = "read" /\ pos < Len(file)
  /\ LET n == IF Len(file) - pos < BufLen - tail_file_length THEN Len(file) - pos
              ELSE BufLen - tail_file_length
     IN  /\ data' = SubSeq(data, 1, tail_file_length) \o SubSeq(file, pos + 1, pos + n)
         /\ pos' = pos + n
  /\ tail_size' = 0 /\ exec_time' = 0
  /\ spoiled' = (spoiled \/ Stale)
  /\ phase' = "parse"
  /\ UNCHANGED <<sent, applied, writerVars, tail_file_length, transaction_buffer,
                 before, durable, crashes, restarts>>

\* Wrong: the torn tail stays in the file.
Truncated_kept(f) == f

\* set_len: the leftover at the end of the file is cut off.
Truncated(f) == SubSeq(f, 1, Len(f) - tail_file_length)

\* The end of the file.  A transaction without its EXEC is dropped.
recovery_eof ==
  /\ phase = "read" /\ pos = Len(file)
  /\ file' = Truncated(file) /\ synced' = Len(Truncated(file))
  /\ transaction_buffer' = <<>>
  /\ spoiled' = (spoiled \/ Stale)
  /\ phase' = "recovered"
  /\ UNCHANGED <<fsync, sent, applied, channel, batch, writer, pos, data, tail_file_length, tail_size,
                 exec_time, before, durable, crashes, restarts>>

\* Wrong: the commands of a transaction are executed as they are read.
Replay_at_once(f) ==
  /\ applied' = IF f.kind = "cmd" THEN Append(applied, f.id) ELSE applied
  /\ UNCHANGED transaction_buffer

\* Wrong: EXEC forgets the transaction like MULTI.
Replay_exec_forgets(f) ==
  /\ applied' = IF f.kind = "cmd" /\ transaction_buffer = <<>> THEN Append(applied, f.id) ELSE applied
  /\ transaction_buffer' = IF f.kind = "EXEC" THEN <<>>
                           ELSE IF f.kind = "MULTI" THEN << <<>> >> ELSE transaction_buffer

\* MULTI opens a transaction (an open one is forgotten), EXEC executes it, any
\* other command joins the open transaction or is executed.  The Option<Vec>
\* is a sequence of at most one sequence.
Replay(f) ==
  \/ /\ f.kind = "MULTI"
     /\ transaction_buffer' = << <<>> >>
     /\ UNCHANGED applied
  \/ /\ f.kind = "EXEC"
     /\ applied' = applied \o FlattenSeq(transaction_buffer)
     /\ transaction_buffer' = <<>>
  \/ /\ f.kind = "cmd" /\ transaction_buffer # <<>>
     /\ transaction_buffer' = << Append(transaction_buffer[1], f.id) >>
     /\ UNCHANGED applied
  \/ /\ f.kind = "cmd" /\ transaction_buffer = <<>>
     /\ applied' = Append(applied, f.id)
     /\ UNCHANGED transaction_buffer

recovery_frame ==
  /\ phase = "parse" /\ Rest # <<>> /\ parse_frame(Rest) = "frame"
  /\ Replay(Rest[1].frame)
  /\ tail_size' = tail_size + Rest[1].frame.size
  /\ exec_time' = exec_time + 1
  /\ UNCHANGED <<phase, sent, writerVars, pos, data, tail_file_length, history>>

\* All of the buffer is parsed; tail_file_length stays what it was.
recovery_chunk_done ==
  /\ phase = "parse" /\ Rest = <<>>
  /\ phase' = "read"
  /\ UNCHANGED <<sent, applied, writerVars, readerVars, history>>


\* An incomplete frame moves to the front of the buffer; an error if nothing
\* came before it (so tail_file_length is never the whole buffer).
recovery_incomplete ==
  /\ phase = "parse" /\ Rest # <<>> /\ parse_frame(Rest) = "incomplete"
  /\ data' = Rest /\ tail_file_length' = Len(Rest) /\ tail_size' = 0
  /\ phase' = IF exec_time = 0 THEN "failed" ELSE "read"
  /\ UNCHANGED <<sent, applied, writerVars, pos, exec_time, transaction_buffer, history>>

\* A frame that cannot be parsed ends the recovery; run panics.
recovery_error ==
  /\ phase = "parse" /\ Rest # <<>> /\ parse_frame(Rest) = "error"
  /\ phase' = "failed"
  /\ UNCHANGED <<sent, applied, writerVars, readerVars, history>>

\* Clients are accepted only when the recovery is through.
start ==
  /\ phase = "recovered"
  /\ phase' = "run"
  /\ UNCHANGED <<sent, applied, writerVars, readerVars, history>>

Writer == aof_recv \/ aof_write \/ aof_sync \/ aof_closed \/ aof_final
Recovery == recovery_read \/ recovery_eof \/ recovery_frame \/ recovery_chunk_done
            \/ recovery_incomplete \/ recovery_error

Next ==
  \/ execute(Single(sent + 1)) \/ execute(MultiGroup(sent + 1))
  \/ Writer \/ aof_tick \/ close
  \/ (\E n \in 0 .. Len(file) : crash(n)) \/ restart
  \/ Recovery \/ start

\* The writer and its timer go on whenever they can.
Fairness == WF_vars(Writer) /\ WF_vars(aof_tick)

Spec == Init /\ [][Next]_vars /\ Fairness

-----------------------------------------------------------------------------
(* Properties *)

\* The position of frame id in the file, and whether the last MULTI or EXEC ahead
\* of it is the MULTI of another message: one whose EXEC a crash has cut off, and
\* which the recovery after that crash left in the file.
At(i, id) == file[i].frame.id = id /\ file[i].part = 1
Swallowed(c) ==
  \E m, i \in DOMAIN file :
    /\ m < i /\ At(i, c)
    /\ file[m].frame.kind = "MULTI" /\ file[m].frame.id[1] # c[1]
    /\ \A k \in m + 1 .. i : file[k].frame.kind = "cmd"

Kept(cmds) == SelectSeq(cmds, LAMBDA c : ~ Swallowed(c))

\* What a recovery restores is a state the database has been in: the effect of
\* the first messages, whole transactions only (explain_execute_aofcommand).  Two
\* things in the code break this, and the property leaves out exactly them: a
\* single command written behind a MULTI without an EXEC is lost, and a recovery
\* that goes on with the length of an earlier leftover does anything (RollbackIsPerfect
\* and NothingDurableIsLost are the statements without the exceptions).
RecoversPrefix ==
  phase = "recovered" /\ ~spoiled =>
    /\ IsPrefix(applied, Kept(before))
    /\ \A c, d \in Range(before) : c[1] = d[1] => (c \in Range(applied) <=> d \in Range(applied))

\* What was synced when the process ended is there after the recovery, with the
\* same two exceptions.
DurableSurvives == phase = "recovered" /\ ~spoiled => IsPrefix(Kept(durable), applied)

\* After an orderly shutdown every acknowledged command is in the file, synced:
\* the writer empties the channel before it ends.  (A spoiled recovery may have
\* cut commands off that it had restored.)
ShutdownLosesNothing == phase = "stopped" /\ ~spoiled => Synced = applied

\* A recovery leaves whole frames only, so that the next ones can be told apart;
\* the frames of a transaction without its EXEC may be among them.
RecoveredFileIsClean ==
  phase = "recovered" /\ ~spoiled /\ file # <<>> =>
    LET u == Last(file) IN u.part = u.frame.size


\* The unfinished transaction is dropped, and the rollback is perfect: nothing
\* else that was synced is lost with it, at this start or at a later one.
RollbackIsPerfect == phase = "recovered" /\ ~spoiled => IsPrefix(durable, applied)

\* A file of any size is restored: what was synced is there after the recovery.
NothingDurableIsLost == phase = "recovered" => IsPrefix(Kept(durable), applied)

\* The next start brings back every acknowledged command, after a crash too: the
\* Always policy is "absolutely safe".
AcknowledgedSurvives == phase = "recovered" => applied = before

\* A torn tail is discarded and the server starts.
RecoveryNeverFails == phase # "failed"

\* Every message is synced sooner or later, also by the timer alone, unless the
\* process crashes or the policy is No.
EventuallySynced ==
  \A n \in 1 .. MaxSent : (fsync # "No" /\ sent = n) ~> (Whole(n, synced) \/ crashes > 0 \/ spoiled)
=============================================================================

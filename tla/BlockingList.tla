---------------------------- MODULE BlockingList ----------------------------
(***************************************************************************)
(* LPUSH, LPOP and BLPOP (executor/list.rs) of concurrent connections on   *)
(* one key, with the queue of waiting BLPOPs (Storage::blocking_queues)    *)
(* and the order in which the commands reach the AOF channel.              *)
(*                                                                         *)
(* A step is what a command does between two awaits at which others may    *)
(* run: under the mutex of the queues, under the write lock of the shard,  *)
(* and after it.  Each connection issues one command; SET of the same key  *)
(* is there to make the key one of another type.                           *)
(***************************************************************************)
EXTENDS Integers, Sequences, FiniteSets, SequencesExt

CONSTANTS Pusher, Popper, Blocker, Setter,  \* the connections, by their command
          Pushes,      \* LPushCommand::values: [Pusher -> Seq(values)]
          Impatient,   \* the Blockers whose timeout is not 0
          None

Client == Pusher \cup Popper \cup Blocker \cup Setter
Value == UNION {Range(Pushes[p]) : p \in Pusher}

ASSUME PushesAssumption ==
  /\ \A p \in Pusher : Pushes[p] # <<>> /\ IsInjective(Pushes[p])
  /\ \A p, q \in Pusher : p # q => Range(Pushes[p]) \cap Range(Pushes[q]) = {}
  /\ Impatient \subseteq Blocker
  /\ None \notin Value

VARIABLES pc,             \* where each connection's command is
          kind, list,     \* the entry: "absent", "list" or "other", and its deque
          queue,          \* the senders of the waiting BLPOPs; stale ones included
          chan,           \* the value in each BLPOP's oneshot channel
          values_to_push, \* of each LPUSH
          reply,          \* what LPOP and BLPOP returned (None: Null or an error)
          refused,        \* the values whose LPUSH answered WRONGTYPE
          overwritten,    \* the values a SET replaced
          dropped,        \* the values dropped with the receiver of a BLPOP
          log             \* what was sent to the AOF channel

vars == <<pc, kind, list, queue, chan, values_to_push, reply, refused, overwritten,
          dropped, log>>

Init ==
  /\ pc = [c \in Client |-> "start"]
  /\ kind = "absent" /\ list = <<>>
  /\ queue = <<>>
  /\ chan = [b \in Blocker |-> None]
  /\ values_to_push = [p \in Pusher |-> <<>>]
  /\ reply = [c \in Popper \cup Blocker |-> None]
  /\ refused = {} /\ overwritten = {} /\ dropped = {}
  /\ log = <<>>

Goto(c, l) == pc' = [pc EXCEPT ![c] = l]
Lpop == [cmd |-> "LPOP"]

-----------------------------------------------------------------------------
(* LPUSH *)

\* oneshot::Sender::send succeeds while the receiver exists: until a BLPOP that
\* timed out has dropped it.
ReceiverAlive(b) == pc[b] \in {"wait", "expired"}

\* Wrong: a value is gone with the first stale sender; the newest waiter first.
Offered_drops_stale(q, ch, values) ==
  FoldLeft(LAMBDA acc, v :
             IF acc.queue = <<>> THEN [acc EXCEPT !.rest = Append(@, v)]
             ELSE IF ReceiverAlive(Head(acc.queue))
             THEN [acc EXCEPT !.queue = Tail(@), !.chan[Head(acc.queue)] = v]
             ELSE [acc EXCEPT !.queue = Tail(@)],
           [queue |-> q, chan |-> ch, rest |-> <<>>], values)

Offered_newest_first(q, ch, values) ==
  FoldLeft(LAMBDA acc, v :
             LET i == SelectLastInSeq(acc.queue, ReceiverAlive)
             IN  IF i = 0 THEN [acc EXCEPT !.queue = <<>>, !.rest = Append(@, v)]
                 ELSE [queue |-> SubSeq(acc.queue, 1, i - 1),
                       chan  |-> [acc.chan EXCEPT ![acc.queue[i]] = v],
                       rest  |-> acc.rest],
           [queue |-> q, chan |-> ch, rest |-> <<>>], values)

\* The loop over the values: each one pops senders until one succeeds, and is
\* to be stored when none does.  The queue, the channels and the values left.
Offered(q, ch, values) ==
  FoldLeft(LAMBDA acc, v :
             LET i == SelectInSeq(acc.queue, ReceiverAlive)
             IN  IF i = 0 THEN [acc EXCEPT !.queue = <<>>, !.rest = Append(@, v)]
                 ELSE [queue |-> SubSeq(acc.queue, i + 1, Len(acc.queue)),
                       chan  |-> [acc.chan EXCEPT ![acc.queue[i]] = v],
                       rest  |-> acc.rest],
           [queue |-> q, chan |-> ch, rest |-> <<>>], values)

\* Under the mutex of the queues: hand values to waiting BLPOPs.
lpush_offer(p) ==
  /\ pc[p] = "start"
  /\ LET o == Offered(queue, chan, Pushes[p])
     IN  queue' = o.queue /\ chan' = o.chan /\ values_to_push' = [values_to_push EXCEPT ![p] = o.rest]
  /\ Goto(p, "push")
  /\ UNCHANGED <<kind, list, reply, refused, overwritten, dropped, log>>

\* Under the write lock: nothing left to store (the command is not logged), the
\* key has another type, or the values go to the front one by one.
lpush_store(p) ==
  /\ pc[p] = "push"
  /\ \/ /\ values_to_push[p] = <<>>
        /\ Goto(p, "done")
        /\ UNCHANGED <<kind, list, refused>>
     \/ /\ values_to_push[p] # <<>> /\ kind = "other"
        /\ refused' = refused \cup Range(values_to_push[p])
        /\ Goto(p, "done")
        /\ UNCHANGED <<kind, list>>
     \/ /\ values_to_push[p] # <<>> /\ kind # "other"
        /\ kind' = "list" /\ list' = Reverse(values_to_push[p]) \o list
        /\ Goto(p, "log")
        /\ UNCHANGED refused
  /\ UNCHANGED <<queue, chan, values_to_push, reply, overwritten, dropped, log>>

\* After the lock: the whole command goes to the AOF, whatever was delivered.
lpush_log(p) ==
  /\ pc[p] = "log"
  /\ log' = Append(log, [cmd |-> "LPUSH", values |-> Pushes[p]])
  /\ Goto(p, "done")
  /\ UNCHANGED <<kind, list, queue, chan, values_to_push, reply, refused, overwritten, dropped>>

-----------------------------------------------------------------------------
(* LPOP and BLPOP *)

\* Wrong: the list is read and not changed.
PopFront_keeps(c) == reply' = [reply EXCEPT ![c] = Head(list)] /\ UNCHANGED <<kind, list>>

\* take, pop_front, and insert of what is left unless that is nothing.
PopFront(c) ==
  /\ reply' = [reply EXCEPT ![c] = Head(list)]
  /\ list' = Tail(list)
  /\ kind' = IF Tail(list) = <<>> THEN "absent" ELSE "list"

\* LPOP: all of it, the AOF included, under the write lock.  WRONGTYPE and an
\* absent key change nothing.
lpop(c) ==
  /\ pc[c] = "start"
  /\ \/ kind = "list" /\ PopFront(c) /\ log' = Append(log, Lpop)
     \/ kind # "list" /\ UNCHANGED <<kind, list, reply, log>>
  /\ Goto(c, "done")
  /\ UNCHANGED <<queue, chan, values_to_push, refused, overwritten, dropped>>

\* BLPOP under the write lock: pop, or WRONGTYPE, or register a sender (the
\* mutex of the queues is taken inside).
blpop_try(b) ==
  /\ pc[b] = "start"
  /\ \/ kind = "list" /\ PopFront(b) /\ Goto(b, "popped") /\ UNCHANGED queue
     \/ kind = "other" /\ Goto(b, "done") /\ UNCHANGED <<kind, list, reply, queue>>
     \/ /\ kind = "absent"
        /\ queue' = Append(queue, b)
        /\ Goto(b, "wait")
        /\ UNCHANGED <<kind, list, reply>>
  /\ UNCHANGED <<chan, values_to_push, refused, overwritten, dropped, log>>

\* After the lock: what was popped is logged as an LPOP.
blpop_log(b) ==
  /\ pc[b] = "popped"
  /\ log' = Append(log, Lpop)
  /\ Goto(b, "done")
  /\ UNCHANGED <<kind, list, queue, chan, values_to_push, reply, refused, overwritten, dropped>>

\* The channel has a value: it is the reply, and logged as an LPOP.
blpop_receive(b) ==
  /\ pc[b] = "wait" /\ chan[b] # None
  /\ reply' = [reply EXCEPT ![b] = chan[b]]
  /\ chan' = [chan EXCEPT ![b] = None]
  /\ log' = Append(log, Lpop)
  /\ Goto(b, "done")
  /\ UNCHANGED <<kind, list, queue, values_to_push, refused, overwritten, dropped>>

\* The timer fires with nothing in the channel; the receiver is dropped a
\* moment later, together with what was sent in between.
blpop_timeout(b) ==
  /\ pc[b] = "wait" /\ b \in Impatient /\ chan[b] = None
  /\ Goto(b, "expired")
  /\ UNCHANGED <<kind, list, queue, chan, values_to_push, reply, refused, overwritten, dropped, log>>

blpop_drop(b) ==
  /\ pc[b] = "expired"
  /\ chan' = [chan EXCEPT ![b] = None]
  /\ dropped' = dropped \cup ({chan[b]} \ {None})
  /\ Goto(b, "done")
  /\ UNCHANGED <<kind, list, queue, values_to_push, reply, refused, overwritten, log>>

\* SET of the key: insert and the AOF under the write lock.
set(c) ==
  /\ pc[c] = "start"
  /\ kind' = "other" /\ list' = <<>>
  /\ overwritten' = overwritten \cup Range(list)
  /\ log' = Append(log, [cmd |-> "SET"])
  /\ Goto(c, "done")
  /\ UNCHANGED <<queue, chan, values_to_push, reply, refused, dropped>>

Pushing(p) == lpush_offer(p) \/ lpush_store(p) \/ lpush_log(p)
Blocking(b) == blpop_try(b) \/ blpop_log(b) \/ blpop_receive(b) \/ blpop_timeout(b) \/ blpop_drop(b)

Next ==
  \/ \E p \in Pusher : Pushing(p)
  \/ \E c \in Popper : lpop(c)
  \/ \E b \in Blocker : Blocking(b)
  \/ \E c \in Setter : set(c)

\* Every command that can go on does so, and the timers fire.
Fairness ==
  /\ \A p \in Pusher : WF_vars(Pushing(p))
  /\ \A c \in Popper : WF_vars(lpop(c))
  /\ \A b \in Blocker : WF_vars(Blocking(b))
  /\ \A c \in Setter : WF_vars(set(c))

Spec == Init /\ [][Next]_vars /\ Fairness

-----------------------------------------------------------------------------
(* Properties *)

Replies == {c \in Popper \cup Blocker : reply[c] # None}

\* A pushed value is never handed out twice: it is in at most one of the list,
\* the channels and the replies, and nothing is both refused and handed out.
DeliveredOnce ==
  /\ IsInjective(list)
  /\ \A c, d \in Replies : c # d => reply[c] # reply[d]
  /\ \A b, c \in Blocker : b # c /\ chan[b] # None => chan[b] # chan[c]
  /\ \A c \in Replies : ~Contains(list, reply[c]) /\ reply[c] \notin refused \cup overwritten
  /\ \A b \in Blocker : /\ ~Contains(list, chan[b])
                        /\ \A c \in Replies : reply[c] # chan[b]

Offering(p) == pc[p] # "start"
Underway == UNION {Range(values_to_push[p]) : p \in {q \in Pusher : pc[q] = "push"}}
Accounted == Range(list) \cup Underway \cup refused \cup overwritten
             \cup {chan[b] : b \in Blocker} \cup {reply[c] : c \in Replies}

\* A pushed value is stored, delivered, refused or overwritten, unless it was
\* sent to a BLPOP between its timer and the drop of its receiver: a stale
\* sender met by LPUSH costs no value, and neither does a partial delivery.
LostOnlyByTimeout ==
  \A p \in Pusher : Offering(p) => Range(Pushes[p]) \subseteq Accounted \cup dropped

\* BLPOP waits safely until an element is pushed or its timeout: an LPUSH that
\* found a waiter gave the value to a reply, and no value disappears.
NoValueLost == \A p \in Pusher : Offering(p) => Range(Pushes[p]) \subseteq Accounted

\* Waiting BLPOPs are served in the order in which they began to wait: a value
\* goes to nobody who has a living predecessor in the queue.
ServedInOrder ==
  [][\A i, j \in 1 .. Len(queue) :
       (i < j /\ ReceiverAlive(queue[i]) /\ chan[queue[j]] = None /\ chan'[queue[j]] # None)
         => chan'[queue[i]] # None]_vars

\* A BLPOP waits until an element is pushed: it does not stay blocked beside an
\* element that nobody else takes.
BlockedIsServed ==
  \A b \in Blocker : (pc[b] = "wait" /\ kind = "list") ~> (pc[b] # "wait" \/ kind # "list")

Quiet == \A c \in Client : pc[c] \in {"done", "wait"}

\* What explain_execute_aofcommand makes of the log.
Replayed ==
  FoldLeft(LAMBDA acc, r :
             IF r.cmd = "SET" THEN [kind |-> "other", list |-> <<>>]
             ELSE IF acc.kind = "other" \/ (r.cmd = "LPOP" /\ acc.kind = "absent") THEN acc
             ELSE LET l == IF r.cmd = "LPUSH" THEN Reverse(r.values) \o acc.list ELSE Tail(acc.list)
                  IN  [kind |-> IF l = <<>> THEN "absent" ELSE "list", list |-> l],
           [kind |-> "absent", list |-> <<>>], log)

\* The AOF restores the list: once the commands are done, replaying what they
\* logged gives what is in memory.
LogRestoresList == Quiet => Replayed = [kind |-> kind, list |-> list]
=============================================================================

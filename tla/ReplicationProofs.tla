------------------------- MODULE ReplicationProofs -------------------------
(***************************************************************************)
(* The stream of a replica, for any number of keys, writers, replicas and  *)
(* connections and for every capacity of the hub: it follows the log key   *)
(* by key, and leaves nothing out unless the hub reported a lag.  The      *)
(* invariant is IInv of ReplicationMaster; here are the steps of the       *)
(* handlers and of the replicas, and the theorems.                         *)
(***************************************************************************)
EXTENDS ReplicationMaster

-----------------------------------------------------------------------------
(* The handlers of the replicas' connections *)

LEMMA SessionsChange ==
  ASSUME IInv, UNCHANGED <<lock, task, issued, log, hub>>,
         session' \in Seq(Handler), \A s \in DOMAIN session' : SessionOK(session'[s])
  PROVE  IInv'
<1>1. Types'
  BY DEF IInv, Types
<1>2. LogUnique' /\ HubOK'
  BY DEF IInv, LogUnique, HubOK
<1>3. TasksOK'
  BY DEF IInv, TasksOK, Busy
<1>4. SessionsOK'
  BY DEF SessionsOK, SessionOK
<1> QED BY <1>1, <1>2, <1>3, <1>4, SMTT(30) DEF IInv

LEMMA HandlerChange ==
  ASSUME IInv, UNCHANGED <<lock, task, issued, log, hub>>,
         NEW s \in DOMAIN session, NEW x \in Handler, SessionOK(x), Step(s, x)
  PROVE  IInv'
<1>1. session' \in Seq(Handler) /\ DOMAIN session' = DOMAIN session
  BY DEF IInv, Types, Step
<1>2. \A r \in DOMAIN session : session'[r] = IF r = s THEN x ELSE session[r]
  BY DEF IInv, Types, Step
<1>3. \A r \in DOMAIN session' : SessionOK(session'[r])
  BY <1>1, <1>2 DEF IInv, SessionsOK
<1> QED BY <1>1, <1>3, SessionsChange

LEMMA GoneOK == Types => Gone \in Handler /\ SessionOK(Gone)
<1> SUFFICES ASSUME Types PROVE Gone \in Handler /\ SessionOK(Gone)
  OBVIOUS
<1> QED BY DEF Gone, Handler, SessionOK, StreamOK, Complete, Types

LEMMA SubscribeOK ==
  ASSUME IInv, NEW s \in DOMAIN session, subscribe(s)
  PROVE  IInv'
<1>1. session[s] \in Handler /\ SessionOK(session[s]) /\ Len(hub) + 1 \in Nat
  BY DEF IInv, SessionsOK, Types
<1>2. PICK y \in Handler, n \in Nat : y = session[s] /\ n = Len(hub) + 1
  BY <1>1
<1>3. PICK x : x = [y EXCEPT !.at = "hello", !.next = n]
  OBVIOUS
<1>4. Step(s, x) /\ UNCHANGED <<lock, task, issued, log, hub>> /\ y.at = "psync"
  BY <1>2, <1>3 DEF subscribe, MasterUnchanged
<1>5. y.stream = <<>>
  BY <1>1, <1>2, <1>4 DEF SessionOK, StreamOK
<1>6. x \in Handler /\ x.at = "hello" /\ x.next = n /\ x.stream = y.stream
  BY <1>3, ZenonT(40) DEF Handler
<1>7. SessionOK(x)
  BY <1>2, <1>5, <1>6 DEF SessionOK, StreamOK, Complete
<1> QED BY <1>4, <1>6, <1>7, HandlerChange, SMTT(30)

LEMMA FullresyncOK ==
  ASSUME IInv, NEW s \in DOMAIN session, fullresync(s)
  PROVE  IInv'
<1>1. /\ session[s] \in Handler /\ SessionOK(session[s])
      /\ hub \in Seq(Command) /\ log \in Seq(Command) /\ Len(log) \in Nat
  BY DEF IInv, SessionsOK, Types
<1>2. PICK y \in Handler, n \in Nat : y = session[s] /\ n = Len(log)
  BY <1>1
<1>3. PICK t : t = IF y.linked THEN <<FULLRESYNC>> ELSE <<>>
  BY ZenonT(40)
<1>4. PICK x : x = [y EXCEPT !.at = "push", !.since = n, !.stream = t]
  OBVIOUS
<1>5. Step(s, x) /\ UNCHANGED <<lock, task, issued, log, hub>>
  BY <1>2, <1>3, <1>4, SMTT(30) DEF fullresync, MasterUnchanged
<1>6. /\ t \in Seq(Command \cup {FULLRESYNC}) /\ DOMAIN t \subseteq {1}
      /\ \A i \in DOMAIN t : t[i] = FULLRESYNC
  <2>1. CASE t = <<>>
    BY <2>1
  <2>2. CASE t = <<FULLRESYNC>>
    BY <2>2
  <2> QED BY <2>1, <2>2, <1>3
<1>7. x \in Handler /\ x.at = "push" /\ x.next = y.next /\ x.since = n /\ x.stream = t
  BY <1>4, <1>6, ZenonT(40) DEF Handler
<1>8. StreamOK(x, log, hub)
  <2>1. \A i, j \in DOMAIN x.stream : ~(i < j)
    BY <1>6, <1>7
  <2> QED BY <2>1, <1>1, <1>2, <1>6, <1>7, SMTT(30) DEF SessionOK, StreamOK
<1>9. SessionOK(x)
  <2>1. \A i \in DOMAIN log : ~(i > x.since)
    BY <1>1, <1>2, <1>7
  <2> QED BY <2>1, <1>8 DEF SessionOK, Complete
<1> QED BY <1>5, <1>7, <1>9, HandlerChange, SMTT(30)

LEMMA OldestOK == Types => Oldest \in Nat \ {0} /\ Oldest <= Len(hub) + 1
  BY ReplicationAssumption DEF Types, Oldest

LEMMA PushOK ==
  ASSUME IInv, NEW s \in DOMAIN session, push(s)
  PROVE  IInv'
<1>0. PICK y : y = session[s]
  OBVIOUS
<1> DEFINE n == y.next
<1>1. /\ y \in Handler /\ SessionOK(y) /\ hub \in Seq(Command) /\ log \in Seq(Command)
      /\ UNCHANGED <<lock, task, issued, log, hub>> /\ y.at = "push"
  BY <1>0 DEF IInv, SessionsOK, Types, push, MasterUnchanged
<1>2. n \in DOMAIN hub
  BY OldestOK, <1>0, <1>1 DEF IInv, push
<1>3. CASE ~y.linked
  BY <1>0, <1>1, <1>3, GoneOK, HandlerChange, SMTT(30) DEF push, IInv
<1>4. CASE y.linked
  <2>0. PICK t, m, x : /\ t = Append(y.stream, hub[n]) /\ m = n + 1
                       /\ x = [y EXCEPT !.next = m, !.stream = t]
    BY ZenonT(40)
  <2>a. /\ n \in Nat /\ y.stream \in Seq(Command \cup {FULLRESYNC}) /\ hub[n] \in Command
        /\ t \in Seq(Command \cup {FULLRESYNC}) /\ m \in Nat
    BY <1>1, <1>2, <2>0, SMTT(30) DEF Handler
  <2>b. x \in Handler /\ x.next = m /\ x.stream = t
    <3>1. y \in Handler /\ x = [y EXCEPT !.next = m, !.stream = t]
      BY <1>1, <2>0
    <3> QED BY <3>1, <2>a, ZenonT(40) DEF Handler
  <2>c. x.at = y.at /\ x.since = y.since /\ x.lagged = y.lagged /\ x.linked = y.linked
    BY <1>1, <2>0 DEF Handler
  <2>1. /\ x \in Handler /\ x.at = "push" /\ x.next = n + 1 /\ x.stream = Append(y.stream, hub[n])
        /\ x.since = y.since /\ x.lagged = y.lagged /\ x.linked = y.linked
        /\ n \in Nat /\ y.stream \in Seq(Command \cup {FULLRESYNC}) /\ hub[n] \in Command
    BY <1>1, <2>0, <2>a, <2>b, <2>c, SMTT(30)
  <2>2. Step(s, x)
    BY <1>0, <1>4, <2>0 DEF push
  <2>3. /\ \A i \in DOMAIN y.stream : x.stream[i] = y.stream[i] /\ i \in DOMAIN x.stream
        /\ Len(y.stream) + 1 \in DOMAIN x.stream /\ x.stream[Len(y.stream) + 1] = hub[n]
        /\ \A i \in DOMAIN x.stream : i \in DOMAIN y.stream \/ i = Len(y.stream) + 1
        /\ DOMAIN y.stream = 1 .. Len(y.stream) /\ Len(y.stream) \in Nat
    BY <2>1
  <2>4. StreamOK(x, log, hub)
    <3>1. x.next <= Len(hub) + 1
      BY <2>1, <1>1, <1>2
    <3>2. \A i \in DOMAIN x.stream :
            x.stream[i] = FULLRESYNC \/ \E a \in DOMAIN hub : a < x.next /\ x.stream[i] = hub[a]
      <4>1. SUFFICES ASSUME NEW i \in DOMAIN x.stream, x.stream[i] # FULLRESYNC
                     PROVE  \E a \in DOMAIN hub : a < x.next /\ x.stream[i] = hub[a]
        OBVIOUS
      <4>2. CASE i \in DOMAIN y.stream
        <5>1. PICK a \in DOMAIN hub : a < n /\ y.stream[i] = hub[a]
          BY <4>1, <4>2, <2>3, <1>1, SMTT(30) DEF SessionOK, StreamOK
        <5>2. a < x.next /\ x.stream[i] = hub[a]
          BY <5>1, <4>2, <2>1, <2>3, <1>1, SMTT(30)
        <5> QED BY <5>2
      <4>3. CASE i = Len(y.stream) + 1
        BY <4>3, <2>1, <2>3, <1>2, SMTT(30)
      <4> QED BY <4>2, <4>3, <2>3, SMTT(30)
    <3>3. \A i, j \in DOMAIN x.stream :
            i < j /\ Ordered(x.stream[i], x.stream[j]) => Before(log, x.stream[i], x.stream[j])
      <4>1. SUFFICES ASSUME NEW i \in DOMAIN x.stream, NEW j \in DOMAIN x.stream,
                            i < j, Ordered(x.stream[i], x.stream[j])
                     PROVE  Before(log, x.stream[i], x.stream[j])
        OBVIOUS
      <4>2. i \in DOMAIN y.stream
        BY <4>1, <2>3
      <4>3. CASE j \in DOMAIN y.stream
        BY <4>1, <4>2, <4>3, <2>3, <1>1, SMTT(30), ZenonT(30) DEF SessionOK, StreamOK
      <4>4. CASE j = Len(y.stream) + 1
        <5>1. x.stream[i] = y.stream[i] /\ x.stream[j] = hub[n]
          BY <4>2, <4>4, <2>3
        <5>2. y.stream[i] # FULLRESYNC
          BY <4>1, <5>1 DEF Ordered, FULLRESYNC
        <5>3. PICK a \in DOMAIN hub : a < n /\ y.stream[i] = hub[a]
          BY <5>2, <4>2, <1>1, SMTT(30) DEF SessionOK, StreamOK
        <5> QED BY <5>1, <5>3, <4>1, <1>2 DEF IInv, HubOK
      <4> QED BY <4>3, <4>4, <2>3, SMTT(30)
    <3> QED BY <3>1, <3>2, <3>3, <2>1, ZenonT(40) DEF StreamOK
  <2>5. Complete(x, log, hub, task)
    <3>1. SUFFICES ASSUME ~y.lagged, NEW i \in DOMAIN log, i > y.since
                   PROVE  \/ Contains(x.stream, log[i])
                          \/ \E a \in DOMAIN hub : a >= n + 1 /\ hub[a] = log[i]
                          \/ \E w \in Writer : task[w] = [at |-> "broadcast", cmd |-> log[i]]
      BY <2>1 DEF Complete
    <3>2. \/ Contains(y.stream, log[i])
          \/ \E a \in DOMAIN hub : a >= n /\ hub[a] = log[i]
          \/ \E w \in Writer : task[w] = [at |-> "broadcast", cmd |-> log[i]]
      BY <3>1, <1>1, <1>4, SMTT(30) DEF SessionOK, Complete
    <3>3. Contains(y.stream, log[i]) => Contains(x.stream, log[i])
      BY <2>1, <2>3 DEF Contains
    <3>4. hub[n] = log[i] => Contains(x.stream, log[i])
      BY <2>1, <2>3 DEF Contains
    <3>5. \A a \in DOMAIN hub : a >= n => a = n \/ a >= n + 1
      BY <2>1, <1>1
    <3> QED BY <3>2, <3>3, <3>4, <3>5, SMTT(30)
  <2>6. SessionOK(x)
    BY <2>4, <2>5 DEF SessionOK
  <2> QED BY <2>1, <2>2, <2>6, <1>1, HandlerChange, SMTT(30)
<1> QED BY <1>3, <1>4

LEMMA LaggedOK ==
  ASSUME IInv, NEW s \in DOMAIN session, lagged(s)
  PROVE  IInv'
<1>1. /\ session[s] \in Handler /\ SessionOK(session[s]) /\ hub \in Seq(Command)
      /\ Oldest \in Nat /\ Oldest <= Len(hub) + 1
  BY OldestOK DEF IInv, SessionsOK, Types
<1>2. PICK y \in Handler, n \in Nat : y = session[s] /\ n = Oldest
  BY <1>1
<1>3. PICK x : x = [y EXCEPT !.next = n, !.lagged = TRUE]
  OBVIOUS
<1>4. Step(s, x) /\ UNCHANGED <<lock, task, issued, log, hub>> /\ y.at = "push" /\ y.next < n
  BY <1>2, <1>3 DEF lagged, MasterUnchanged
<1>5. x \in Handler /\ x.at = y.at /\ x.next = n /\ x.stream = y.stream /\ x.lagged
  BY <1>3, ZenonT(40) DEF Handler
<1>6. StreamOK(x, log, hub)
  <2>1. \A a \in DOMAIN hub : a < y.next => a < x.next
    BY <1>1, <1>4, <1>5, SMTT(30) DEF Handler
  <2> QED BY <2>1, <1>1, <1>2, <1>4, <1>5, SMTT(30) DEF SessionOK, StreamOK
<1>7. SessionOK(x)
  BY <1>5, <1>6 DEF SessionOK, Complete
<1> QED BY <1>4, <1>5, <1>7, HandlerChange

LEMMA PushStopsOK ==
  ASSUME IInv, NEW s \in DOMAIN session, push_stops(s)
  PROVE  IInv'
<1>1. session[s] \in Handler /\ SessionOK(session[s])
  BY DEF IInv, SessionsOK, Types
<1>2. PICK y \in Handler : y = session[s]
  BY <1>1
<1>3. PICK x : x = [y EXCEPT !.at = "gone"]
  BY ZenonT(40)
<1>4. UNCHANGED <<lock, task, issued, log, hub>> /\ (Step(s, x) \/ Step(s, Gone))
  BY <1>2, <1>3 DEF push_stops, MasterUnchanged
<1>5. x \in Handler /\ x.at = "gone" /\ x.next = y.next /\ x.stream = y.stream
  BY <1>3 DEF Handler
<1>6. SessionOK(x)
  BY <1>1, <1>2, <1>5 DEF SessionOK, StreamOK, Complete
<1> QED BY <1>4, <1>5, <1>6, GoneOK, HandlerChange, SMTT(30) DEF IInv

-----------------------------------------------------------------------------
(* The replicas' ends of the connections *)

LEMMA ConnectOK ==
  ASSUME IInv, NEW r \in Replica, connect(r)
  PROVE  IInv'
<1>1. Started \in Handler /\ SessionOK(Started)
  <2>1. Started \in Handler
    BY DEF Started, Handler
  <2>2. Started.at = "psync" /\ Started.next = 0 /\ Started.stream = <<>>
    BY DEF Started
  <2> HIDE DEF Started
  <2>3. StreamOK(Started, log, hub)
    BY <2>2 DEF StreamOK, IInv, Types
  <2> QED BY <2>1, <2>2, <2>3 DEF SessionOK, Complete
<1>2. session' = Append(session, Started) /\ UNCHANGED <<lock, task, issued, log, hub>>
  BY DEF connect
<1>3. session' \in Seq(Handler) /\ \A s \in DOMAIN session' : SessionOK(session'[s])
  <2> HIDE DEF Started
  <2>1. session \in Seq(Handler) /\ \A s \in DOMAIN session : SessionOK(session[s])
    BY DEF IInv, Types, SessionsOK
  <2>2. session' \in Seq(Handler)
    BY <1>1, <1>2, <2>1
  <2>3. \A s \in DOMAIN session' :
          (s \in DOMAIN session /\ session'[s] = session[s]) \/ session'[s] = Started
    BY <1>1, <1>2, <2>1
  <2>4. SUFFICES ASSUME NEW s \in DOMAIN session' PROVE SessionOK(session'[s])
    BY <2>2
  <2>5. CASE s \in DOMAIN session /\ session'[s] = session[s]
    <3>1. SessionOK(session[s])
      BY <2>1, <2>5
    <3> QED BY <3>1, <2>5
  <2>6. CASE session'[s] = Started
    BY <1>1, <2>6
  <2> QED BY <2>3, <2>5, <2>6
<1> QED BY <1>2, <1>3, SessionsChange

LEMMA UnlinkOK ==
  ASSUME IInv, NEW s, session' = Unlinked(s), UNCHANGED <<lock, task, issued, log, hub>>
  PROVE  IInv'
<1>1. PICK g : g = IF session[s].at = "gone" THEN Gone ELSE [session[s] EXCEPT !.linked = FALSE]
  BY ZenonT(40)
<1>2. session' = [session EXCEPT ![s] = g]
  BY <1>1 DEF Unlinked
<1>3. CASE s \notin DOMAIN session
  <2>1. session' = session
    BY <1>2, <1>3 DEF IInv, Types
  <2> QED BY <2>1, SessionsChange, SMTT(30) DEF IInv, Types, SessionsOK
<1>4. CASE s \in DOMAIN session
  <2>1. session[s] \in Handler /\ SessionOK(session[s])
    BY <1>4 DEF IInv, SessionsOK, Types
  <2>2. PICK y \in Handler : y = session[s]
    BY <2>1
  <2>3. PICK x : x = [y EXCEPT !.linked = FALSE]
    BY ZenonT(40)
  <2>4. x \in Handler /\ x.at = y.at /\ x.next = y.next /\ x.stream = y.stream /\ ~x.linked
    BY <2>3, ZenonT(40) DEF Handler
  <2>5. SessionOK(x)
    BY <2>1, <2>2, <2>4, ZenonT(40) DEF SessionOK, StreamOK, Complete
  <2>6. Step(s, x) \/ Step(s, Gone)
    BY <1>1, <1>2, <2>2, <2>3, ZenonT(40) DEF Step
  <2> QED BY <1>4, <2>4, <2>5, <2>6, GoneOK, HandlerChange, SMTT(30) DEF IInv
<1> QED BY <1>3, <1>4

LEMMA SessionsKept ==
  ASSUME IInv, UNCHANGED <<lock, task, issued, log, hub, session>>
  PROVE  IInv'
  BY SessionsChange DEF IInv, Types, SessionsOK

-----------------------------------------------------------------------------
(* Theorems *)

LEMMA InvAlways == Spec => []IInv
<1>1. IInv /\ [Next]_vars => IInv'
  <2> SUFFICES ASSUME IInv, [Next]_vars PROVE IInv'
    OBVIOUS
  <2>1. CASE UNCHANGED vars
    BY <2>1, SessionsKept DEF vars
  <2>2. ASSUME NEW w \in Writer, NEW k \in Key, NEW held \in BOOLEAN, store(w, k, held) PROVE IInv'
    BY <2>2, StoreOK
  <2>3. ASSUME NEW w \in Writer, send_aof(w) \/ broadcast_bytes_to_slaves(w) PROVE IInv'
    BY <2>3, SendOK, BroadcastOK, SMTT(30)
  <2>4. ASSUME NEW s \in DOMAIN session,
               subscribe(s) \/ fullresync(s) \/ push(s) \/ lagged(s) \/ push_stops(s)
        PROVE  IInv'
    BY <2>4, SubscribeOK, FullresyncOK, PushOK, LaggedOK, PushStopsOK, SMTT(30)
  <2>5. ASSUME NEW r \in Replica, connect(r) PROVE IInv'
    BY <2>5, ConnectOK
  <2>6. ASSUME NEW r \in Replica, replay(r) PROVE IInv'
    BY <2>6, SessionsKept, ZenonT(40) DEF replay
  <2>7. ASSUME NEW r \in Replica, disconnect(r) \/ replica_stops(r) PROVE IInv'
    <3>1. /\ UNCHANGED <<lock, task, issued, log, hub>>
          /\ session' = session \/ session' = Unlinked(replica[r].conn)
      BY <2>7 DEF disconnect, replica_stops
    <3> QED BY <3>1, SessionsKept, UnlinkOK, SMTT(30)
  <2>8. CASE shutdown
    BY <2>8, SessionsKept DEF shutdown
  <2> QED BY <2>1, <2>2, <2>3, <2>4, <2>5, <2>6, <2>7, <2>8, SMTT(30) DEF Next
<1> QED BY <1>1, InitOK, PTL, SMTT(30) DEF Spec

\* Every replica gets the commands on a key that log under its lock in the
\* order of the log, for any number of writers, connections and any Cap.
THEOREM StreamsFollowLog == Spec => []StreamFollowsLog
<1>1. IInv => StreamFollowsLog
  <2>1. SUFFICES ASSUME IInv, NEW s \in DOMAIN session,
                        NEW i \in DOMAIN session[s].stream, NEW j \in DOMAIN session[s].stream,
                        i < j, Ordered(session[s].stream[i], session[s].stream[j])
                 PROVE  /\ Before(log, session[s].stream[i], session[s].stream[j])
                        /\ ~Before(log, session[s].stream[j], session[s].stream[i])
    BY DEF StreamFollowsLog, Ordered
  <2>2. Before(log, session[s].stream[i], session[s].stream[j])
    BY <2>1 DEF IInv, SessionsOK, SessionOK, StreamOK
  <2>3. \A c, d : Before(log, c, d) => ~Before(log, d, c)
    <3>1. log \in Seq(Command) /\ \A a, b \in DOMAIN log : log[a] = log[b] => a = b
      BY <2>1, SMTT(30) DEF IInv, Types, LogUnique
    <3> QED BY <3>1 DEF Before
  <2> QED BY <2>2, <2>3, SMTT(30)
<1> QED BY <1>1, InvAlways, PTL, SMTT(30)

\* A stream that has caught up without a lag lacks nothing that was logged since
\* "+FULLRESYNC" but what is still on its way into the hub.
THEOREM StreamsAreComplete == Spec => []StreamIsComplete
<1>1. IInv => StreamIsComplete
  <2>1. SUFFICES ASSUME IInv, NEW s \in DOMAIN session, session[s].at = "push", ~session[s].lagged,
                        session[s].next = Len(hub) + 1, session[s].linked,
                        NEW i \in session[s].since + 1 .. Len(log)
                 PROVE  \/ Contains(session[s].stream, log[i])
                        \/ \E w \in Writer : task[w] = [at |-> "broadcast", cmd |-> log[i]]
    BY ZenonT(40) DEF StreamIsComplete
  <2>2. session[s] \in Handler /\ Complete(session[s], log, hub, task)
    BY <2>1 DEF IInv, Types, SessionsOK, SessionOK
  <2>3. i \in DOMAIN log /\ i > session[s].since
    BY <2>1, <2>2, SMTT(30) DEF IInv, Types, Handler
  <2>4. \A a \in DOMAIN hub : ~(a >= session[s].next)
    BY <2>1 DEF IInv, Types
  <2> QED BY <2>1, <2>2, <2>3, <2>4, SMTT(30) DEF Complete
<1> QED BY <1>1, InvAlways, PTL
=============================================================================

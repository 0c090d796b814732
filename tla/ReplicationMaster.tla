------------------------- MODULE ReplicationMaster -------------------------
(***************************************************************************)
(* The inductive invariant behind the streams of the replicas (theorems in *)
(* ReplicationProofs), and its proof for the steps of the master's         *)
(* commands: store, log, broadcast.                                        *)
(***************************************************************************)
EXTENDS Replication, FiniteSetTheorems, TLAPS

Handler ==
  [at : {"psync", "hello", "push", "gone"}, next : Nat, stream : Seq(Command \cup {FULLRESYNC}),
   since : Nat, lagged : BOOLEAN, linked : BOOLEAN]

Types ==
  /\ lock \in [Key -> Writer \cup {None}]
  /\ task \in [Writer -> {Idle} \cup [at : {"log", "broadcast"}, cmd : Command]]
  /\ issued \in Nat
  /\ log \in Seq(Command) /\ hub \in Seq(Command)
  /\ session \in Seq(Handler)

Busy(w) == task[w] # Idle
InLog(l, c) == \E i \in DOMAIN l : l[i] = c

\* No command is logged twice.
LogUnique ==
  /\ \A i \in DOMAIN log : log[i].id <= issued
  /\ \A i, j \in DOMAIN log : log[i].id = log[j].id => i = j

\* A command under way is new to the log until its writer has logged it; one
\* that logs under the lock holds it.
TasksOK ==
  /\ \A w \in Writer : Busy(w) =>
       /\ task[w].cmd.id <= issued
       /\ task[w].at = "log" => \A i \in DOMAIN log : log[i].id # task[w].cmd.id
       /\ task[w].at = "broadcast" => InLog(log, task[w].cmd)
       /\ task[w].cmd.held => lock[task[w].cmd.key] = w
  /\ \A w, v \in Writer : w # v /\ Busy(w) /\ Busy(v) => task[w].cmd.id # task[v].cmd.id

\* Two commands whose order the lock of their key decides.
Ordered(c, d) == c.key = d.key /\ c.held /\ d.held

\* The hub has logged commands only, in the order of the log, and those that
\* are still to be sent are later.
HubOK ==
  /\ \A a \in DOMAIN hub : InLog(log, hub[a])
  /\ \A a, b \in DOMAIN hub : a < b /\ Ordered(hub[a], hub[b]) => Before(log, hub[a], hub[b])
  /\ \A w \in Writer, a \in DOMAIN hub :
       task[w].at = "broadcast" /\ Ordered(hub[a], task[w].cmd) => Before(log, hub[a], task[w].cmd)

\* A stream holds messages of the hub that its handler has received, in order.
StreamOK(x, l, h) ==
  /\ x.at = "psync" => x.stream = <<>>
  /\ x.next <= Len(h) + 1
  /\ \A i \in DOMAIN x.stream :
       x.stream[i] = FULLRESYNC \/ \E a \in DOMAIN h : a < x.next /\ x.stream[i] = h[a]
  /\ \A i, j \in DOMAIN x.stream :
       i < j /\ Ordered(x.stream[i], x.stream[j]) => Before(l, x.stream[i], x.stream[j])

\* The handler still has in front of it what the stream lacks: in the hub, or
\* on its way there.
Complete(x, l, h, t) ==
  x.at = "push" /\ x.linked /\ ~x.lagged =>
    \A i \in DOMAIN l : i > x.since =>
      \/ Contains(x.stream, l[i])
      \/ \E a \in DOMAIN h : a >= x.next /\ h[a] = l[i]
      \/ \E w \in Writer : t[w] = [at |-> "broadcast", cmd |-> l[i]]

SessionOK(x) == StreamOK(x, log, hub) /\ Complete(x, log, hub, task)
SessionsOK == \A s \in DOMAIN session : SessionOK(session[s])

IInv == Types /\ LogUnique /\ TasksOK /\ HubOK /\ SessionsOK

-----------------------------------------------------------------------------
(* Lemmas on sequences *)

LEMMA BeforeAppend ==
  ASSUME NEW S, NEW l \in Seq(S), NEW e \in S, NEW c, NEW d, Before(l, c, d)
  PROVE  Before(Append(l, e), c, d)
<1>1. PICK i \in DOMAIN l, j \in DOMAIN l : i < j /\ l[i] = c /\ l[j] = d
  BY DEF Before
<1>2. /\ i \in DOMAIN Append(l, e) /\ j \in DOMAIN Append(l, e)
      /\ Append(l, e)[i] = l[i] /\ Append(l, e)[j] = l[j]
  OBVIOUS
<1> QED BY <1>1, <1>2 DEF Before

LEMMA BeforeLast ==
  ASSUME NEW S, NEW l \in Seq(S), NEW e \in S, NEW c, InLog(l, c)
  PROVE  Before(Append(l, e), c, e)
<1>1. PICK i \in DOMAIN l : l[i] = c
  BY DEF InLog
<1>2. /\ i \in DOMAIN Append(l, e) /\ Len(l) + 1 \in DOMAIN Append(l, e) /\ i < Len(l) + 1
      /\ Append(l, e)[i] = l[i] /\ Append(l, e)[Len(l) + 1] = e
  OBVIOUS
<1> QED BY <1>1, <1>2 DEF Before

LEMMA InLogAppend ==
  ASSUME NEW S, NEW l \in Seq(S), NEW e \in S, NEW c
  PROVE  InLog(Append(l, e), c) <=> InLog(l, c) \/ c = e
<1>1. ASSUME InLog(l, c) PROVE InLog(Append(l, e), c)
  <2>1. PICK i \in DOMAIN l : l[i] = c
    BY <1>1 DEF InLog
  <2>2. i \in DOMAIN Append(l, e) /\ Append(l, e)[i] = l[i]
    OBVIOUS
  <2> QED BY <2>1, <2>2 DEF InLog
<1>2. ASSUME c = e PROVE InLog(Append(l, e), c)
  <2>1. Len(l) + 1 \in DOMAIN Append(l, e) /\ Append(l, e)[Len(l) + 1] = e
    OBVIOUS
  <2> QED BY <1>2, <2>1 DEF InLog
<1>3. ASSUME InLog(Append(l, e), c) PROVE InLog(l, c) \/ c = e
  BY <1>3 DEF InLog
<1> QED BY <1>1, <1>2, <1>3

-----------------------------------------------------------------------------
(* The commands of the master *)

LEMMA InitOK == Init => IInv
<1> SUFFICES ASSUME Init PROVE IInv
  OBVIOUS
<1> USE DEF Init
<1>1. Types
  BY DEF Types
<1>2. LogUnique /\ HubOK /\ SessionsOK
  BY DEF LogUnique, HubOK, SessionsOK
<1>3. TasksOK
  BY DEF TasksOK, Busy
<1> QED BY <1>1, <1>2, <1>3 DEF IInv

LEMMA StoreOK ==
  ASSUME IInv, NEW w \in Writer, NEW k \in Key, NEW held \in BOOLEAN, store(w, k, held)
  PROVE  IInv'
<1> DEFINE c == [id |-> issued + 1, key |-> k, held |-> held]
           t == [at |-> "log", cmd |-> c]
<1>1. /\ task' = [task EXCEPT ![w] = t] /\ issued' = issued + 1
      /\ lock' = [lock EXCEPT ![k] = HolderAfter(w, held)]
      /\ log' = log /\ hub' = hub /\ session' = session
      /\ task[w] = Idle /\ lock[k] = None
  BY DEF store
<1>2. c \in Command /\ t # Idle /\ t.at = "log" /\ t.cmd = c
  BY ReplicationAssumption DEF IInv, Types, Command, Idle, store
<1> HIDE DEF t
<1>3. Types'
  <2>1. t \in [at : {"log", "broadcast"}, cmd : Command]
    BY <1>2 DEF t
  <2> QED BY <1>1, <2>1 DEF IInv, Types, HolderAfter
<1>4. /\ task'[w] = t
      /\ \A v \in Writer : v # w => task'[v] = task[v]
  BY <1>1 DEF IInv, Types
<1>5. LogUnique'
  <2>1. \A i \in DOMAIN log : log[i].id \in Nat /\ log[i].id <= issued
    <3>1. \A i \in DOMAIN log : log[i] \in Command
      BY DEF IInv, Types
    <3>2. \A x \in Command : x.id \in Nat
      BY ReplicationAssumption DEF Command
    <3> QED BY <3>1, <3>2 DEF IInv, LogUnique
  <2>2. \A i \in DOMAIN log : log[i].id <= issued + 1
    BY <2>1 DEF IInv, Types
  <2> QED BY <2>2, <1>1 DEF IInv, LogUnique
<1>6. TasksOK'
  <2>1. \A v \in Writer : v # w /\ Busy(v) => task[v].cmd \in Command /\ task[v].cmd.id <= issued
    BY DEF IInv, TasksOK, Types, Busy
  <2>2. c.id = issued + 1 /\ c.key = k /\ c.held = held
    OBVIOUS
  <2>3. \A i \in DOMAIN log : log[i].id # issued + 1
    BY DEF IInv, LogUnique, Types, Command
  <2>4. held => lock'[k] = w
    BY <1>1 DEF HolderAfter, IInv, Types
  <2>5. \A v \in Writer : v # w /\ Busy(v) /\ task[v].cmd.held => lock'[task[v].cmd.key] = v
    <3>1. SUFFICES ASSUME NEW v \in Writer, v # w, Busy(v), task[v].cmd.held
                   PROVE  lock'[task[v].cmd.key] = v
      OBVIOUS
    <3>2. lock[task[v].cmd.key] = v
      BY <3>1 DEF IInv, TasksOK
    <3>3. task[v].cmd.key \in Key /\ task[v].cmd.key # k
      BY <3>1, <3>2, <2>1, <1>1, ReplicationAssumption, SMTT(30) DEF Command
    <3> QED BY <3>2, <3>3, <1>1 DEF IInv, Types
  <2> HIDE DEF c
  <2>6. \A v \in Writer : Busy(v)' =>
          /\ task'[v].cmd.id <= issued'
          /\ task'[v].at = "log" => \A i \in DOMAIN log' : log'[i].id # task'[v].cmd.id
          /\ task'[v].at = "broadcast" => InLog(log', task'[v].cmd)
          /\ task'[v].cmd.held => lock'[task'[v].cmd.key] = v
    <3>1. SUFFICES ASSUME NEW v \in Writer, Busy(v)'
                   PROVE  /\ task'[v].cmd.id <= issued'
                          /\ task'[v].at = "log" => \A i \in DOMAIN log' : log'[i].id # task'[v].cmd.id
                          /\ task'[v].at = "broadcast" => InLog(log', task'[v].cmd)
                          /\ task'[v].cmd.held => lock'[task'[v].cmd.key] = v
      OBVIOUS
    <3>2. CASE v = w
      BY <3>2, <1>1, <1>2, <1>4, <2>2, <2>3, <2>4, SMTT(30) DEF IInv, Types
    <3>3. CASE v # w
      <4>1. task'[v] = task[v] /\ Busy(v)
        BY <3>1, <3>3, <1>4 DEF Busy
      <4>2. task[v].cmd.id <= issued'
        BY <4>1, <3>3, <2>1, <1>1, SMTT(30) DEF IInv, Types, Command
      <4>3. task[v].at = "log" => \A i \in DOMAIN log : log[i].id # task[v].cmd.id
        BY <4>1 DEF IInv, TasksOK
      <4>4. task[v].at = "broadcast" => InLog(log, task[v].cmd)
        BY <4>1 DEF IInv, TasksOK
      <4> QED BY <4>1, <4>2, <4>3, <4>4, <2>5, <3>3, <1>1, SMTT(30)
    <3> QED BY <3>2, <3>3
  <2>7. \A u, v \in Writer : u # v /\ Busy(u)' /\ Busy(v)' => task'[u].cmd.id # task'[v].cmd.id
    <3>1. \A v \in Writer : v # w /\ Busy(v)' => task'[v].cmd.id # issued + 1
      BY <1>4, <2>1 DEF Busy, IInv, Types, Command
    <3>2. task'[w].cmd.id = issued + 1
      BY <1>4, <1>2, <2>2, SMTT(30)
    <3>3. \A u, v \in Writer : u # w /\ v # w /\ u # v /\ Busy(u)' /\ Busy(v)'
                                  => task'[u].cmd.id # task'[v].cmd.id
      BY <1>4 DEF Busy, IInv, TasksOK
    <3> QED BY <3>1, <3>2, <3>3
  <2> QED BY <2>6, <2>7 DEF TasksOK
<1>7. HubOK'
  <2>1. \A v \in Writer : task'[v].at = "broadcast" => task'[v] = task[v]
    BY <1>4, <1>2
  <2> QED BY <2>1, <1>1 DEF IInv, HubOK
<1>8. SessionsOK'
  <2>1. SUFFICES ASSUME NEW s \in DOMAIN session PROVE SessionOK(session[s])'
    BY <1>1 DEF SessionsOK
  <2>2. SessionOK(session[s])
    BY DEF IInv, SessionsOK
  <2>3. StreamOK(session'[s], log', hub')
    BY <2>2, <1>1 DEF SessionOK
  <2>4. \A v \in Writer : \A x : task[v] = [at |-> "broadcast", cmd |-> x] => task'[v] = task[v]
    BY <1>1, <1>4 DEF Idle
  <2>5. Complete(session'[s], log', hub', task')
    BY <2>2, <2>4, <1>1 DEF SessionOK, Complete
  <2> QED BY <2>3, <2>5 DEF SessionOK
<1> QED BY <1>3, <1>5, <1>6, <1>7, <1>8, SMTT(30) DEF IInv

LEMMA SendOK ==
  ASSUME IInv, NEW w \in Writer, send_aof(w)
  PROVE  IInv'
<1> DEFINE c == task[w].cmd
           t == [at |-> "broadcast", cmd |-> c]
<1>1. /\ log' = Append(log, c) /\ task[w].at = "log"
      /\ lock' = lock /\ issued' = issued /\ hub' = hub /\ session' = session
  BY DEF send_aof
<1>2. c \in Command /\ t # Idle /\ task[w] # Idle
  BY <1>1 DEF IInv, Types, Idle
<1>3. /\ task' \in [Writer -> {Idle} \cup [at : {"log", "broadcast"}, cmd : Command]]
      /\ task'[w] = t
      /\ \A v \in Writer : v # w => task'[v] = task[v]
  BY <1>1, <1>2 DEF send_aof, IInv, Types
<1>4. /\ log \in Seq(Command) /\ hub \in Seq(Command) /\ log' \in Seq(Command)
      /\ Len(log') = Len(log) + 1
      /\ \A i \in DOMAIN log : log'[i] = log[i] /\ i \in DOMAIN log'
      /\ \A i \in DOMAIN log' : i \in DOMAIN log \/ (i = Len(log) + 1 /\ log'[i] = c)
  BY <1>1, <1>2 DEF IInv, Types
<1>5. /\ c.id <= issued
      /\ \A i \in DOMAIN log : log[i].id # c.id
      /\ c.held => lock[c.key] = w
  BY <1>1, <1>2 DEF IInv, TasksOK, Busy
<1> HIDE DEF c
<1>6. Types'
  BY <1>1, <1>3, <1>4 DEF IInv, Types
<1>7. LogUnique'
  <2>1. \A i \in DOMAIN log' : log'[i].id <= issued'
    BY <1>1, <1>4, <1>5 DEF IInv, LogUnique
  <2>2. \A i, j \in DOMAIN log' : log'[i].id = log'[j].id => i = j
    BY <1>4, <1>5 DEF IInv, LogUnique
  <2> QED BY <2>1, <2>2 DEF LogUnique
<1>8. TasksOK'
  <2>1. SUFFICES ASSUME NEW v \in Writer, Busy(v)'
                 PROVE  /\ task'[v].cmd.id <= issued'
                        /\ task'[v].at = "log" => \A i \in DOMAIN log' : log'[i].id # task'[v].cmd.id
                        /\ task'[v].at = "broadcast" => InLog(log', task'[v].cmd)
                        /\ task'[v].cmd.held => lock'[task'[v].cmd.key] = v
                        /\ \A u \in Writer : u # v /\ Busy(u)' => task'[u].cmd.id # task'[v].cmd.id
    BY DEF TasksOK
  <2>2. \A u \in Writer : Busy(u)' <=> Busy(u)
    BY <1>2, <1>3 DEF Busy
  <2>3. \A u \in Writer : task'[u].cmd = task[u].cmd
    BY <1>3 DEF c
  <2>4. \A u \in Writer : u # v /\ Busy(u)' => task'[u].cmd.id # task'[v].cmd.id
    BY <2>1, <2>2, <2>3, SMTT(30) DEF IInv, TasksOK
  <2>5. task'[v].cmd.id <= issued' /\ (task'[v].cmd.held => lock'[task'[v].cmd.key] = v)
    BY <2>1, <2>2, <2>3, <1>1, SMTT(30) DEF IInv, TasksOK
  <2>6. task'[v].at = "log" => \A i \in DOMAIN log' : log'[i].id # task'[v].cmd.id
    <3>1. SUFFICES ASSUME task'[v].at = "log" PROVE \A i \in DOMAIN log' : log'[i].id # task'[v].cmd.id
      OBVIOUS
    <3>2. v # w
      BY <3>1, <1>3, SMTT(30)
    <3>3. task'[v] = task[v] /\ c.id # task[v].cmd.id
      BY <3>2, <1>2, <1>3, <2>1, <2>2, SMTT(30) DEF IInv, TasksOK, Busy, c
    <3>4. \A i \in DOMAIN log : log[i].id # task[v].cmd.id
      BY <3>1, <3>3, <2>1, <2>2, SMTT(30) DEF IInv, TasksOK
    <3> QED BY <3>3, <3>4, <1>4
  <2>7. task'[v].at = "broadcast" => InLog(log', task'[v].cmd)
    <3>1. CASE v = w
      BY <3>1, <1>1, <1>2, <1>3, <1>4, InLogAppend, SMTT(30)
    <3>2. CASE v # w
      <4>1. task'[v].at = "broadcast" => InLog(log, task'[v].cmd)
        BY <3>2, <2>1, <2>2, <1>3, SMTT(30) DEF IInv, TasksOK
      <4> QED BY <4>1, <1>1, <1>2, <1>4, InLogAppend, SMTT(30)
    <3> QED BY <3>1, <3>2, SMTT(30)
  <2> QED BY <2>4, <2>5, <2>6, <2>7, SMTT(30)
<1>9. HubOK'
  <2>1. \A a \in DOMAIN hub : InLog(log, hub[a]) /\ InLog(log', hub[a])
    BY <1>1, <1>2, <1>4, InLogAppend, SMTT(30) DEF IInv, HubOK
  <2>2. \A x, y : Before(log, x, y) => Before(log', x, y)
    BY <1>1, <1>2, <1>4, BeforeAppend, SMTT(30)
  <2>3. \A a \in DOMAIN hub : Before(log', hub[a], c)
    BY <2>1, <1>1, <1>2, <1>4, BeforeLast, SMTT(30)
  <2>4. \A v \in Writer, a \in DOMAIN hub :
          task'[v].at = "broadcast" /\ Ordered(hub[a], task'[v].cmd) => Before(log', hub[a], task'[v].cmd)
    <3>1. SUFFICES ASSUME NEW v \in Writer, NEW a \in DOMAIN hub, task'[v].at = "broadcast",
                          Ordered(hub[a], task'[v].cmd)
                   PROVE  Before(log', hub[a], task'[v].cmd)
      OBVIOUS
    <3>2. CASE v = w
      BY <3>2, <2>3, <1>3, SMTT(30)
    <3>3. CASE v # w
      BY <3>1, <3>3, <2>2, <1>3, SMTT(30) DEF IInv, HubOK
    <3> QED BY <3>2, <3>3, SMTT(30)
  <2> QED BY <2>1, <2>2, <2>4, <1>1, SMTT(30) DEF IInv, HubOK
<1>10. SessionsOK'
  <2>1. SUFFICES ASSUME NEW s \in DOMAIN session PROVE SessionOK(session[s])'
    BY <1>1 DEF SessionsOK
  <2>2. SessionOK(session[s])
    BY SMTT(30) DEF IInv, SessionsOK
  <2>3. StreamOK(session[s], log', hub)
    <3>1. \A x, y : Before(log, x, y) => Before(log', x, y)
      BY <1>1, <1>2, <1>4, BeforeAppend, SMTT(30)
    <3> QED BY <3>1, <2>2, SMTT(30) DEF SessionOK, StreamOK
  <2>4. Complete(session[s], log', hub, task')
    <3>1. SUFFICES ASSUME session[s].at = "push", session[s].linked, ~session[s].lagged,
                          NEW i \in DOMAIN log', i > session[s].since
                   PROVE  \/ Contains(session[s].stream, log'[i])
                          \/ \E a \in DOMAIN hub : a >= session[s].next /\ hub[a] = log'[i]
                          \/ \E v \in Writer : task'[v] = [at |-> "broadcast", cmd |-> log'[i]]
      BY ZenonT(40) DEF Complete
    <3>2. CASE i \in DOMAIN log
      <4>1. \A v \in Writer : \A x : task[v] = [at |-> "broadcast", cmd |-> x] => task'[v] = task[v]
        BY <1>1, <1>3, SMTT(30)
      <4>2. \/ Contains(session[s].stream, log[i])
            \/ \E a \in DOMAIN hub : a >= session[s].next /\ hub[a] = log[i]
            \/ \E v \in Writer : task[v] = [at |-> "broadcast", cmd |-> log[i]]
        BY <3>1, <3>2, <2>2, SMTT(30) DEF SessionOK, Complete
      <4>3. log'[i] = log[i]
        BY <3>2, <1>4, SMTT(30)
      <4> QED BY <4>1, <4>2, <4>3, SMTT(30)
    <3>3. CASE log'[i] = c
      BY <3>3, <1>3
    <3> QED BY <3>2, <3>3, <1>4, SMTT(30)
  <2> QED BY <2>3, <2>4, <1>1, SMTT(30) DEF SessionOK
<1> QED BY <1>6, <1>7, <1>8, <1>9, <1>10, SMTT(30) DEF IInv

\* A handler that pushes is a receiver, so the hub takes the command.
LEMMA PushListens ==
  ASSUME Types, NEW s \in DOMAIN session, session[s].at = "push"
  PROVE  Listened
<1>1. s \in Receivers
  BY DEF Receivers
<1>2. IsFiniteSet(1 .. Len(session)) /\ Receivers \subseteq 1 .. Len(session)
  BY FS_Interval DEF Types, Receivers
<1>3. IsFiniteSet(Receivers)
  BY <1>2, FS_Subset, ZenonT(40)
<1>4. Cardinality(Receivers) \in Nat /\ Cardinality(Receivers) # 0
  BY <1>1, <1>3, FS_CardinalityType, FS_EmptySet, SMTT(30)
<1> QED BY <1>4 DEF Listened

LEMMA BroadcastOK ==
  ASSUME IInv, NEW w \in Writer, broadcast_bytes_to_slaves(w)
  PROVE  IInv'
<1> DEFINE c == task[w].cmd
<1>1. /\ hub' = IF Listened THEN Append(hub, c) ELSE hub
      /\ lock' = [k \in Key |-> IF lock[k] = w THEN None ELSE lock[k]]
      /\ log' = log /\ issued' = issued /\ session' = session
      /\ task[w].at = "broadcast"
  BY DEF broadcast_bytes_to_slaves
<1>2. c \in Command /\ task[w] = [at |-> "broadcast", cmd |-> c] /\ Busy(w)
  BY <1>1 DEF IInv, Types, Idle, Busy
<1>3. /\ task' \in [Writer -> {Idle} \cup [at : {"log", "broadcast"}, cmd : Command]]
      /\ task'[w] = Idle
      /\ \A v \in Writer : v # w => task'[v] = task[v]
  BY DEF broadcast_bytes_to_slaves, IInv, Types
<1>4. /\ hub \in Seq(Command) /\ hub' \in Seq(Command)
      /\ Len(hub') >= Len(hub)
      /\ \A a \in DOMAIN hub : hub'[a] = hub[a] /\ a \in DOMAIN hub'
      /\ \A a \in DOMAIN hub' : a \in DOMAIN hub \/ (a = Len(hub) + 1 /\ hub'[a] = c)
  <2>1. CASE Listened
    BY <2>1, <1>1, <1>2, SMTT(30) DEF IInv, Types
  <2>2. CASE ~Listened
    BY <2>2, <1>1 DEF IInv, Types
  <2> QED BY <2>1, <2>2
<1>5. Idle.at = "idle"
  BY DEF Idle
<1> HIDE DEF c
<1>6. Types'
  BY <1>1, <1>3, <1>4, SMTT(30) DEF IInv, Types
<1>7. LogUnique'
  BY <1>1, SMTT(30) DEF IInv, LogUnique
<1>8. TasksOK'
  <2>1. \A v \in Writer : Busy(v)' => v # w /\ Busy(v) /\ task'[v] = task[v]
    BY <1>3 DEF Busy
  <2>2. \A v \in Writer : Busy(v)' /\ task[v].cmd.held => lock'[task[v].cmd.key] = v
    <3>1. SUFFICES ASSUME NEW v \in Writer, Busy(v)', task[v].cmd.held PROVE lock'[task[v].cmd.key] = v
      OBVIOUS
    <3>2. lock[task[v].cmd.key] = v /\ v # w
      BY <3>1, <2>1 DEF IInv, TasksOK
    <3>3. task[v].cmd \in Command
      BY <3>1, <2>1 DEF IInv, Types, Busy
    <3>4. task[v].cmd.key \in Key
      BY <3>3, SMTT(30) DEF Command
    <3> QED BY <3>2, <3>4, <1>1, SMTT(30)
  <2>3. \A v \in Writer : Busy(v)' =>
          /\ task'[v].cmd.id <= issued'
          /\ task'[v].at = "log" => \A i \in DOMAIN log' : log'[i].id # task'[v].cmd.id
          /\ task'[v].at = "broadcast" => InLog(log', task'[v].cmd)
    BY <2>1, <1>1 DEF IInv, TasksOK
  <2>4. \A u, v \in Writer : u # v /\ Busy(u)' /\ Busy(v)' => task'[u].cmd.id # task'[v].cmd.id
    BY <2>1 DEF IInv, TasksOK
  <2> QED BY <2>1, <2>2, <2>3, <2>4, SMTT(30) DEF TasksOK
<1>9. HubOK'
  <2>1. InLog(log, c)
    BY <1>1, <1>2 DEF IInv, TasksOK, c
  <2>2. \A a \in DOMAIN hub' : InLog(log', hub'[a])
    BY <2>1, <1>1, <1>4, SMTT(30) DEF IInv, HubOK
  <2>3. \A a \in DOMAIN hub : Ordered(hub[a], c) => Before(log, hub[a], c)
    BY <1>1 DEF IInv, HubOK, c
  <2>4. \A a, b \in DOMAIN hub' : a < b /\ Ordered(hub'[a], hub'[b]) => Before(log', hub'[a], hub'[b])
    <3>1. SUFFICES ASSUME NEW a \in DOMAIN hub', NEW b \in DOMAIN hub', a < b, Ordered(hub'[a], hub'[b])
                   PROVE  Before(log', hub'[a], hub'[b])
      OBVIOUS
    <3>2. a \in DOMAIN hub
      BY <3>1, <1>4
    <3>3. CASE b \in DOMAIN hub
      BY <3>1, <3>2, <3>3, <1>1, <1>4, SMTT(30) DEF IInv, HubOK
    <3>4. CASE hub'[b] = c
      BY <3>1, <3>2, <3>4, <2>3, <1>1, <1>4, SMTT(30)
    <3> QED BY <3>3, <3>4, <1>4
  <2>5. \A v \in Writer, a \in DOMAIN hub' :
          task'[v].at = "broadcast" /\ Ordered(hub'[a], task'[v].cmd) => Before(log', hub'[a], task'[v].cmd)
    <3>1. SUFFICES ASSUME NEW v \in Writer, NEW a \in DOMAIN hub', task'[v].at = "broadcast",
                          Ordered(hub'[a], task'[v].cmd)
                   PROVE  Before(log, hub'[a], task[v].cmd)
      BY <1>1, <1>3, <1>5
    <3>2. v # w /\ task'[v] = task[v]
      BY <3>1, <1>3, <1>5
    <3>3. CASE a \in DOMAIN hub
      BY <3>1, <3>2, <3>3, <1>4, SMTT(30) DEF IInv, HubOK
    <3>4. CASE hub'[a] = c
      <4>1. c.held /\ task[v].cmd.held /\ c.key = task[v].cmd.key
        BY <3>1, <3>2, <3>4 DEF Ordered
      <4>2. Busy(v)
        BY <3>1, <3>2, <1>5, SMTT(30) DEF Busy
      <4>3. lock[c.key] = w /\ lock[task[v].cmd.key] = v
        BY <4>1, <4>2, <1>2, SMTT(30) DEF IInv, TasksOK, c
      <4> QED BY <4>1, <4>3, <3>2
    <3> QED BY <3>3, <3>4, <1>4
  <2> QED BY <2>2, <2>4, <2>5, SMTT(30) DEF HubOK
<1>10. SessionsOK'
  <2>1. SUFFICES ASSUME NEW s \in DOMAIN session PROVE SessionOK(session[s])'
    BY <1>1 DEF SessionsOK
  <2>2. SessionOK(session[s]) /\ session[s] \in Handler
    BY SMTT(30) DEF IInv, SessionsOK, Types
  <2>3. StreamOK(session[s], log, hub')
    <3>1. session[s].next <= Len(hub') + 1
      BY <2>2, <1>4, SMTT(30) DEF SessionOK, StreamOK, Handler
    <3> QED BY <3>1, <2>2, <1>4, SMTT(30) DEF SessionOK, StreamOK
  <2>4. Complete(session[s], log, hub', task')
    <3>1. SUFFICES ASSUME session[s].at = "push", session[s].linked, ~session[s].lagged,
                          NEW i \in DOMAIN log, i > session[s].since
                   PROVE  \/ Contains(session[s].stream, log[i])
                          \/ \E a \in DOMAIN hub' : a >= session[s].next /\ hub'[a] = log[i]
                          \/ \E v \in Writer : task'[v] = [at |-> "broadcast", cmd |-> log[i]]
      BY DEF Complete
    <3>2. \/ Contains(session[s].stream, log[i])
          \/ \E a \in DOMAIN hub : a >= session[s].next /\ hub[a] = log[i]
          \/ \E v \in Writer : task[v] = [at |-> "broadcast", cmd |-> log[i]]
      BY <3>1, <2>2, SMTT(30) DEF SessionOK, Complete
    <3>3. ASSUME NEW a \in DOMAIN hub, a >= session[s].next, hub[a] = log[i]
          PROVE  \E b \in DOMAIN hub' : b >= session[s].next /\ hub'[b] = log[i]
      BY <3>3, <1>4, SMTT(30)
    <3>4. ASSUME NEW v \in Writer, task[v] = [at |-> "broadcast", cmd |-> log[i]], v # w
          PROVE  task'[v] = [at |-> "broadcast", cmd |-> log[i]]
      BY <3>4, <1>3, SMTT(30)
    <3>5. ASSUME task[w] = [at |-> "broadcast", cmd |-> log[i]]
          PROVE  \E b \in DOMAIN hub' : b >= session[s].next /\ hub'[b] = log[i]
      <4>1. c = log[i]
        BY <3>5 DEF c
      <4>2. Listened
        BY <3>1, PushListens DEF IInv
      <4>3. hub' = Append(hub, c)
        BY <4>2, <1>1, SMTT(30)
      <4>4. Len(hub) + 1 \in DOMAIN hub' /\ hub'[Len(hub) + 1] = c
        BY <4>3, <1>2, <1>4, SMTT(30)
      <4>5. Len(hub) + 1 >= session[s].next
        BY <2>2, <1>4 DEF SessionOK, StreamOK, Handler
      <4> QED BY <4>1, <4>4, <4>5, SMTT(30)
    <3> QED BY <3>2, <3>3, <3>4, <3>5, SMTT(30)
  <2> QED BY <2>3, <2>4, <1>1, SMTT(30) DEF SessionOK
<1> QED BY <1>6, <1>7, <1>8, <1>9, <1>10 DEF IInv
=============================================================================

--------------------------- MODULE AtomicScripts ---------------------------
(***************************************************************************)
(* What EVAL promises: a script runs against the store in one step, alone, *)
(* and either all of its writes happen, together with one group in the     *)
(* log, or none.  Values are opaque; a key that is not there has the value *)
(* Absent.  A script is the keys it declares, the calls it makes, and      *)
(* whether it guards its calls (pcall) and goes on after an error.  The    *)
(* types of values are left out; TAKE stands for the commands that remove  *)
(* a key (LPOP, HDEL or ZREM of the last element).                         *)
(***************************************************************************)
EXTENDS Integers, Sequences, FiniteSets, SequencesExt

CONSTANTS Worker, Key, ShardOf, Value, Absent, Script, NoScript, MaxTasks

VARIABLES store, task, result, log, tasks

absVars == <<store, task, result, log, tasks>>

\* The shards of the declared keys: a call may touch these only.
Declared(script) == {ShardOf[k] : k \in Range(script.keys)}

\* How many pairs of an MSET come before the first key that is out of reach.
Reachable(pairs, shards) ==
  LET bad == SelectInSeq(pairs, LAMBDA p : ShardOf[p[1]] \notin shards)
  IN  IF bad = 0 THEN Len(pairs) ELSE bad - 1

Assign(view, pairs) ==
  FoldLeft(LAMBDA v, p : [v EXCEPT ![p[1]] = p[2]], view, pairs)

\* One call: whether it succeeds, what it returns and what it leaves behind.
Effect(cmd, view, shards) ==
  CASE cmd.op = "MSET" ->
         LET n == Reachable(cmd.pairs, shards)
         IN  [ok    |-> n = Len(cmd.pairs),
              reply |-> IF n = Len(cmd.pairs) THEN "OK" ELSE "error",
              view  |-> Assign(view, SubSeq(cmd.pairs, 1, n))]
    [] cmd.op = "ERROR" -> [ok |-> FALSE, reply |-> "error", view |-> view]
    [] OTHER ->
         IF ShardOf[cmd.key] \notin shards THEN [ok |-> FALSE, reply |-> "error", view |-> view]
         ELSE CASE cmd.op = "GET" -> [ok |-> TRUE, reply |-> view[cmd.key], view |-> view]
                [] cmd.op = "TAKE" ->
                     [ok |-> TRUE, reply |-> view[cmd.key], view |-> [view EXCEPT ![cmd.key] = Absent]]
                [] cmd.op = "SET" ->
                     IF cmd.nx /\ view[cmd.key] # Absent
                     THEN [ok |-> TRUE, reply |-> Absent, view |-> view]
                     ELSE [ok |-> TRUE, reply |-> "OK", view |-> [view EXCEPT ![cmd.key] = cmd.value]]

\* The encoders: only writes leave a trace, and SET loses its condition.
Encoded(cmd) == IF cmd.op = "SET" THEN [cmd EXCEPT !.nx = FALSE] ELSE cmd
Group(cmds) ==
  LET writes == SelectSeq(cmds, LAMBDA c : c.op \in {"SET", "MSET", "TAKE"})
  IN  [i \in DOMAIN writes |-> Encoded(writes[i])]

\* A whole script, alone on the store.
Run(script, view) ==
  FoldLeft(LAMBDA acc, cmd :
             LET e == Effect(cmd, acc.view, Declared(script))
                 goesOn == e.ok \/ (script.guarded /\ cmd.op # "ERROR")
             IN  IF ~acc.ok THEN acc
                 ELSE IF ~goesOn THEN [acc EXCEPT !.ok = FALSE]
                 ELSE [ok   |-> TRUE, view |-> e.view, out |-> Append(acc.out, e.reply),
                       done |-> IF e.ok THEN Append(acc.done, cmd) ELSE acc.done],
           [ok |-> TRUE, view |-> view, out |-> <<>>, done |-> <<>>], script.calls)

NoResult == [ok |-> FALSE, out |-> <<"none">>]

Init ==
  /\ store = [k \in Key |-> Absent]
  /\ task = [w \in Worker |-> NoScript]
  /\ result = [w \in Worker |-> NoResult]
  /\ log = <<>> /\ tasks = 0

Submit(w, script) ==
  /\ task[w] = NoScript /\ tasks < MaxTasks
  /\ task' = [task EXCEPT ![w] = script]
  /\ tasks' = tasks + 1
  /\ UNCHANGED <<store, result, log>>

Execute(w) ==
  /\ task[w] # NoScript /\ result[w] = NoResult
  /\ LET r == Run(task[w], store)
     IN  IF r.ok
         THEN /\ store' = r.view
              /\ log' = IF r.done = <<>> THEN log ELSE Append(log, Group(r.done))
              /\ result' = [result EXCEPT ![w] = [ok |-> TRUE, out |-> r.out]]
         ELSE /\ result' = [result EXCEPT ![w] = [ok |-> FALSE, out |-> <<>>]]
              /\ UNCHANGED <<store, log>>
  /\ UNCHANGED <<task, tasks>>

Answer(w) ==
  /\ result[w] # NoResult
  /\ task' = [task EXCEPT ![w] = NoScript]
  /\ result' = [result EXCEPT ![w] = NoResult]
  /\ UNCHANGED <<store, log, tasks>>

\* A plain SET of another connection.
ClientSet(k, v) ==
  /\ tasks < MaxTasks
  /\ store' = [store EXCEPT ![k] = v]
  /\ log' = Append(log, <<[op |-> "SET", key |-> k, value |-> v, nx |-> FALSE]>>)
  /\ tasks' = tasks + 1
  /\ UNCHANGED <<task, result>>

Next ==
  \/ \E w \in Worker : Execute(w) \/ Answer(w) \/ \E s \in Script : Submit(w, s)
  \/ \E k \in Key, v \in Value : ClientSet(k, v)

Spec == Init /\ [][Next]_absVars

\* What a recovery makes of the log: every group, in order, without limits.
Replayed ==
  FoldLeft(LAMBDA view, group :
             FoldLeft(LAMBDA v, cmd : Effect(cmd, v, {ShardOf[k] : k \in Key}).view, view, group),
           [k \in Key |-> Absent], log)
=============================================================================

CONSTANTS
  Key = {k1}
  Writer = {w1, w2}
  Replica = {r1}
  None = None
  Cap = 1
  MaxCommands = 3
  MaxSessions = 2
SPECIFICATION Spec
INVARIANT ReplicaReplays
CHECK_DEADLOCK FALSE

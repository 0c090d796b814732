CONSTANTS
  Key = {k1}
  Writer = {w1, w2}
  Replica = {r1}
  None = None
  Cap = 1
  MaxCommands = 3
  MaxSessions = 2
SPECIFICATION Spec
INVARIANTS
  StreamFollowsLog
  StreamIsComplete
CHECK_DEADLOCK FALSE
SYMMETRY Symmetry

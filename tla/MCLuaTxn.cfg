CONSTANTS
  k1 = k1
  k2 = k2
  k3 = k3
  v1 = v1
  v2 = v2
  Absent = Absent
  NoScript = NoScript
  Free = Free
  Untouched = Untouched
  Worker = {w1, w2}
  Key = {k1, k2, k3}
  Value = {v1, v2}
  ShardOf <- ThreeShardOf
  Size <- TwoSizes
  Script <- Scripts
  MaxTasks = 3
SPECIFICATION Spec
INVARIANTS
  DiffIsExact
  LogRestoresStore
PROPERTIES
  ImplementsAtomicScripts
  ScriptsFinish
CHECK_DEADLOCK FALSE

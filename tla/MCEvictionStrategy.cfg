CONSTANTS
  Key = {k1, k2, k3, k4}
  Node = {n1, n2, n3, n4}
  NoNode = NoNode
  MaxFreq = 3
SPECIFICATION StrategySpec
INVARIANTS
  TypeOK
  NoDanglingPointer
  Linked
  SampleIndex
  VictimIsLeastRecentlyUsed
  BucketsKeepPromise
  VictimIsLeastFrequentlyUsed
  LfuSampleIndex
PROPERTY ImplementsRecencyOrder
CHECK_DEADLOCK FALSE

CONSTANTS
  a = a
  b = b
  c = c
  Key <- ThreeKeys
  ShardOf <- ThreeShardOf
  NumShards = 2
  Size = {1, 2}
  Expiry = {NoExpiry}
  NoExpiry = NoExpiry
  PolicyKind = "LFU"
  MaxFreq = 2
  MaxTime = 0
  MaxWrites = 3
  target_memory = 2
  MaxShards = 2
  Batch = 2
SPECIFICATION Spec
INVARIANTS
  PolicyMatchesStore
  AccountsExact
PROPERTIES
  MemoryIsReclaimed
  

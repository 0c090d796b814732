CONSTANTS
  a = a
  b = b
  c = c
  Key <- ThreeKeys
  ShardOf <- ThreeShardOf
  NumShards = 2
  Size = {1}
  Expiry = {NoExpiry, 0}
  NoExpiry = NoExpiry
  PolicyKind = "LRU"
  MaxFreq = 1
  MaxTime = 1
  MaxWrites = 2
  KeysCheck = 2
  Threshold = 1
SPECIFICATION Spec
PROPERTY
  RemovesOnlyExpired
  ExpiredEntriesGo

\* Three keys of one byte in one of two shards.  The shard has 6 of the 13 bytes,
\* of which 4 may be protected (the default share of 0.8).  Values of 0 and 2
\* bytes share both, one of 4 bytes fits the budget but not the protected share,
\* one of 6 bytes fits neither.
SPECIFICATION FairSpec
CONSTANTS
  Key = {k1, k2, k3}
  Size = {0, 2, 4, 6}
  KeyLen = 1
  CacheBytes = 13
  UseShards = TRUE
  Shards = 2
  RatioNum = 0
  RatioDen = 1
  None = None
INVARIANTS TypeOK StoresWithinBudget ProtectedShare
PROPERTIES NewestGoesLast ScanResistant BoundedCacheSpec MethodReturns

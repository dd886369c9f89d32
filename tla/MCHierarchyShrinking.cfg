\* The comment on evictions, for an L1 with larger blocks than L2.
SPECIFICATION Spec
CONSTANTS
  Chains <- ShrinkingChains
  Addrs <- ShrinkingAddrs
  HitTimes <- CycleCosts
  MemTime = 100
  MaxRecords = 4
INVARIANT OnlyCopyWrittenBack
\* The trace ends.
CHECK_DEADLOCK FALSE

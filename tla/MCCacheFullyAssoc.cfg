\* The documented claim that a fully-associative LRU cache has no conflict miss.
SPECIFICATION Spec
CONSTANTS
  Configs <- ShadowConfigs
  Addrs <- TraceAddrs
  MaxAccesses = 6
INVARIANT FullyAssocNeverConflicts
\* The trace ends.
CHECK_DEADLOCK FALSE

\* Every policy on one set, two sets, and the 3-C classifier.
SPECIFICATION Spec
CONSTANTS
  Configs <- AllConfigs
  Addrs <- TraceAddrs
  MaxAccesses = 5
INVARIANTS
  TypeOK
  NoDuplicateBlock
  SelfCheck
  OwedIsDirty
  TrafficLaw
  StoresCoalesce
  KeepsYoungest
  RefHoldsMostRecent
  FullyAssocIsTheReference
PROPERTIES
  VerdictByReuseDistance
  ActsAsBlockStore
\* The trace ends.
CHECK_DEADLOCK FALSE

\* Two levels under every pair of policies, and three with larger blocks below.
SPECIFICATION Spec
CONSTANTS
  Chains <- AllChains
  Addrs <- PolicyAddrs
  HitTimes <- CycleCosts
  MemTime = 100
  MaxRecords = 4
INVARIANTS
  TypeOK
  NewestStoreFound
  TrafficBetweenLevels
  WritesNeverAmplified
  AmatIsMeanLatency
PROPERTIES
  ModifyStoreHits
  LevelsActAsBlockStores
  EveryRecordIsServed
\* The trace ends.
CHECK_DEADLOCK FALSE

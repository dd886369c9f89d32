\* The workloads of tracegen, alone and on small caches.
SPECIFICATION Spec
CONSTANTS
  Commands <- AllCommands
  Configs <- SmallCaches
  Placements <- TwoPlacements
INVARIANTS
  EmitsElements
  TourIsOneCycle
  MatmulLocality
  CyclicScanLaw
PROPERTIES
  SecondTouchHits
\* The run ends.
CHECK_DEADLOCK FALSE

\* The program from its command line to its report and exit code.
SPECIFICATION SystemSpec
CONSTANTS
  Files <- Traces
  SizeValues = 8
  Options <- CommandLine
  MaxOptions = 7
  Chains <- NoChains
  MaxRecords <- LongestTrace
  Addrs <- TraceAddrs
  HitTimes <- CycleCosts
  MemTime = 100
INVARIANTS
  ReportAddsUp
PROPERTIES
  RefinesMain
  EveryRunEnds
\* The process ends.
CHECK_DEADLOCK FALSE

\* The command line, from the first option to the exit code.
SPECIFICATION Spec
CONSTANTS
  Files <- FewTraces
  SizeValues = 8
  Options <- CommandLine
  MaxOptions = 7
INVARIANTS
  FedIsTrace
  TrustedReport
  FullIsOneSet
  JsonAlone
PROPERTIES
  AbortsOnGivenValues
\* The process ends.
CHECK_DEADLOCK FALSE

\* Any answers of the simulator, any traces, and writes that may fail.
SPECIFICATION SweepSpec
CONSTANTS
  Grid <- SmallGrid
  Rates = {5, 30}
INVARIANTS
  NoBadScience
\* The script ends.
CHECK_DEADLOCK FALSE

\* The documented prose that matches the table.
SPECIFICATION SweepSpec
CONSTANTS
  Grid <- SmallGrid
  Rates = {5, 30}
INVARIANT TextMatchesTable
\* The script ends.
CHECK_DEADLOCK FALSE

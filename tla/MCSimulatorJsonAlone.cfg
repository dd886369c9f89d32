\* The documented single line of --json.
SPECIFICATION Spec
CONSTANTS
  Files <- OneLine
  SizeValues = 8
  Options <- PrintingCommandLine
  MaxOptions = 5
INVARIANT OnlyTheObject
\* The process ends.
CHECK_DEADLOCK FALSE

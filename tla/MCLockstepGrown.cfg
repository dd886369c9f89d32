\* What a larger cache, another write policy, another policy may not change.
SPECIFICATION Spec
CONSTANTS
  Pairs <- AllPairs
  Addrs = {0, 1, 2, 4}
  MaxAccesses = 6
INVARIANTS
  StackProperty
  WritePolicyIsInvisible
  ShadowsNest
\* The trace ends.
CHECK_DEADLOCK FALSE

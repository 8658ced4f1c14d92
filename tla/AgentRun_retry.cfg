CONSTANTS
  Calls = {1,2}
  Kinds <- MCWrites
  MaxCrashes = 1
  MaxFaults = 0
SPECIFICATION Spec
CHECK_DEADLOCK FALSE
INVARIANT RetryIsClean

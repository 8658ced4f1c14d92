\* One crash and no other fault.
SPECIFICATION Spec
CONSTANTS
  r1 = r1
  r2 = r2
  c1 = c1
  c2 = c2
  d1 = d1
  d2 = d2
  d3 = d3
  Roots = {r1, r2}
  Children = {c1, c2}
  Parents <- MCTwoRoots
  None = None
  MaxWorkspace = 1
  MaxRoot = 1
  RootBudget = 2
  HarnessRunner = FALSE
  MaxCrashes = 1
  MaxFaults = 0
INVARIANT WorkerStarts
CHECK_DEADLOCK FALSE

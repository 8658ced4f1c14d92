\* The production runner, with nothing going wrong.
SPECIFICATION Spec
CONSTANTS
  r1 = r1
  r2 = r2
  c1 = c1
  c2 = c2
  d1 = d1
  d2 = d2
  d3 = d3
  Roots = {r1, r2}
  Children = {c1, c2}
  Parents <- MCTwoRoots
  None = None
  MaxWorkspace = 1
  MaxRoot = 1
  RootBudget = 2
  HarnessRunner = TRUE
  MaxCrashes = 0
  MaxFaults = 0
PROPERTY CompletedRunIsCompleted
CHECK_DEADLOCK FALSE

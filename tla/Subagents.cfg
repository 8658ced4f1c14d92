\* One root with two children, or two roots with one each, and room for one child at a
\* time; with one root, a failing commit anywhere and a crash anywhere.  Three more
\* children for one scene (Scene).
SPECIFICATION Spec
CONSTANTS
  r1 = r1
  r2 = r2
  c1 = c1
  c2 = c2
  d1 = d1
  d2 = d2
  d3 = d3
  Roots = {r1, r2}
  Children = {c1, c2, d1, d2, d3}
  Parents <- MCParents
  None = None
  MaxWorkspace = 1
  MaxRoot = 1
  RootBudget = 3
  HarnessRunner = FALSE
  MaxCrashes = 1
  MaxFaults = 1
INVARIANTS AccountsAreExact RunsOnlyUndecided StrandedHasACause NoLostWakeup
PROPERTIES DecisionIsFinal
CONSTRAINT Bound
CHECK_DEADLOCK FALSE

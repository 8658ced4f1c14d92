CONSTANTS
  Calls = {1,2}
  Kinds <- MCKinds
  MaxCrashes = 2
  MaxFaults = 2
SPECIFICATION Spec
CHECK_DEADLOCK FALSE
INVARIANTS AtMostOnce ToldIsTrue EffectsAreTraceable CompletedAccountsForAll
PROPERTIES EffectsAreDecidedOnce StreamIsFinal
CONSTRAINT Bound

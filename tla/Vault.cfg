\* Two calls on one path with a crash and a fault; one call with two crashes, two
\* faults and two edits.
SPECIFICATION MCSpec
CONSTANTS
    Calls = {c1, c2}
    Base = Base
    Alien = Alien
    Partial = Partial
    Absent = Absent
    MaxCrashes = 1
    MaxFaults = 1
    MaxExternal = 0
SYMMETRY Symmetry
INVARIANTS LeftoversAreAccounted FailureLeavesNoTrace ManualOnlyWithCause
PROPERTIES NeverDestroys SuccessIsFinal DecidedOnce
\* Calls are finite.
CHECK_DEADLOCK FALSE

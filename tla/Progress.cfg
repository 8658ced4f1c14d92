\* Three puts with two of a cancellation, a failing operation and a death; a Vault call
\* with two crashes, a fault and an edit; a root with two children and one slot for them,
\* or one child with a crash and a fault.
SPECIFICATION MCSpec
CONSTANTS
    p1 = p1
    p2 = p2
    p3 = p3
    Puts = {p1, p2, p3}
    Keys = {"k", "l"}
    Ids = {"i", "j"}
    Contents = {"c", "d"}
    None = None
    Plans <- MCPlans
    MaxTroubles = 2
    v = v
    r1 = r1
    c1 = c1
    c2 = c2
    Base = Base
    Alien = Alien
    Partial = Partial
    Absent = Absent
INVARIANTS VisibleIsWhole ToldAsStored
PROPERTIES RetryReconciles RecoveryAndCallsEnd ChildrenEnd
\* Puts, calls and children are finite.
CHECK_DEADLOCK FALSE

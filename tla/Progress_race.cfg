\* Three puts with nothing going wrong.
SPECIFICATION PutsSpec
CONSTANTS
    p1 = p1
    p2 = p2
    p3 = p3
    Puts = {p1, p2, p3}
    Keys = {"k", "l"}
    Ids = {"i", "j"}
    Contents = {"c", "d"}
    None = None
    Plans <- MCPlans
    MaxTroubles = 0
    v = v
    r1 = r1
    c1 = c1
    c2 = c2
    Base = Base
    Alien = Alien
    Partial = Partial
    Absent = Absent
PROPERTY IdenticalPutsAreStored
CHECK_DEADLOCK FALSE

\* Two revisions of the Wiki, with two crashes, two faults and an edit; three events of
\* two Runs; a Run of two calls, with a crash and a fault.
SPECIFICATION MCSpec
CONSTANTS
    Plans = {p1, p2}
    MaxRevision = 2
    MaxCrashes = 2
    MaxFaults = 2
    MaxEdits = 1
    None = None
    Runs = {"r1", "r2"}
    MaxEvents = 3
    Capacity = 1
    MaxPending = 1
    PageLimit = 1
    MaxPasses = 2
    MaxConnections = 1
INVARIANTS PublishedIsKept OneFailureIsMended NothingIsOverlooked ReplayReachesTheHeads
PROPERTIES ViewCatchesUp RunEnds
\* The system stops when nothing is left to publish, to tell or to run.
CHECK_DEADLOCK FALSE

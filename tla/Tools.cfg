\* Two answers racing expiry, cancellation, the deletion of the session, a failing unit
\* of work and a restart; three calls, two reader slots, two keys, cancelled at any moment.
SPECIFICATION MCSpec
CONSTANTS
    Clients = {k1, k2}
    MaxCrashes = 1
    MaxFaults = 1
    t1 = t1
    t2 = t2
    t3 = t3
    Tasks = {t1, t2, t3}
    MaxReaders = 2
    KeyLists <- MCKeyLists
    AwaitedBy <- MCAwaitedBy
INVARIANTS DeletedSessionHasNoGrant CallsExclude
PROPERTIES DecidedOnce RunsOnlyApproved DecisionReachesTheCall NoOvertaking EveryCallEnds
\* The system stops once the call is over and the session is deleted.
CHECK_DEADLOCK FALSE

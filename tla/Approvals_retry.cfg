\* One answer is enough: the approval expires while the call waits for the gate.
SPECIFICATION FairSpec
CONSTANTS
    Clients = {k1}
    MaxCrashes = 0
    MaxFaults = 0
PROPERTIES ExpiredRetryIsDenied
CHECK_DEADLOCK FALSE

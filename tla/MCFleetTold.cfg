SPECIFICATION FairFleetSpec
CONSTANTS
    Users = {u1}
    Rosters = {{u1}}
    MaxMatches = 2
    MaxAllocating = 2
    MaxRequests = 4
    NUdp = 1
    NTcp = 1
    Backends = {"local", "edgegap"}
    MaxAttempts = 2
    Cancels = TRUE
    Probes = {FALSE}
    Failures = {"allocation"}
    MaxFaults = 1
    None = None
PROPERTIES EveryoneTold
CHECK_DEADLOCK FALSE

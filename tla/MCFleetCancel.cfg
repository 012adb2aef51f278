SPECIFICATION FleetSpec
CONSTANTS
    Users = {u1}
    Rosters = {{u1}}
    MaxMatches = 2
    MaxAllocating = 2
    MaxRequests = 4
    NUdp = 2
    NTcp = 1
    Backends = {"local", "edgegap"}
    MaxAttempts = 2
    Cancels = TRUE
    Probes = {FALSE}
    Failures = {}
    MaxFaults = 0
    None = None
INVARIANTS CancelledMatchLeavesNoServer
CHECK_DEADLOCK FALSE

SPECIFICATION FleetSpec
CONSTANTS
    Users = {u1}
    Rosters = {{u1}}
    MaxMatches = 2
    MaxAllocating = 2
    MaxRequests = 4
    NUdp = 2
    NTcp = 2
    Backends = {"local", "edgegap"}
    MaxAttempts = 2
    Cancels = TRUE
    Probes = {TRUE, FALSE}
    Failures = {"allocation", "restart"}
    MaxFaults = 1
    None = None
INVARIANTS FleetTypeOK PortLedger BoundPortsInUse FailedMatchLeavesNoServer LastMatchCancellable
PROPERTIES OneOutcome
CHECK_DEADLOCK FALSE

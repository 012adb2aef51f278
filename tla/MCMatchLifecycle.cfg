SPECIFICATION Spec
CONSTANTS
    Users = {u1, u2}
    Rosters = {{u1}}
    MaxMatches = 2
    MaxAllocating = 1
    MaxRequests = 2
    NUdp = 1
    NTcp = 1
    Backends = {"local", "edgegap"}
    MaxAttempts = 1
    Cancels = FALSE
    Probes = {TRUE, FALSE}
    Failures = {"lifecycle", "restart"}
    MaxFaults = 1
    None = None
    Calls = {c1, c2}
    MaxCalls = 2
INVARIANTS LifecycleTypeOK AcceptedIsRecorded ResolvedMatchIsReleased GaugeExact
SYMMETRY Symmetry
CHECK_DEADLOCK FALSE

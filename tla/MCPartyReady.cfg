SPECIFICATION SpecReady
CONSTANTS
    Users = {u1, u2, u3}
    Parties = {p1}
    Codes = {c1}
    None = None
    MaxCount = 3
    MaxInFlight = 2
    MaxFaults = 0
    Ops = {"create", "getCode", "joinByCode", "invite", "join", "ready", "unready", "start"}
SYMMETRY Symmetry
INVARIANTS OneStartPastGuard
PROPERTIES StartCountsFreshRows StartSpendsReadiness
CHECK_DEADLOCK FALSE

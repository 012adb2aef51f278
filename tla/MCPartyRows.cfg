SPECIFICATION SpecOverlap
CONSTANTS
    Users = {u1, u2}
    Parties = {p1}
    Codes = {c1, c2}
    None = None
    MaxCount = 2
    MaxInFlight = 2
    MaxFaults = 1
    Ops = {"create", "join", "joinByCode", "getCode", "leave", "kick", "transfer", "disband", "ready", "settings", "start", "abort"}
SYMMETRY Symmetry
INVARIANTS TypeOK NoRowOutlives OverrideNamesAdmin
CHECK_DEADLOCK FALSE

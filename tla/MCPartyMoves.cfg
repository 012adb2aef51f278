SPECIFICATION SpecOverlap
CONSTANTS
    Users = {u1, u2}
    Parties = {p1, p2}
    Codes = {c1, c2}
    None = None
    MaxCount = 2
    MaxInFlight = 2
    MaxFaults = 1
    Ops = {"create", "invite", "join", "joinByCode", "getCode", "disband"}
SYMMETRY Symmetry
INVARIANTS OnePartyEach CodeLeadsToParty
CHECK_DEADLOCK FALSE

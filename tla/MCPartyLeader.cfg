SPECIFICATION FairSpecOverlap
CONSTANTS
    Users = {u1, u2, u3}
    Parties = {p1}
    Codes = {c1}
    None = None
    MaxCount = 3
    MaxInFlight = 2
    MaxFaults = 0
    Ops = {"create", "add", "join", "leave", "kick", "transfer", "disband"}
PROPERTIES LeaderRestored
CHECK_DEADLOCK FALSE

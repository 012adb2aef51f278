SPECIFICATION Spec
CONSTANTS
    u1 = u1
    u2 = u2
    u3 = u3
    Users <- Three
    Callers <- One
    Members <- Three
    AddLimit = 2
    AddWindow = 1
    PendingCap = 1
    ReportLimit = 1
    ReportWindow = 1
    ServerCap = 1
    GlobalCap = 1
    DayLength = 2
    NSlots = 2
    None = none
    MaxEvents = 4
INVARIANTS LimitsTypeOK ReportsBounded BlockedUnheard
PROPERTIES AddsBounded
CHECK_DEADLOCK FALSE
SYMMETRY Others

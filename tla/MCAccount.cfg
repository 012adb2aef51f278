SPECIFICATION FairSpec
CONSTANTS
    u1 = u1
    u2 = u2
    Users <- Players
    Leaving <- Leavers
    NCodes = 2
    Clamps = {TRUE}
    NSlots = 2
    None = none
    Rewritten <- Again
    MaxEvents = 3
INVARIANTS AccountTypeOK SaidIsQueued CodeNamesOwner DeletedNamedByNoRow
PROPERTIES PendingEnds OnlyDueDeleted
CHECK_DEADLOCK FALSE

SPECIFICATION FairSpec
CONSTANTS
    x = x
    y = y
    Accounts <- Signed
    NStarts = 2
    NTickets = 2
    NParties = 1
    Timeout = 1
    MaxEvents = 3
INVARIANTS SearchTypeOK TicketsAccounted UserIsAnswered
PROPERTIES Settles
CHECK_DEADLOCK FALSE

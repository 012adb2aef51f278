SPECIFICATION FairSpec
CONSTANTS
    m1 = m1
    m2 = m2
    Players <- Three
    Unlistable = {}
    Leaving = {1}
    Asked = {1}
    Matches <- Two
    Results <- Reported
    FirstRecords <- Earlier
    FirstConfigs <- Started
    Configs <- Registered
    TTL = 2
    StaleTTL = 3
    RetryInterval = 2
    ReadTimeout = 1
    PageSize = 2
    MaxPages = 2
    MaxListed = 2
    NSlots = 2
    None = none
    MaxEvents = 4
INVARIANTS BoardsTypeOK CurrentIsExact ResultsCounted RegisteredIsLive
PROPERTIES UnlistedInTime GetAnswered
CHECK_DEADLOCK FALSE

SPECIFICATION Spec
CONSTANTS
    Tabs = {a, b}
    MaxFailures = 2
    MaxSessions = 2
    MaxRefreshes = 3
    MaxFetches = 1
    MaxExits = 1
INVARIANTS
    TypeOK
    LatchedTabStaysOut
    RacesSpareSessions
    LogoutClearsCookie
SYMMETRY Symmetry
CONSTRAINT Combinations
CHECK_DEADLOCK FALSE

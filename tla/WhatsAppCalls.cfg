SPECIFICATION FairSpec
CONSTANTS
    Calls = {c1, c2}
    Sockets = {s1, s2, s3, s4, s5, s6, s7}
    NoSocket = NoSocket
    MaxAttempts = 2
    MaxCalls = 3
    MaxFailures = 1
    MaxCuts = 3
INVARIANTS
    TypeOK
    CrashKeepsIntent
    QuitStopsRetrying
 
CHECK_DEADLOCK FALSE

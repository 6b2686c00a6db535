SPECIFICATION FairSpec
CONSTANTS
    d1 = d1
    d2 = d2
    r1 = r1
    Requests = {r1, r2}
    Databases = {d1, d2}
    Queued = {d1, d2}
    Roots = {d1, d2}
    Within <- Nesting
    MaxAttempts <- OneRetries
    MaxWork <- OneBusy
INVARIANTS
    TypeOK CallbacksMatchOutcome CallbacksAllRun NoOverlap CommitsOnce
PROPERTY RunsFinish

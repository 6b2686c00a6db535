SPECIFICATION Spec
CONSTANTS
    o1 = o1
    o2 = o2
    k1 = k1
    Ops = {o1}
    Dep <- Alone
    Keys = {k1}
    Target <- OneRecord
    Callers = {t1, t2}
    NoOp = NoOp
    NoKey = NoKey
    NoCaller = NoCaller
    KeepsTombstones = TRUE
    Workload = {"enqueue", "changes", "revoke"}
    MaxWrites = 1
    MaxRights = 0
    MaxRestores = 0
    MaxDownloads = 2
    MaxLocks = 1
    MaxFaults = 1
SYMMETRY Symmetry
INVARIANTS
    CoversCursor
PROPERTY NoRegression

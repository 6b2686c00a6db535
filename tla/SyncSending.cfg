SPECIFICATION Spec
CONSTANTS
    o1 = o1
    o2 = o2
    k1 = k1
    Ops = {o1, o2}
    Dep <- Chain
    Keys = {k1}
    Target <- OneRecord
    Callers = {t1, t2}
    NoOp = NoOp
    NoKey = NoKey
    NoCaller = NoCaller
    KeepsTombstones = TRUE
    Workload = {"enqueue", "cancel", "resume"}
    MaxWrites = 0
    MaxRights = 1
    MaxRestores = 1
    MaxDownloads = 2
    MaxLocks = 0
    MaxFaults = 1
SYMMETRY Symmetry
CONSTRAINT RightsOrRestore
INVARIANTS
    TypeOK
    AcknowledgedStays
    OnlyApprovedIsSent
    DependenciesFirst
PROPERTY
    ImplementsLedger

SPECIFICATION Spec
CONSTANTS
    u1 = u1
    Users = {u1}
    Families = {f1}
    OwnerOf <- OneOwner
    Requests = {r1, r2}
    NoUser = NoUser
    NoFamily = NoFamily
    Workload = {"login", "refresh", "recover", "logout", "change"}
    MaxToken = 3
    MaxChanges = 1
    MaxLosses = 0
    MaxDeaths = 0
    MaxLapses = 0
SYMMETRY Symmetry
INVARIANTS
    TypeOK
    RevocationConverges
    RevokedRowIsNotLive
    VerifiedClaimsAreCurrent
    LostAnswersRecover
    NoSessionFromBeforeInvalidation
PROPERTY ImplementsRegistry

SPECIFICATION Spec
CONSTANTS
    u1 = u1
    Users = {u1}
    Families = {f1}
    OwnerOf <- OneOwner
    Requests = {r1, r2}
    NoUser = NoUser
    NoFamily = NoFamily
    Workload = {"login", "refresh", "logout"}
    MaxToken = 2
    MaxChanges = 0
    MaxLosses = 1
    MaxDeaths = 0
    MaxLapses = 0
INVARIANT LoggedOutStaysOut

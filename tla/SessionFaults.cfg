SPECIFICATION FairSpec
CONSTANTS
    u1 = u1
    Users = {u1}
    Families = {f1}
    OwnerOf <- OneOwner
    Requests = {r1, r2}
    NoUser = NoUser
    NoFamily = NoFamily
    Workload = {"login", "change"}
    MaxToken = 2
    MaxChanges = 1
    MaxLosses = 1
    MaxDeaths = 1
    MaxLapses = 1
PROPERTY RequestsFinish

SPECIFICATION Spec
CONSTANTS
    r1 = r1
    r2 = r2
    r3 = r3
    r4 = r4
    r5 = r5
    i1 = i1
    Requests = {r1, r2, r3, r4, r5}
    Items = {i1}
    Workloads <- WalkAndBlank
    NoRequest = NoRequest
    NoRca = NoRca
    PoolSize = 3
    QueryTries = 3
    MaxFaults = 0
PROPERTIES ClosedOnCompleteRca

SPECIFICATION FairSpec
CONSTANTS
    r1 = r1
    r2 = r2
    r3 = r3
    r4 = r4
    r5 = r5
    i1 = i1
    Requests = {r1, r2, r3, r4, r5}
    Items = {i1}
    Workloads <- WalkAndMore
    NoRequest = NoRequest
    NoRca = NoRca
    PoolSize = 2
    QueryTries = 2
    MaxFaults = 2
INVARIANTS LocksReturned TypeOK OneWinner
PROPERTIES ImplementsRecord EveryRequestAnswered ClosedRefusesRca

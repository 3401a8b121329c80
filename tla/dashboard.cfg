SPECIFICATION FairSpec
CONSTANTS
    w1 = w1
    g1 = g1
    p1 = p1
    c1 = c1
    Writers = {w1}
    Visible = {w1}
    Gets = {g1}
    Reporters = {p1}
    Clients = {c1}
    NoState = NoState
    Ttl = 1
    CallTime = 1
    LastCommit = 2
    MaxTime = 6
    MaxFaults = 1
INVARIANTS TypeOK StalenessBounded SettledWritesShow ShownStatesFresh
PROPERTIES EveryClientShown

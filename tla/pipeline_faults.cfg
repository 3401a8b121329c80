SPECIFICATION FairSpec
CONSTANTS
    s1 = s1
    s2 = s2
    s3 = s3
    c1 = c1
    c2 = c2
    Signals = {s1, s2}
    Components = {c1}
    ComponentOf <- Pair
    NoItem = NoItem
    MaxAttempts = 3
    RecordTries = 3
    MaxStalls = 1
    Concurrency = 2
    MaxRuns = 4
    MaxFaults = 1
    MaxCrashes = 0
    MaxExpiries = 1
    MaxLapses = 1
INVARIANTS
    TypeOK
    AlertLossBounded
    PersistedFirst
    CompletedIsMetered
PROPERTIES
    LedgerStable
    EveryJobSettles
    ImplementsLedger

SPECIFICATION Spec
CONSTANTS
    s1 = s1
    s2 = s2
    s3 = s3
    c1 = c1
    c2 = c2
    Signals = {s1, s2}
    Components = {c1}
    ComponentOf <- Pair
    NoItem = NoItem
    MaxAttempts = 3
    RecordTries = 3
    MaxStalls = 1
    Concurrency = 2
    MaxRuns = 6
    MaxFaults = 0
    MaxCrashes = 2
    MaxExpiries = 1
    MaxLapses = 1
SYMMETRY SwapPair
INVARIANTS
    CountMatchesLedger
    ItemsNeedWindows
    AlertedOnceAfterCommit
    CompletedIsCounted

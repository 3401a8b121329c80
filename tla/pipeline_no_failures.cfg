SPECIFICATION Spec
CONSTANTS
    s1 = s1
    s2 = s2
    s3 = s3
    c1 = c1
    c2 = c2
    Signals = {s1, s2, s3}
    Components = {c1, c2}
    ComponentOf <- PairAndOther
    NoItem = NoItem
    MaxAttempts = 3
    RecordTries = 3
    MaxStalls = 1
    Concurrency = 3
    MaxRuns = 4
    MaxFaults = 0
    MaxCrashes = 0
    MaxExpiries = 1
    MaxLapses = 0
SYMMETRY SwapPair
INVARIANTS
    BooksBalance
    CountedOnOwnComponent

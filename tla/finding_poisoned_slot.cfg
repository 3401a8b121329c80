SPECIFICATION Spec
CONSTANTS
    s1 = s1
    s2 = s2
    s3 = s3
    c1 = c1
    c2 = c2
    Signals = {s1}
    Components = {c1}
    ComponentOf <- Solo
    NoItem = NoItem
    MaxAttempts = 3
    RecordTries = 3
    MaxStalls = 1
    Concurrency = 1
    MaxRuns = 3
    MaxFaults = 1
    MaxCrashes = 0
    MaxExpiries = 0
    MaxLapses = 0
INVARIANTS
    TransientFaultHeals

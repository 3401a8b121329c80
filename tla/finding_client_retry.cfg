SPECIFICATION Spec
CONSTANTS
    c1 = c1
    sigterm = sigterm
    sigint = sigint
    Clients = {c1}
    Payloads <- Retried
    MaxSends = 2
    BatchSize = 1
    RateMax = 2
    Keep = 1
    MaxFaults = 0
    Stops = {sigterm, sigint}
    MaxEnds = 0
INVARIANTS NeverDoubleProcesses
CHECK_DEADLOCK FALSE

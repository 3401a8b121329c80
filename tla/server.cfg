SPECIFICATION FairSpec
CONSTANTS
    c1 = c1
    sigterm = sigterm
    sigint = sigint
    Clients = {c1}
    Payloads <- OnePayload
    MaxSends = 2
    BatchSize = 2
    RateMax = 1
    Keep = 3
    MaxFaults = 1
    Stops = {sigterm, sigint}
    MaxEnds = 1
INVARIANTS TypeOK AcceptedIsDurable StoresOpenWhileUsed
PROPERTIES DoneOnce NothingCutOff OneSignalExitsClean ShutdownEnds AcceptedIsProcessed
CHECK_DEADLOCK FALSE

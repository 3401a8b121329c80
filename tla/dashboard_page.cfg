SPECIFICATION FairSpec
CONSTANTS
    MaxVisits = 2
    MaxBreaks = 2
    MaxNews = 1
INVARIANTS ChainsBounded ConnectedMeansOpen AllClearKnown
PROPERTIES PageCatchesUp
CHECK_DEADLOCK FALSE

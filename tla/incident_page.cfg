SPECIFICATION FairSpec
CONSTANTS
    a = a
    b = b
    Incidents = {a, b}
    First = a
    NoItem = NoItem
    MaxMishaps = 1
INVARIANTS TypeOK PageTellsTruth QuietPageFresh
PROPERTIES ButtonsComeBack
CHECK_DEADLOCK FALSE

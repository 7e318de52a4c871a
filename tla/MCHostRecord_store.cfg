SPECIFICATION FairSpec
CONSTANTS
    Reqs = {r1, r2}
    NoTask = NoTask
    MaxPairs = 2
    MaxRequests = 3
    MaxCrashes = 1
CHECK_DEADLOCK FALSE
INVARIANTS
    NothingUnsaved
    PairedIsTrusted
PROPERTIES
    RequestsAnswered

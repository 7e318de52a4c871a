SPECIFICATION FairSpec
CONSTANTS
    Clients = {c1}
    NoTask = NoTask
CHECK_DEADLOCK FALSE
PROPERTIES
    StopEndsProcess

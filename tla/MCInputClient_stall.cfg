SPECIFICATION InputFairSpec
CONSTANTS
    MaxTries = 2
    MaxDrops = 1
    MaxStreams = 1
CHECK_DEADLOCK FALSE
PROPERTIES
    ReattachesOrTells

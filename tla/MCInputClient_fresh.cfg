SPECIFICATION InputFairSpec
CONSTANTS
    MaxTries = 2
    MaxDrops = 0
    MaxStreams = 2
CHECK_DEADLOCK FALSE
PROPERTIES
    FreshPeer

SPECIFICATION FairSpec
CONSTANTS
    Primaries = {p1}
    Inputs = {i1}
    NoConn = NoConn
    MaxStreams = 2
    MaxClientId = 1
    MaxConnects = 2
    EmptyPolls = 1
    Faults = {"streamerCrash"}
INVARIANTS
    OneLiveStream
PROPERTIES
    ImplementsHostStream
    PrimaryGetsThrough
    PrimaryStreamerReaped
    IdlePlaceholderEnds
    DetachWhenOver

SPECIFICATION FairSpec
CONSTANTS
    Primaries = {p1}
    Inputs = {i1}
    NoConn = NoConn
    MaxStreams = 2
    MaxClientId = 2
    MaxConnects = 2
    EmptyPolls = 1
    Faults = {}
PROPERTIES
    EndedStreamIsLeft

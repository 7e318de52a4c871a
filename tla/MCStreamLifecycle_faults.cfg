SPECIFICATION Spec
CONSTANTS
    Primaries = {p1}
    Inputs = {i1, i2}
    NoConn = NoConn
    MaxStreams = 2
    MaxClientId = 2
    MaxConnects = 2
    EmptyPolls = 2
    Faults = {"stopTimeout", "hostDeleted", "streamerCrash", "spawnFailure"}
SYMMETRY Symmetry
INVARIANTS
    SlotHoldsRoutedStream
    EveryStreamerHasAKeeper
    ClientsAreReached

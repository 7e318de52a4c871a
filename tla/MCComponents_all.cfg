SPECIFICATION PartsSpec
CONSTANTS
    Starts = {s1, s2, s3}
    BadStrings = {s3}
    NoStart = NoStart
    Requests <- IpcRequests
    MaxOther = 1
    ChanCap = 1
    PipeCap = 1
    WsCap = 1
    IpcFaults = {"crash", "readError"}
    FrameSizes <- VideoSizes
    ChannelSize = 1
    PaceQueueMax = 2
    GroupSize = 2
    MaskBits = 3
    SeqModulus = 5
    MaxPauses = 1
    Window = 3
    MaxLosses = 3
    MaxSamples = 4
    AudioQueue = 2
    EagerFlush = 2
    MaxBytes = 10
    FreeBytes = 6
    Mtu = 9
    MaxUnits = 4
    SetLengths = {2, 8}
    SliceLengths = {9, 10, 20}
    Lengths <- FecLengths
    SizeOf <- FecSizeOf
    Symbols <- FecSymbols
    MaxGroup = 3
    Logins = {l1, l2}
    Changes = {c1, c2}
    MaxSecrets = 2
    MaxStops = 1
    MaxAttempts = 4
    NoTimer = NoTimer
    MaxTries = 2
    MaxDrops = 1
    MaxStreams = 2
    MaxCandidates = 2
    MaxOutages = 2
    Pads = {0, 1, 2}
    VirtualPads = {1}
    Vendors <- OneVendor
    NoVendor = NoVendor
    DeviceModes = {"auto", "physical", "virtual"}
    MaxPagePeers = 2
    MaxPlugs = 3
    Fingers = {f1, f2, f3}
    NoFinger = NoFinger
    TouchModes = {"mouseRelative", "pointAndDrag"}
    MaxConfigs = 1
CHECK_DEADLOCK FALSE
INVARIANTS
    OneNativeCall
    ParityCoversFrame
    FindsEveryUnit
    SlicesArrive
    OneLossIsRepaired
    SessionsAreSaved
    FactorIsAsked
    AnswersAreOwn
    CandidatesArrive
    FirstPeerHears
PROPERTIES
    LibraryIsFreed
    ImplementsLink
    StopIsHandled
    CallbackGetsThrough
    KeyframeComes
    AudioGetsOut
    ConnectsOrTells
    ReattachesUnhurried
    ConnectsOrStops
    ManyFingersNeverClick

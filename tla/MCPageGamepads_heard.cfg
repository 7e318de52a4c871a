SPECIFICATION PagePadSpec
CONSTANTS
    Pads = {0}
    VirtualPads = {}
    Vendors <- OneVendor
    NoVendor = NoVendor
    DeviceModes = {"auto"}
    MaxPagePeers = 2
    MaxPlugs = 1
CHECK_DEADLOCK FALSE
INVARIANTS
    PadsAreHeard

SPECIFICATION ProcessSpec
CONSTANTS
    primary = primary
    phone = phone
    Browsers = {primary, phone}
    Primary = primary
    LocalIds = {0}
    NumSlots = 1
    NoSlot = NoSlot
    NoHolder = NoHolder
    MaxMessages = 3
    Clients = {c1, c2}
    NoTask = NoTask
CHECK_DEADLOCK FALSE
INVARIANTS
    NoSharedSlot
    OneTeardown
    NoPeerLost
PROPERTIES
    SlotKept
    MessagesAnswered
    DetachReleases
    AttachNotBlocked
    StopEndsWaiting

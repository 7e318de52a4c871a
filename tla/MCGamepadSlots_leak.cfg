SPECIFICATION SlotsSpec
CONSTANTS
    primary = primary
    phone = phone
    Browsers = {primary, phone}
    Primary = primary
    LocalIds = {0}
    NumSlots = 2
    NoSlot = NoSlot
    NoHolder = NoHolder
    MaxMessages = 2
CHECK_DEADLOCK FALSE
INVARIANTS
    DetachedHoldsNothing

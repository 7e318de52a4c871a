SPECIFICATION Spec
CONSTANTS
    Clients = {c1}
    NoTask = NoTask
CHECK_DEADLOCK FALSE
INVARIANTS
    ToldWhenDown

CONSTANTS
    Slots = {s1, s2}
    Connector = FALSE
    MaxStreams = 2
    MaxFrames = 2
    WireCap = 2
    NoSlot = NoSlot
SPECIFICATION Spec
CHECK_DEADLOCK FALSE
INVARIANTS
    EndsForCause

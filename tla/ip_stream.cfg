CONSTANTS
    Slots = {s1, s2}
    Connector = TRUE
    MaxStreams = 2
    MaxFrames = 2
    WireCap = 2
    NoSlot = NoSlot
SPECIFICATION FairSpec
CHECK_DEADLOCK FALSE
INVARIANTS
    SlotsConserved
PROPERTIES
    SetAsideIsDelivered

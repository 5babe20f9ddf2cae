CONSTANTS
    Slots = {s1, s2}
    Buffers = {b1, b2}
    WireCap = 2
    MaxGen = 2
    MaxAdds = 3
    MaxPauses = 1
    None = None
SPECIFICATION FairSpec
CHECK_DEADLOCK FALSE
INVARIANT InFlightReserved

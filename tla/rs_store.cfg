CONSTANTS
    Calls = {k1, k2, k3}
    Lasting = {k1, k2}
    Apps = {a1, a2}
    Owners = {o1}
    Connectors = {c1}
    Desktop = Desktop
    MaxDisk = 1
    MaxMemory = 1
    MaxRestarts = 1
    None = None
SPECIFICATION Spec
SYMMETRY Symmetry
CHECK_DEADLOCK FALSE
INVARIANTS
    TypeOK
    RestoredAsConsented
    OldestEvictedFirst
    AckedSurvives
    ErasedStaysErased

CONSTANTS
    Calls = {k1, k2}
    CloseCalls = {x1, x2}
    Handles = {h1, h2}
    LargeCalls = {k1}
    QueueCap = 1
    MaxActive = 1
    None = None
SPECIFICATION FairSpec
CHECK_DEADLOCK FALSE
INVARIANTS
    TypeOK
    NoFalseCancel
    CountExact
    NoDialogOutlivesRequest
PROPERTIES
    KeepsContract
    NoHeadOfLineBlocking
    CancelledReturns

CONSTANTS
    Paths = {p1, p2}
    Apps = {a1}
    CreateCalls = {c1, c2}
    SelectCalls = {s1, s2}
    StartCalls = {t1, t2}
    CloseCalls = {x1}
    MaxSessions = 2
    MaxLiveCasts = 2
    QueueCap = 1
    MaxActive = 2
    None = None
SPECIFICATION Spec
SYMMETRY Symmetry
VIEW View
CHECK_DEADLOCK FALSE
INVARIANTS
    TypeOK
    NoOrphanProducer
    ReservationBacked
    OneProducerPerSession
    InstalledWhereReserved
    ObjectBacked

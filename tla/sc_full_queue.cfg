CONSTANTS
    Paths = {p1}
    Apps = {a1}
    CreateCalls = {c1}
    SelectCalls = {s1}
    StartCalls = {t1, t2}
    CloseCalls = {x1}
    MaxSessions = 1
    MaxLiveCasts = 1
    QueueCap = 1
    MaxActive = 2
    None = None
SPECIFICATION FairSpec
CHECK_DEADLOCK FALSE
PROPERTY DispatcherResponsive

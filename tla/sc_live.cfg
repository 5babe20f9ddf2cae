CONSTANTS
    Paths = {p1}
    Apps = {a1, a2}
    CreateCalls = {c1}
    SelectCalls = {s1}
    StartCalls = {t1}
    CloseCalls = {x1}
    MaxSessions = 1
    MaxLiveCasts = 1
    QueueCap = 4
    MaxActive = 2
    None = None
SPECIFICATION FairSpec
CHECK_DEADLOCK FALSE
PROPERTIES
    DispatcherResponsive
    StartReturns
    EndedSessionCloses

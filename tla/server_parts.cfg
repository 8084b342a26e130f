CONSTANTS
    t1 = t1
    t2 = t2
    t3 = t3
    t4 = t4
    s1 = s1
    s2 = s2
    w1 = w1
    w2 = w2
    d1 = d1
    d2 = d2
    Tasks = {t1, t2, t3, t4}
    Endless = {t1}
    Submitters = {s1, s2}
    Workers = {w1, w2}
    Stoppers = {d1, d2}
    Capacity = 2
    NoTask = NoTask
    HeaderSize = 3
    MaxPayload = 3
    SocketCapacity = 7
    MaxPackets = 3
    Sizes = {0, 1, 3, 4}
SPECIFICATION PartsSpec
CHECK_DEADLOCK FALSE
INVARIANTS
    PartsTypeOK
    RunsOnce
    DrainedAtShutdown
    ThrowsOnlyWhenCut
PROPERTIES
    AcceptedStarts
    SubmitReturns
    ShutdownReturns
    IsChannel
    PacketsArrive

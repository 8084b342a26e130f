CONSTANTS
    a = a
    b = b
    c = c
    s1 = s1
    s2 = s2
    c1 = c1
    c2 = c2
    Procs = {a, b}
    Clients = {a, b}
    Sessions = {s1, s2}
    SessionOf <- MCOwnSession
    Chunks = {c1, c2}
    Sources <- MCShortSources
    Edits = {}
    OneClient = TRUE
    PoolSizes = {2}
    Idle = {}
    MaxListed = 2
    MaxVersion = 2
    DiskFull = FALSE
    NoManifest = NoManifest
    Nothing = Nothing
SPECIFICATION Spec
INVARIANT AckedHoldsSource

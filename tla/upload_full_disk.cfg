CONSTANTS
    a = a
    b = b
    c = c
    s1 = s1
    s2 = s2
    c1 = c1
    c2 = c2
    Procs = {a}
    Clients = {a}
    Sessions = {s1}
    SessionOf <- MCOneClient
    Chunks = {c1, c2}
    Sources <- MCShortSources
    Edits = {}
    OneClient = TRUE
    PoolSizes = {1}
    Idle = {}
    MaxListed = 1
    MaxVersion = 1
    DiskFull = TRUE
    NoManifest = NoManifest
    Nothing = Nothing
SPECIFICATION Spec
INVARIANT CommittedVerifies

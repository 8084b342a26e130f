CONSTANTS
    a = a
    b = b
    c = c
    s1 = s1
    s2 = s2
    c1 = c1
    c2 = c2
    Procs = {a, b}
    Clients = {a, b}
    Sessions = {s1}
    SessionOf <- MCSameSession
    Chunks = {c1, c2}
    Sources <- MCShortSources
    Edits <- MCReplaced
    OneClient = FALSE
    PoolSizes = {1}
    Idle = {a}
    MaxListed = 2
    MaxVersion = 2
    DiskFull = FALSE
    NoManifest = NoManifest
    Nothing = Nothing
SPECIFICATION FairSpec
PROPERTY UploadEnds

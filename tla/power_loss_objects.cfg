CONSTANTS
    p1 = p1
    p2 = p2
    c1 = c1
    c2 = c2
    Procs = {p1}
    Chunks = {c1, c2}
    Contents <- MCContents
    Prefix <- MCPrefix
    LastVersion = 1
    Committed = Committed
    Entries = Entries
    Torn = Torn
    NoFile = NoFile
SPECIFICATION PowerSpec
INVARIANT MarkedChunksStored

CONSTANTS
    x = x
    y = y
    Bytes = {x, y}
    ChunkSize = 3
    MinSize = 2
    MaxSize = 3
    Hits <- MCHits
    Paths <- MCPaths
    Sources <- MCSources
    MaxVersion = 2
    MaxDamage = 1
    MaxStops = 1
    MaxEvents = 3
    Garbled = Garbled
    Invalid = Invalid
    p1 = p1
    p2 = p2
    c1 = c1
    c2 = c2
    Procs = {p1, p2}
    Chunks = {c1, c2}
    Contents <- MCContents
    Prefix <- MCPrefix
    LastVersion = 1
    Committed = Committed
    Entries = Entries
    Torn = Torn
    NoFile = NoFile
    Writers = {p1, p2}
    HeaderSize = 3
    Sizes = {0, 1}
    MaxRecords = 3
    Throws = Throws
SPECIFICATION StorageSpec
SYMMETRY Symmetry
INVARIANTS
    StorageTypeOK
    CommittedIsSource
    EachByteOnce
    ChunkSizes
    SoundVerifies
    RestoredIsSource
    CutsResync
    UploadIsCreate
    WholeFiles
    MarkedHasManifest
    ReportedSurvives
    LogReadsBack
PROPERTIES
    RestoreAsVerified
    IsLog

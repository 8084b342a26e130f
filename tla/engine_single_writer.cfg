CONSTANTS
    p1 = p1
    p2 = p2
    c1 = c1
    c2 = c2
    Procs = {p1, p2}
    Chunks = {c1, c2}
    Sources <- MCShortSources
    NoManifest = NoManifest
    MaxListed = 2
    MaxVersion = 2
    OneCommand = FALSE
    OneWriter = TRUE
    SourceStable = TRUE
    Offered = {"create", "recover"}
SPECIFICATION Spec
INVARIANTS
    CheckpointCommitted
    VersionsContiguous
PROPERTY IsHistory

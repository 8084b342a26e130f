CONSTANTS
    p1 = p1
    p2 = p2
    c1 = c1
    c2 = c2
    Procs = {p1, p2}
    Chunks = {c1, c2}
    Sources <- MCSources
    NoManifest = NoManifest
    MaxListed = 1
    MaxVersion = 1
    OneCommand = FALSE
    OneWriter = FALSE
    SourceStable = FALSE
    Offered = {"create", "recover", "compact"}
SPECIFICATION Spec
SYMMETRY Symmetry
INVARIANTS
    CommittedReadable
    LogFollowsFiles

CONSTANTS
    p1 = p1
    p2 = p2
    c1 = c1
    c2 = c2
    Procs = {p1}
    Chunks = {c1, c2}
    Sources <- MCSourcesAndEmpty
    NoManifest = NoManifest
    MaxListed = 2
    MaxVersion = 2
    OneCommand = TRUE
    OneWriter = TRUE
    SourceStable = TRUE
    Offered = {"create", "recover", "checkpoint", "compact"}
SPECIFICATION Spec
INVARIANTS
    TypeOK
    CommittedVerifies
    CreatedInCheckpoint
PROPERTY TornLogStopsRecover

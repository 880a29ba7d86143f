SPECIFICATION FairUploadSpec
CONSTANTS
    MaxChunks = 3
    Sources <- TwoVersions
    Hole = Hole
    Torn = Torn
    NoChunk = NoChunk
    NoSess = NoSess
    SourceFaults = TRUE
    DiskFaults = TRUE
    ByteRange = 4
    Quota = 3
    TableFull = FALSE
    ServerFaults = TRUE
    Editable = TRUE
    Removable = TRUE
INVARIANTS
    NoSeqMismatch
    MutualWaitOnlyFromClient
PROPERTIES
    AttemptEnds

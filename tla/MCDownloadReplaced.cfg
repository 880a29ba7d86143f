SPECIFICATION DownloadSpec
CONSTANTS
    MaxChunks = 3
    Sources <- TwoVersions
    Hole = Hole
    Torn = Torn
    NoChunk = NoChunk
    NoSess = NoSess
    SourceFaults = TRUE
    DiskFaults = FALSE
    TableFull = FALSE
    Replaceable = TRUE
    ServerFaults = FALSE
INVARIANTS
    ChunksInPlace
    NoSeqMismatch

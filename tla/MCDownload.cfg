SPECIFICATION FairDownloadSpec
CONSTANTS
    MaxChunks = 4
    Sources <- SomeFiles
    Hole = Hole
    Torn = Torn
    NoChunk = NoChunk
    NoSess = NoSess
    SourceFaults = TRUE
    DiskFaults = FALSE
    TableFull = TRUE
    Replaceable = FALSE
    ServerFaults = TRUE
INVARIANTS
    DownloadTypeOK
PROPERTIES
    DownloadsByChunks
    DownloadEnds

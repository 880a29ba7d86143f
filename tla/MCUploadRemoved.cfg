SPECIFICATION UploadSpec
CONSTANTS
    MaxChunks = 4
    Sources <- SomeFiles
    Hole = Hole
    Torn = Torn
    NoChunk = NoChunk
    NoSess = NoSess
    SourceFaults = FALSE
    DiskFaults = FALSE
    ByteRange = 2
    Quota = 4
    TableFull = FALSE
    ServerFaults = FALSE
    Editable = FALSE
    Removable = TRUE
PROPERTIES
    FinOnlyWhenStored

SPECIFICATION UploadSpec
CONSTANTS
    MaxChunks = 5
    Sources <- SomeFilesOneTooLarge
    Hole = Hole
    Torn = Torn
    NoChunk = NoChunk
    NoSess = NoSess
    SourceFaults = TRUE
    DiskFaults = FALSE
    ByteRange = 2
    Quota = 4
    TableFull = TRUE
    ServerFaults = TRUE
    Editable = FALSE
    Removable = FALSE
INVARIANTS
    UploadTypeOK
    ResumeWithinStored
PROPERTIES
    FinOnlyWhenStored
    UploadsByChunks

SPECIFICATION Spec
CONSTANTS
    MaxChunks = 3
    Sources <- MCSources
    Hole = Hole
    Torn = Torn
    NoChunk = NoChunk
    SourceFaults = TRUE
    DiskFaults = FALSE
INVARIANTS
    CompleteCopy
    CountedIsStored
    AckedIsHeld
    NoSeqMismatch
    CountsInStep
    DataInStep
PROPERTY
    CopiesInOrder

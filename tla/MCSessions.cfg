SPECIFICATION Spec
CONSTANTS
    Files = {a, b}
    Folders = {d}
    RawName = RawName
    Capacity = 3
    MaxChunks = 2
    Null = Null
    Garbage = Garbage
    None = None
INVARIANTS
    LiveArePointers
    OneSessionPerFile
    AtRest
    HandlerInPlace
PROPERTIES
    KeepsResumePoints

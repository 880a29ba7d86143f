SPECIFICATION AlgorithmsSpec
CONSTANTS
    a = a
    store = store
    me = me
    meToo = meToo
    Names = {a, store, me, meToo}
    Root <- TheRoot
    Longer = {meToo}
    MaxLen = 4
    ChunkSize = 4096
    Exact = 16777216
    Ulps = {1, 2, 4, 8, 16, 32, 64}
    Sizes <- SomeSizes
INVARIANTS
    PathsTypeOK
    KeepsWhatSurvives
    
    EndIsThere
    NoGap
CHECK_DEADLOCK FALSE
